------------------------------ MODULE Results -------------------------------
(***************************************************************************)
(* What a tool that reads gives back (internal/tools/tools.go): the error  *)
(* or the answer of one call of the client, VastClient, as the text that   *)
(* Output makes of it.  Logs and the output of commands come from inside   *)
(* the container and are wrapped; everything else is JSON of the API.      *)
(***************************************************************************)
EXTENDS VastClient, Output

CONSTANT Texts  \* what an answer, or an error, can be

ASSUME TextsAssumption == Texts \subseteq Text

VARIABLE reply

rvars == <<vars, reply>>

NoReply == [of |-> -1]

\* What a text becomes: the handlers of logs and commands wrap what the
\* client brings; textResult caps it all.
Replies ==
    [wrapped \in BOOLEAN |->
        UNION {{[of |-> t.len, shown |-> r.shown, said |-> r.said, wrapped |-> wrapped,
                 closed |-> wrapped /\ Closed(Wrapped(r))] :
                    r \in CapText(t, IF wrapped THEN Budget ELSE MaxOutput)} : t \in Texts}]

\* errResult, jsonResult and textResult.
Answer ==
    /\ pc = "ended" /\ reply = NoReply
    /\ reply' \in Replies[result = "ok" /\ kind \in Polled]
    /\ UNCHANGED vars

RInit == Init /\ reply = NoReply

RNext == Answer \/ (Next /\ UNCHANGED reply)

RSpec == RInit /\ [][RNext]_rvars /\ WF_vars(Client) /\ WF_vars(Tick)
-----------------------------------------------------------------------------
(* Properties. *)

\* What comes from a container ends with the delimiter that says so
\* (guard.go:135-138): the second cap, in textResult, cuts nothing off what
\* the first one sized, whatever the marker and its digits add to it.
DelimiterSurvives == reply # NoReply /\ reply.wrapped => reply.closed

\* Nothing is left out of a text without a word, and the marker counts what
\* is (guard.go:157-164), wherever the cut had to move back to.
MarkerCounts == reply # NoReply => reply.shown + reply.said = reply.of
=============================================================================
