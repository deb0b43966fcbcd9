--------------------------- MODULE ResultsProofs ----------------------------
(***************************************************************************)
(* Theorems about what the tools give back, for texts of any length and    *)
(* any encoding, any cap that leaves room for the wrapper, and any call of *)
(* the client.  What matters is that the 128 bytes set aside for the       *)
(* wrapper also hold the marker that the cap adds, with all its digits.    *)
(***************************************************************************)
EXTENDS Results, FiniteSetTheorems, WellFoundedInduction, TLAPS

LEMMA DigitsType ==
    ASSUME NEW n PROVE Digits(n) \in 1..10
<1>1. IsFiniteSet(1..9) /\ Cardinality(1..9) = 9
  <2>1. 1 \in Int /\ 9 \in Int /\ ~(1 > 9) /\ 9 - 1 + 1 = 9
    OBVIOUS
  <2> QED
    BY <2>1, FS_Interval
<1> DEFINE D == {d \in 1..9 : n >= 10^d}
<1>2. IsFiniteSet(D) /\ Cardinality(D) <= 9
  <2>1. D \in SUBSET (1..9)
    OBVIOUS
  <2> QED
    BY <1>1, <2>1, FS_Subset
<1>3. Cardinality(D) \in Nat
  BY <1>2, FS_CardinalityType
<1>4. Digits(n) = 1 + Cardinality(D)
  BY DEF Digits
<1> QED
  BY <1>2, <1>3, <1>4

\* A set of numbers has a least one.
LEMMA Least ==
    ASSUME NEW T, T \subseteq Nat, T # {} PROVE \E x \in T : \A y \in T : x <= y
<1>1. PICK x \in T : \A y \in T : ~(<<y, x>> \in OpToRel(<, Nat))
  BY NatLessThanWellFounded, WFMin
<1>2. ASSUME NEW y \in T PROVE x <= y
  <2>1. x \in Nat /\ y \in Nat
    OBVIOUS
  <2>2. ~(y < x)
    BY <1>1, <2>1 DEF OpToRel
  <2> QED
    BY <2>1, <2>2
<1> QED
  BY <1>2

\* So there is one place where Truncate cuts, the last it may.
LEMMA OneCut ==
    ASSUME NEW t \in Text, NEW n \in Nat
    PROVE  \E k \in Ends(t, n) : Cuts(t, n) = {k} /\ \A j \in Ends(t, n) : j <= k
<1> DEFINE Back == {n - k : k \in Ends(t, n)}
<1>1. Ends(t, n) \subseteq 0..n /\ 0 \in Ends(t, n)
  BY DEF Ends
<1>2. Back \subseteq Nat /\ Back # {}
  BY <1>1
<1>3. PICK x \in Back : \A y \in Back : x <= y
  BY <1>2, Least
<1>4. PICK k \in Ends(t, n) : x = n - k
  BY <1>3
<1>5. ASSUME NEW j \in Ends(t, n) PROVE j <= k
  <2>1. n - k <= n - j
    BY <1>3, <1>4
  <2>2. j \in Int /\ k \in Int /\ n \in Int
    BY <1>1
  <2> QED
    BY <2>1, <2>2
<1>6. Cuts(t, n) = {k}
  BY <1>1, <1>5 DEF Cuts
<1> QED
  BY <1>5, <1>6

\* What CapText shows and says is what there is; and what it adds to the cap
\* is at most the ellipsis and the marker.
LEMMA CapTextFacts ==
    ASSUME NEW t \in Text, NEW max \in Nat, NEW r \in CapText(t, max)
    PROVE  /\ r.shown \in Nat /\ r.said \in Int /\ r.len \in Nat
           /\ r.shown + r.said = t.len
           /\ r.len <= max + 35
<1>1. t.len \in Nat
  BY DEF Text
<1>2. CASE t.len <= max
  <2>1. r = [shown |-> t.len, said |-> 0, len |-> t.len]
    BY <1>2 DEF CapText
  <2> QED
    BY <1>1, <1>2, <2>1
<1>3. CASE ~(t.len <= max)
  <2>1. PICK k \in Cuts(t, max) :
          r = [shown |-> k,
               said  |-> t.len - Kept(k + Ellipsis),
               len   |-> k + Ellipsis + Marker(t.len - Kept(k + Ellipsis))]
    BY <1>3 DEF CapText
  <2>2. k \in Nat /\ k <= max
    BY DEF Cuts, Ends
  <2>3. Kept(k + Ellipsis) = k
    BY <2>2 DEF Kept, Ellipsis
  <2>4. Marker(t.len - k) \in Nat /\ Marker(t.len - k) <= 32
    BY DigitsType DEF Marker, Ellipsis
  <2> QED
    BY <1>1, <2>1, <2>2, <2>3, <2>4 DEF Ellipsis
<1> QED
  BY <1>2, <1>3

LEMMA BudgetFacts == Budget \in Nat /\ MaxOutput \in Nat /\ Budget + Overhead = MaxOutput
BY OutputAssumption DEF Budget, Overhead

LEMMA WrappedFits ==
    ASSUME NEW t \in Text, NEW r \in CapText(t, Budget)
    PROVE  Closed(Wrapped(r))
<1>1. \E len : r.len = len /\ len \in Nat /\ len <= Budget + 35
  BY CapTextFacts, BudgetFacts
<1>2. Wrapped(r).len = Preamble + 19 + Source + 3 + r.len + 13
  <2>1. CASE t.len <= Budget
    <3>1. r = [shown |-> t.len, said |-> 0, len |-> t.len]
      BY <2>1 DEF CapText
    <3> QED
      BY <3>1 DEF Wrapped
  <2>2. CASE ~(t.len <= Budget)
    <3>1. \E a, b, c : r = [shown |-> a, said |-> b, len |-> c]
      BY <2>2 DEF CapText
    <3> QED
      BY <3>1 DEF Wrapped
  <2> QED
    BY <2>1, <2>2
<1> QED
  BY <1>1, <1>2, BudgetFacts, OutputAssumption DEF Closed, Overhead
-----------------------------------------------------------------------------
\* capText is a function: whatever the text and the cap, CapText is one result.
THEOREM CapTextIsOne ==
    ASSUME NEW t \in Text, NEW max \in Nat
    PROVE  \E r : CapText(t, max) = {r}
<1> DEFINE R(k) == [shown |-> k,
                    said  |-> t.len - Kept(k + Ellipsis),
                    len   |-> k + Ellipsis + Marker(t.len - Kept(k + Ellipsis))]
           C == Cuts(t, max)
<1>1. PICK k : C = {k}
  BY OneCut
<1>2. CapText(t, max) = IF t.len <= max THEN {[shown |-> t.len, said |-> 0, len |-> t.len]}
                        ELSE {R(j) : j \in C}
  BY DEF CapText
<1> HIDE DEF R, C
<1>3. {R(j) : j \in C} = {R(k)}
  BY <1>1
<1> QED
  BY <1>2, <1>3

\* A character of the text at least every four bytes: so it is in UTF-8.
Readable(t) == \A n \in 0..t.len : n < 4 \/ \E k \in t.starts : n - 3 <= k /\ k <= n

\* The cut splits no character and leaves out no more than it must: what is
\* shown of a text that is too long ends where a character begins, within
\* three bytes of the cap if the text is UTF-8 (client.go:295-304).
THEOREM CutIsTight ==
    ASSUME NEW t \in Text, NEW max \in Nat, NEW r \in CapText(t, max), t.len > max
    PROVE  /\ r.shown <= max
           /\ r.shown = 0 \/ r.shown \in t.starts
           /\ Readable(t) => r.shown + 3 >= max
<1>1. PICK k \in Ends(t, max) :
        Cuts(t, max) = {k} /\ \A j \in Ends(t, max) : j <= k
  BY OneCut
<1>2. k \in 0..max /\ (k = 0 \/ k \in t.starts)
  BY DEF Ends
<1>3. t.len \in Nat /\ t.starts \subseteq Nat
  BY DEF Text
<1>4. r.shown = k
  <2>1. ~(t.len <= max)
    BY <1>3
  <2>2. \E s, l : r = [shown |-> k, said |-> s, len |-> l]
    BY <1>1, <2>1 DEF CapText
  <2> QED
    BY <2>2
<1>5. ASSUME Readable(t) PROVE k + 3 >= max
  <2>1. CASE max < 4
    BY <1>2, <2>1
  <2>2. CASE max >= 4
    <3>1. PICK j \in t.starts : max - 3 <= j /\ j <= max
      BY <1>3, <1>5, <2>2 DEF Readable
    <3>2. j \in Ends(t, max)
      BY <1>3, <3>1 DEF Ends
    <3> QED
      BY <1>1, <1>2, <1>3, <3>1, <3>2
  <2> QED
    BY <2>1, <2>2
<1> QED
  BY <1>2, <1>4, <1>5
-----------------------------------------------------------------------------
Sound(r) == (r.wrapped => r.closed) /\ r.shown + r.said = r.of

LEMMA RepliesSound ==
    ASSUME NEW w \in BOOLEAN, NEW r \in Replies[w] PROVE Sound(r)
<1> DEFINE From(t, c) ==
      [of |-> t.len, shown |-> c.shown, said |-> c.said, wrapped |-> w,
       closed |-> w /\ Closed(Wrapped(c))]
<1>0. PICK t \in Texts :
        \E c \in CapText(t, IF w THEN Budget ELSE MaxOutput) : r = From(t, c)
  BY DEF Replies
<1>1. PICK c \in CapText(t, IF w THEN Budget ELSE MaxOutput) : r = From(t, c)
  BY <1>0
<1>2. t \in Text
  BY TextsAssumption
<1>3. r.shown + r.said = r.of
  <2>1. c.shown + c.said = t.len
    BY <1>2, CapTextFacts, BudgetFacts
  <2> QED
    BY <1>1, <2>1
<1>4. r.wrapped => r.closed
  <2>1. w => Closed(Wrapped(c))
    BY <1>2, WrappedFits
  <2>2. r.wrapped = w /\ r.closed = (w /\ Closed(Wrapped(c)))
    BY <1>1
  <2> QED
    BY <2>1, <2>2
<1> QED
  BY <1>3, <1>4 DEF Sound

\* Whatever the call came to, there is something to give back: Answer is never
\* short of a reply.
THEOREM AlwaysAReply ==
    ASSUME Texts # {}, NEW w \in BOOLEAN
    PROVE  Replies[w] # {}
<1> DEFINE cap == IF w THEN Budget ELSE MaxOutput
           From(t) == {[of |-> t.len, shown |-> c.shown, said |-> c.said, wrapped |-> w,
                        closed |-> w /\ Closed(Wrapped(c))] : c \in CapText(t, cap)}
<1>1. PICK t : t \in Texts
  OBVIOUS
<1>2. \E c : CapText(t, cap) = {c}
  <2>1. t \in Text /\ cap \in Nat
    BY <1>1, TextsAssumption, BudgetFacts
  <2> QED
    BY <2>1, CapTextIsOne
<1>3. From(t) # {}
  <2> HIDE DEF cap
  <2> QED
    BY <1>2
<1>4. Replies[w] = UNION {From(s) : s \in Texts}
  BY DEF Replies
<1> QED
  BY <1>1, <1>3, <1>4

Inv == reply # NoReply => Sound(reply)

LEMMA Invariance == RSpec => []Inv
<1>1. RInit => Inv
  BY DEF RInit, Inv
<1>2. Inv /\ [RNext]_rvars => Inv'
  <2> SUFFICES ASSUME Inv, [RNext]_rvars PROVE Inv'
    OBVIOUS
  <2>1. CASE Answer
    <3>1. (result = "ok" /\ kind \in Polled) \in BOOLEAN
      OBVIOUS
    <3>2. reply' \in Replies[result = "ok" /\ kind \in Polled]
      BY <2>1 DEF Answer
    <3>3. Sound(reply')
      BY <3>1, <3>2, RepliesSound
    <3> QED
      BY <3>3 DEF Inv, Sound
  <2>2. CASE UNCHANGED reply
    BY <2>2 DEF Inv, Sound
  <2> QED
    BY <2>1, <2>2 DEF RNext, rvars
<1> QED
  BY <1>1, <1>2, PTL DEF RSpec

\* What comes from a container always ends with its closing delimiter.
THEOREM DelimiterKept == RSpec => []DelimiterSurvives
<1>1. Inv => DelimiterSurvives
  BY DEF Inv, Sound, DelimiterSurvives
<1> QED
  BY <1>1, Invariance, PTL

\* Of every text, what is shown and what the marker counts make up the whole.
THEOREM MarkerIsTrue == RSpec => []MarkerCounts
<1>1. Inv => MarkerCounts
  BY DEF Inv, Sound, MarkerCounts
<1> QED
  BY <1>1, Invariance, PTL

\* The call under a tool is a call of the client, with its fairness: what
\* VastClientProofs says of Spec holds here.
THEOREM ClientInside == RSpec => Spec
<1>1. RInit => Init
  BY DEF RInit
<1>2. [RNext]_rvars => [Next]_vars
  BY DEF RNext, rvars, Answer
<1> QED
  BY <1>1, <1>2, PTL DEF RSpec, Spec
=============================================================================
