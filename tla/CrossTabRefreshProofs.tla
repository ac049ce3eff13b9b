------------------------ MODULE CrossTabRefreshProofs ------------------------
(***************************************************************************)
(* The types of CrossTabRefresh, the bound on how deep the interceptor     *)
(* nests, NoReplay, and SignedOutOnlyWhenOver, for any number of tabs and  *)
(* pairs.                                                                  *)
(***************************************************************************)
EXTENDS CrossTabRefresh, SequenceTheorems, TLAPS

FrameUpTo(n) == [refresh: BOOLEAN, rotation: BOOLEAN, at: At, pair: 0..n,
                 status: Status, cookies: 0..n]

\* How many of its two retries a frame has used up.
Retries(f) == (IF f.refresh THEN 1 ELSE 0) + (IF f.rotation THEN 1 ELSE 0)

\* A frame at position i of a stack: whoever has sent another request has used
\* up a retry for it, so the flags of the nested requests add up.
FrameOk(f, i) ==
    /\ i <= Retries(f) + 1
    /\ f.at \in {"retrying", "rotating", "rotated", "again"} => i <= Retries(f)
    /\ f.at = "retrying" => f.refresh
    /\ f.at \in {"rotating", "rotated", "again"} => f.rotation
    /\ f.at \in {"refreshing", "refreshed"} => ~f.refresh
    /\ f.status # "ok" => f.cookies = 0

Nested(s) == \A i \in 1..Len(s) : FrameOk(s[i], i)

Stack(n, s) == s \in Seq(FrameUpTo(n)) /\ Nested(s)

StacksInv ==
    /\ req \in [Tabs -> [Kind -> Seq(FrameUpTo(newest))]]
    /\ \A t \in Tabs, k \in Kind : Nested(req[t][k])

TypeInv == TypeOK /\ StacksInv

-----------------------------------------------------------------------------
(* Stacks of frames *)

LEMMA BelowFacts ==
  ASSUME NEW F, NEW s \in Seq(F), s # <<>>
  PROVE  /\ Len(s) \in Nat \ {0} /\ Top(s) \in F
         /\ Below(s) \in Seq(F) /\ Len(Below(s)) = Len(s) - 1
         /\ \A i \in 1..Len(s) - 1 : Below(s)[i] = s[i]
  <1> DEFINE n == Len(s) - 1
             b == SubSeq(s, 1, n)
  <1>1. Len(s) \in Nat \ {0} /\ s \in [1..Len(s) -> F]
    BY EmptySeq, LenProperties
  <1>2. n \in Nat /\ Len(s) = n + 1
    BY <1>1
  <1>3. s[Len(s)] \in F /\ \A i \in 1..n : s[i] \in F
    BY <1>1
  <1> HIDE DEF n
  <1>4. /\ b \in Seq(F)
        /\ Len(b) = IF 1 <= n THEN n - 1 + 1 ELSE 0
        /\ \A i \in 1..n - 1 + 1 : b[i] = s[1 + i - 1]
    <2>1. 1 \in Int /\ n \in Int
      BY <1>2
    <2> QED
      BY <2>1, <1>3, SubSeqProperties
  <1> HIDE DEF b
  <1>5. Len(b) = n /\ \A i \in 1..n : b[i] = s[i]
    BY <1>2, <1>4
  <1> QED
    BY <1>1, <1>2, <1>3, <1>4, <1>5 DEF Top, Below, n, b

LEMMA WithTopFacts ==
  ASSUME NEW F, NEW s \in Seq(F), s # <<>>, NEW f \in F
  PROVE  /\ WithTop(s, f) \in Seq(F) /\ Len(WithTop(s, f)) = Len(s)
         /\ WithTop(s, f) # <<>> /\ Top(WithTop(s, f)) = f
         /\ \A i \in 1..Len(s) - 1 : WithTop(s, f)[i] = s[i]
  <1> DEFINE b == Below(s)
  <1>1. /\ Len(s) \in Nat \ {0} /\ b \in Seq(F) /\ Len(b) = Len(s) - 1
        /\ \A i \in 1..Len(s) - 1 : b[i] = s[i]
    BY BelowFacts
  <1>2. <<f>> \in Seq(F) /\ Len(<<f>>) = 1 /\ <<f>>[1] = f
    OBVIOUS
  <1> HIDE DEF b
  <1>3. /\ b \o <<f>> \in Seq(F) /\ Len(b \o <<f>>) = Len(b) + 1
        /\ \A i \in 1..Len(b) + 1 : (b \o <<f>>)[i] = IF i <= Len(b) THEN b[i] ELSE <<f>>[i - Len(b)]
    BY <1>1, <1>2, ConcatProperties
  <1>4. WithTop(s, f) = b \o <<f>>
    BY DEF b, WithTop
  <1> DEFINE w == b \o <<f>>
  <1>5. w \in Seq(F) /\ Len(w) = Len(s) /\ w[Len(s)] = f /\ \A i \in 1..Len(s) - 1 : w[i] = s[i]
    BY <1>1, <1>2, <1>3
  <1> HIDE DEF w
  <1>6. w # <<>>
    BY <1>1, <1>5, EmptySeq
  <1> QED
    BY <1>4, <1>5, <1>6 DEF Top, w

LEMMA SendingFacts ==
  ASSUME NEW F, NEW s \in Seq(F), s # <<>>, NEW f \in F, NEW g \in F
  PROVE  /\ Sending(s, f, g) \in Seq(F) /\ Len(Sending(s, f, g)) = Len(s) + 1
         /\ Sending(s, f, g) # <<>> /\ Top(Sending(s, f, g)) = g
         /\ Sending(s, f, g)[Len(s)] = f
         /\ \A i \in 1..Len(s) - 1 : Sending(s, f, g)[i] = s[i]
  <1> DEFINE b == Below(s)
  <1>1. /\ Len(s) \in Nat \ {0} /\ b \in Seq(F) /\ Len(b) = Len(s) - 1
        /\ \A i \in 1..Len(s) - 1 : b[i] = s[i]
    BY BelowFacts
  <1>2. <<f, g>> \in Seq(F) /\ Len(<<f, g>>) = 2 /\ <<f, g>>[1] = f /\ <<f, g>>[2] = g
    OBVIOUS
  <1> HIDE DEF b
  <1>3. /\ b \o <<f, g>> \in Seq(F) /\ Len(b \o <<f, g>>) = Len(b) + 2
        /\ \A i \in 1..Len(b) + 2 : (b \o <<f, g>>)[i] = IF i <= Len(b) THEN b[i] ELSE <<f, g>>[i - Len(b)]
    BY <1>1, <1>2, ConcatProperties
  <1>4. Sending(s, f, g) = b \o <<f, g>>
    BY DEF b, Sending
  <1> DEFINE w == b \o <<f, g>>
  <1> DEFINE p == <<f, g>>
  <1> HIDE DEF w, p
  <1>5. /\ w \in Seq(F) /\ Len(w) = Len(b) + 2
        /\ \A i \in 1..Len(b) + 2 : w[i] = IF i <= Len(b) THEN b[i] ELSE p[i - Len(b)]
    BY <1>3 DEF w, p
  <1>6. p[1] = f /\ p[2] = g
    BY <1>2 DEF p
  <1>7. w[Len(s)] = f /\ w[Len(s) + 1] = g
    <2>1. Len(s) \in 1..Len(b) + 2 /\ ~(Len(s) <= Len(b)) /\ Len(s) - Len(b) = 1
      BY <1>1
    <2>2. Len(s) + 1 \in 1..Len(b) + 2 /\ ~(Len(s) + 1 <= Len(b)) /\ Len(s) + 1 - Len(b) = 2
      BY <1>1
    <2> QED
      BY <2>1, <2>2, <1>5, <1>6
  <1>8. Len(w) = Len(s) + 1 /\ \A i \in 1..Len(s) - 1 : w[i] = s[i]
    BY <1>1, <1>5
  <1>9. w # <<>>
    BY <1>1, <1>5, <1>8, EmptySeq
  <1>10. Top(w) = g
    BY <1>7, <1>8 DEF Top
  <1>11. Sending(s, f, g) = w
    BY <1>4 DEF w
  <1> QED
    BY <1>5, <1>7, <1>8, <1>9, <1>10, <1>11

LEMMA PrefixFacts ==
  ASSUME NEW F, NEW s \in Seq(F), NEW m \in 1..Len(s)
  PROVE  /\ SubSeq(s, 1, m) \in Seq(F) /\ Len(SubSeq(s, 1, m)) = m
         /\ SubSeq(s, 1, m) # <<>> /\ Top(SubSeq(s, 1, m)) = s[m]
         /\ \A i \in 1..m : SubSeq(s, 1, m)[i] = s[i]
  <1>1. Len(s) \in Nat /\ s \in [1..Len(s) -> F]
    BY LenProperties
  <1> DEFINE w == SubSeq(s, 1, m)
  <1>2. /\ w \in Seq(F) /\ Len(w) = IF 1 <= m THEN m - 1 + 1 ELSE 0
        /\ \A i \in 1..m - 1 + 1 : w[i] = s[1 + i - 1]
    <2>1. 1 \in Int /\ m \in Int /\ \A i \in 1..m : s[i] \in F
      BY <1>1
    <2> QED
      BY <2>1, SubSeqProperties
  <1>3. w \in Seq(F) /\ Len(w) = m /\ m \in Nat \ {0} /\ \A i \in 1..m : w[i] = s[i]
    BY <1>1, <1>2
  <1> HIDE DEF w
  <1>4. w # <<>>
    BY <1>3, EmptySeq
  <1> QED
    BY <1>2, <1>3, <1>4 DEF Top, w

-----------------------------------------------------------------------------
(* Frames *)

LEMMA FrameFields ==
  ASSUME NEW n \in Nat, NEW f \in FrameUpTo(n)
  PROVE  /\ f.refresh \in BOOLEAN /\ f.rotation \in BOOLEAN /\ f.at \in At
         /\ f.pair \in 0..n /\ f.status \in Status /\ f.cookies \in 0..n
         /\ \A p \in 0..n, r, o \in BOOLEAN : Send(r, o, p) \in FrameUpTo(n)
  BY DEF FrameUpTo, Send, At, Status

\* The changes that the interceptor makes to a frame.
LEMMA FrameMoves ==
  ASSUME NEW n \in Nat, NEW f \in FrameUpTo(n), NEW a \in At
  PROVE  LET g == [f EXCEPT !.at = a] IN
         /\ g \in FrameUpTo(n) /\ g.at = a /\ g.refresh = f.refresh /\ g.rotation = f.rotation
         /\ g.pair = f.pair /\ g.status = f.status /\ g.cookies = f.cookies
  BY DEF FrameUpTo

RotatedFrame(f, a) == [f EXCEPT !.rotation = TRUE, !.at = a]

LEMMA FrameRotates ==
  ASSUME NEW n \in Nat, NEW f \in FrameUpTo(n), NEW a \in At
  PROVE  LET g == RotatedFrame(f, a) IN
         /\ g \in FrameUpTo(n) /\ g.at = a /\ g.refresh = f.refresh /\ g.rotation
         /\ g.pair = f.pair /\ g.status = f.status /\ g.cookies = f.cookies
  BY DEF FrameUpTo, RotatedFrame

LEMMA FrameRetries ==
  ASSUME NEW n \in Nat, NEW f \in FrameUpTo(n)
  PROVE  LET g == [f EXCEPT !.at = "retrying", !.refresh = TRUE] IN
         /\ g \in FrameUpTo(n) /\ g.at = "retrying" /\ g.refresh /\ g.rotation = f.rotation
         /\ g.pair = f.pair /\ g.status = f.status /\ g.cookies = f.cookies
  BY DEF FrameUpTo, At

AnsweredFrame(f, st, c) == [f EXCEPT !.at = "answered", !.status = st, !.cookies = c]

LEMMA FrameAnswered ==
  ASSUME NEW n \in Nat, NEW f \in FrameUpTo(n), NEW st \in Status, NEW c \in 0..n
  PROVE  LET g == AnsweredFrame(f, st, c) IN
         /\ g \in FrameUpTo(n) /\ g.at = "answered" /\ g.refresh = f.refresh /\ g.rotation = f.rotation
         /\ g.pair = f.pair /\ g.status = st /\ g.cookies = c
  BY DEF FrameUpTo, At, AnsweredFrame

LEMMA FramesGrow ==
  ASSUME NEW m \in Nat, NEW n \in Nat, m <= n
  PROVE  FrameUpTo(m) \subseteq FrameUpTo(n) /\ \A s : Stack(m, s) => Stack(n, s)
  <1>1. 0..m \subseteq 0..n
    OBVIOUS
  <1>2. FrameUpTo(m) \subseteq FrameUpTo(n)
    BY <1>1, Zenon DEF FrameUpTo
  <1> QED
    BY <1>2, SeqMonotonic DEF Stack

LEMMA TopOk ==
  ASSUME NEW n \in Nat, NEW s, Stack(n, s), s # <<>>
  PROVE  Len(s) \in Nat \ {0} /\ Top(s) \in FrameUpTo(n) /\ FrameOk(Top(s), Len(s))
  BY BelowFacts DEF Stack, Nested, Top

LEMMA ReplacedTop ==
  ASSUME NEW n \in Nat, NEW s, Stack(n, s), s # <<>>, NEW f \in FrameUpTo(n), FrameOk(f, Len(s))
  PROVE  Stack(n, WithTop(s, f)) /\ WithTop(s, f) # <<>> /\ Top(WithTop(s, f)) = f
  <1> DEFINE w == WithTop(s, f)
  <1>1. /\ w \in Seq(FrameUpTo(n)) /\ Len(w) = Len(s)
        /\ w # <<>> /\ Top(w) = f
        /\ \A i \in 1..Len(s) - 1 : w[i] = s[i]
    BY WithTopFacts DEF Stack
  <1>2. Len(s) \in Nat \ {0}
    BY TopOk
  <1> HIDE DEF w
  <1>3. w[Len(s)] = f
    BY <1>1 DEF Top
  <1>4. Nested(w)
    <2> SUFFICES ASSUME NEW i \in 1..Len(w) PROVE FrameOk(w[i], i)
      BY DEF Nested
    <2>1. CASE i = Len(s)
      BY <2>1, <1>3
    <2>2. CASE i # Len(s)
      BY <2>2, <1>1, <1>2 DEF Stack, Nested
    <2> QED
      BY <2>1, <2>2
  <1> QED
    BY <1>1, <1>4 DEF Stack, w

LEMMA PushedTop ==
  ASSUME NEW n \in Nat, NEW s, Stack(n, s), s # <<>>, NEW f \in FrameUpTo(n), NEW g \in FrameUpTo(n),
         FrameOk(f, Len(s)), FrameOk(g, Len(s) + 1)
  PROVE  Stack(n, Sending(s, f, g)) /\ Sending(s, f, g) # <<>> /\ Top(Sending(s, f, g)) = g
  <1> DEFINE w == Sending(s, f, g)
  <1>1. /\ w \in Seq(FrameUpTo(n)) /\ Len(w) = Len(s) + 1
        /\ w # <<>> /\ Top(w) = g /\ w[Len(s)] = f
        /\ \A i \in 1..Len(s) - 1 : w[i] = s[i]
    BY SendingFacts DEF Stack
  <1>2. Len(s) \in Nat \ {0}
    BY TopOk
  <1> HIDE DEF w
  <1>3. w[Len(s) + 1] = g
    BY <1>1 DEF Top
  <1>4. Nested(w)
    <2> SUFFICES ASSUME NEW i \in 1..Len(w) PROVE FrameOk(w[i], i)
      BY DEF Nested
    <2>1. CASE i = Len(s)
      BY <2>1, <1>1
    <2>2. CASE i = Len(s) + 1
      BY <2>2, <1>3
    <2>3. CASE i # Len(s) /\ i # Len(s) + 1
      BY <2>3, <1>1, <1>2 DEF Stack, Nested
    <2> QED
      BY <2>1, <2>2, <2>3
  <1> QED
    BY <1>1, <1>4 DEF Stack, w

LEMMA CutStack ==
  ASSUME NEW n \in Nat, NEW s, Stack(n, s), NEW m \in 1..Len(s)
  PROVE  /\ Stack(n, SubSeq(s, 1, m)) /\ SubSeq(s, 1, m) # <<>>
         /\ Len(SubSeq(s, 1, m)) = m /\ Top(SubSeq(s, 1, m)) = s[m]
  <1>1. Len(s) \in Nat
    BY LenProperties DEF Stack
  <1> QED
    BY <1>1, PrefixFacts DEF Stack, Nested

\* With two retries, three frames.
LEMMA StacksAreShallow ==
  ASSUME NEW n \in Nat, NEW s, Stack(n, s)
  PROVE  Len(s) <= 3
  <1>1. CASE s = <<>>
    BY <1>1
  <1>2. CASE s # <<>>
    <2>1. Len(s) \in Nat \ {0} /\ Len(s) <= Retries(Top(s)) + 1
      BY <1>2, TopOk DEF FrameOk
    <2>2. Retries(Top(s)) <= 2 /\ Retries(Top(s)) \in Nat
      BY DEF Retries
    <2> QED
      BY <2>1, <2>2
  <1> QED
    BY <1>1, <1>2

-----------------------------------------------------------------------------
(* What the interceptor does to a stack *)

\* The stack waits, or has just sent a request with the cookies c.
GoesOn(s, c) ==
    /\ s # <<>>
    /\ \/ Top(s).at \notin {"sent", "answered"}
       \/ Top(s).at = "sent" /\ Top(s).pair = c

\* The stack waits for the script of the tab or for another request.
Waits(s) == s # <<>> /\ Top(s).at \notin {"sent", "answered"}

LEMMA TypesHere ==
  ASSUME TypeInv
  PROVE  /\ newest \in Nat \ {0} /\ newest \in 0..MaxPairs /\ jar \in 0..newest /\ minPair \in 0..newest
         /\ \A t \in Tabs, k \in Kind : Stack(newest, req[t][k])
  BY BoundAssumption DEF TypeInv, TypeOK, StacksInv, Stack

LEMMA SentFrame ==
  ASSUME NEW n \in Nat, NEW p \in 0..n, NEW r \in BOOLEAN, NEW o \in BOOLEAN
  PROVE  /\ Send(r, o, p) \in FrameUpTo(n)
         /\ Send(r, o, p).refresh = r /\ Send(r, o, p).rotation = o
         /\ Send(r, o, p).at = "sent" /\ Send(r, o, p).pair = p
         /\ Send(r, o, p).cookies = 0
  BY DEF Send, FrameUpTo, At, Status

LEMMA SentAgain ==
  ASSUME NEW n \in Nat, NEW p \in 0..n, NEW r \in BOOLEAN
  PROVE  /\ Send(r, TRUE, p) \in FrameUpTo(n)
         /\ Send(r, TRUE, p).refresh = r /\ Send(r, TRUE, p).rotation
         /\ Send(r, TRUE, p).at = "sent" /\ Send(r, TRUE, p).pair = p
         /\ Send(r, TRUE, p).cookies = 0
  BY DEF Send, FrameUpTo, At, Status

LEMMA RotationBranch ==
  ASSUME TypeInv, NEW t \in Tabs, NEW s, Stack(newest, s), s # <<>>, MayWaitForRotation(t, Top(s))
  PROVE  Stack(newest, TakeRotationBranch(t, s)) /\ GoesOn(TakeRotationBranch(t, s), jar)
  <1>1. newest \in Nat /\ jar \in 0..newest
    BY TypesHere
  <1>2. Len(s) \in Nat \ {0} /\ Top(s) \in FrameUpTo(newest) /\ FrameOk(Top(s), Len(s)) /\ ~Top(s).rotation
    BY <1>1, TopOk DEF MayWaitForRotation
  <1>3. Top(s).refresh \in BOOLEAN
    BY <1>1, <1>2, FrameFields
  <1> DEFINE a == IF pending[t] THEN "rotating" ELSE "again"
             f == RotatedFrame(Top(s), a)
             g == Send(Top(s).refresh, TRUE, jar)
  <1>4. a \in {"rotating", "again"} /\ a \in At
    BY DEF At
  <1>5. /\ f \in FrameUpTo(newest) /\ f.at = a /\ f.refresh = Top(s).refresh /\ f.rotation
        /\ f.status = Top(s).status /\ f.cookies = Top(s).cookies
    <2>1. newest \in Nat /\ Top(s) \in FrameUpTo(newest) /\ a \in At
      BY <1>1, <1>2, <1>4
    <2> HIDE DEF a
    <2> QED
      BY <2>1, FrameRotates
  <1>6. /\ g \in FrameUpTo(newest) /\ g.refresh = Top(s).refresh /\ g.rotation
        /\ g.at = "sent" /\ g.pair = jar /\ g.cookies = 0
    BY <1>1, <1>3, SentAgain
  <1>7. TakeRotationBranch(t, s) = IF pending[t] THEN WithTop(s, f) ELSE Sending(s, f, g)
    <2>1. f.refresh = Top(s).refresh
      BY <1>5
    <2> QED
      BY <2>1 DEF TakeRotationBranch, RotatedFrame
  <1>8. pending[t] => a = "rotating"
    OBVIOUS
  <1> HIDE DEF a, f, g
  <1>9. FrameOk(f, Len(s))
    BY <1>2, <1>4, <1>5 DEF FrameOk, Retries
  <1>10. FrameOk(g, Len(s) + 1)
    BY <1>2, <1>5, <1>6 DEF FrameOk, Retries
  <1>11. CASE pending[t]
    BY <1>1, <1>2, <1>5, <1>7, <1>8, <1>9, <1>11, ReplacedTop DEF GoesOn
  <1>12. CASE ~pending[t]
    BY <1>1, <1>2, <1>5, <1>6, <1>7, <1>9, <1>10, <1>12, PushedTop DEF GoesOn
  <1> QED
    BY <1>11, <1>12

LEMMA LastCatcher ==
  ASSUME NEW n \in Nat, NEW t, NEW s, Stack(n, s), Catchers(t, s) # {}
  PROVE  Max(Catchers(t, s)) \in Catchers(t, s)
  <1> DEFINE C == Catchers(t, s)
  <1>1. Len(s) \in Nat /\ Len(s) <= 3
    BY StacksAreShallow, LenProperties DEF Stack
  <1>2. C \subseteq {1, 2}
    BY <1>1 DEF Catchers
  <1>3. C # {}
    OBVIOUS
  <1> HIDE DEF C
  <1>4. \E x \in C : \A y \in C : x >= y
    <2>1. CASE 2 \in C
      BY <2>1, <1>2
    <2>2. CASE 2 \notin C
      <3>1. 1 \in C /\ \A y \in C : y = 1
        BY <2>2, <1>2, <1>3
      <3> QED
        BY <3>1
    <2> QED
      BY <2>1, <2>2
  <1> QED
    BY <1>4 DEF C, Max

LEMMA UnwoundStack ==
  ASSUME TypeInv, NEW t \in Tabs, NEW s, Stack(newest, s)
  PROVE  \/ Unwound(t, s) = <<>>
         \/ Stack(newest, Unwound(t, s)) /\ GoesOn(Unwound(t, s), jar)
  <1>1. CASE Catchers(t, s) = {}
    BY <1>1 DEF Unwound
  <1>2. CASE Catchers(t, s) # {}
    <2> DEFINE m == Max(Catchers(t, s))
    <2>1. newest \in Nat /\ Len(s) \in Nat
      BY TypesHere, LenProperties DEF Stack
    <2>2. m \in Catchers(t, s)
      BY <1>2, <2>1, LastCatcher
    <2> HIDE DEF m
    <2>3. m \in 1..Len(s) /\ MayWaitForRotation(t, s[m])
      BY <2>1, <2>2 DEF Catchers
    <2>4. /\ Stack(newest, SubSeq(s, 1, m)) /\ SubSeq(s, 1, m) # <<>>
          /\ Top(SubSeq(s, 1, m)) = s[m]
      BY <2>1, <2>3, CutStack
    <2>5. Unwound(t, s) = TakeRotationBranch(t, SubSeq(s, 1, m))
      BY <1>2 DEF Unwound, m
    <2> QED
      BY <2>3, <2>4, <2>5, RotationBranch
  <1> QED
    BY <1>1, <1>2

\* Whoever is woken goes on in the script of the tab.
LEMMA WokenStacks ==
  ASSUME TypeInv, NEW t \in Tabs, NEW k \in Kind, NEW ok \in BOOLEAN
  PROVE  /\ Wake(t, k, ok) \in [Kind -> Seq(FrameUpTo(newest))]
         /\ Wake(t, k, ok)[k] = <<>>
         /\ \A j \in Kind : /\ Nested(Wake(t, k, ok)[j])
                            /\ \/ Wake(t, k, ok)[j] = req[t][j]
                               \/ Wake(t, k, ok)[j] = <<>>
                               \/ /\ req[t][j] # <<>> /\ Top(req[t][j]).at # "answered"
                                  /\ Waits(Wake(t, k, ok)[j])
                            /\ Wake(t, k, ok)[j] # req[t][j] /\ j # k => Top(req[t][j]).at # "answered"
  <1> DEFINE awaited == IF k = "refresh" THEN "refreshing" ELSE "rotating"
             then    == IF k # "refresh" THEN "rotated" ELSE IF ok THEN "refreshed" ELSE "failed"
             w(j) == WithTop(req[t][j], [Top(req[t][j]) EXCEPT !.at = then])
  <1>1. newest \in Nat /\ \A j \in Kind : Stack(newest, req[t][j])
    BY TypesHere
  <1>2. then \in At /\ then \notin {"sent", "answered"}
    BY DEF At
  <1>3. ASSUME NEW j \in Kind, ~Idle(t, j), Top(req[t][j]).at = awaited
        PROVE  Stack(newest, w(j)) /\ Waits(w(j))
    <2> DEFINE f == [Top(req[t][j]) EXCEPT !.at = then]
    <2>1. req[t][j] # <<>> /\ Stack(newest, req[t][j])
      BY <1>1, <1>3 DEF Idle
    <2>2. Top(req[t][j]) \in FrameUpTo(newest) /\ FrameOk(Top(req[t][j]), Len(req[t][j]))
      BY <1>1, <2>1, TopOk
    <2>3. /\ awaited = "refreshing" => then \in {"refreshed", "failed"}
          /\ awaited = "rotating" => then = "rotated"
          /\ awaited \in {"refreshing", "rotating"}
      OBVIOUS
    <2> HIDE DEF then, awaited
    <2>4. /\ f \in FrameUpTo(newest) /\ f.at = then /\ f.refresh = Top(req[t][j]).refresh
          /\ f.rotation = Top(req[t][j]).rotation /\ f.status = Top(req[t][j]).status
          /\ f.cookies = Top(req[t][j]).cookies
      BY <1>1, <1>2, <2>2, FrameMoves
    <2> HIDE DEF f
    <2>5. FrameOk(f, Len(req[t][j]))
      BY <1>3, <2>2, <2>3, <2>4 DEF FrameOk, Retries
    <2>6. /\ Stack(newest, WithTop(req[t][j], f)) /\ WithTop(req[t][j], f) # <<>>
          /\ Top(WithTop(req[t][j], f)) = f
      BY <1>1, <2>1, <2>4, <2>5, ReplacedTop
    <2> QED
      BY <1>2, <2>4, <2>6 DEF Waits, f
  <1>4. Wake(t, k, ok) = [j \in Kind |->
            IF j = k THEN <<>>
            ELSE IF k # "call" /\ ~Idle(t, j) /\ Top(req[t][j]).at = awaited
            THEN w(j) ELSE req[t][j]]
    BY DEF Wake
  <1>5. <<>> \in Seq(FrameUpTo(newest)) /\ Nested(<<>>)
    BY EmptySeq DEF Nested
  <1> HIDE DEF w, awaited
  <1>6. ASSUME NEW j \in Kind
        PROVE  /\ Stack(newest, Wake(t, k, ok)[j])
               /\ \/ Wake(t, k, ok)[j] = req[t][j]
                  \/ Wake(t, k, ok)[j] = <<>>
                  \/ /\ req[t][j] # <<>> /\ Top(req[t][j]).at # "answered"
                     /\ Waits(Wake(t, k, ok)[j])
               /\ Wake(t, k, ok)[j] # req[t][j] /\ j # k => Top(req[t][j]).at # "answered"
    <2>1. awaited # "answered"
      BY DEF awaited
    <2>2. CASE j = k
      BY <2>2, <1>4, <1>5 DEF Stack
    <2>3. CASE j # k /\ k # "call" /\ ~Idle(t, j) /\ Top(req[t][j]).at = awaited
      BY <2>1, <2>3, <1>3, <1>4 DEF Idle
    <2>4. CASE j # k /\ ~(k # "call" /\ ~Idle(t, j) /\ Top(req[t][j]).at = awaited)
      BY <2>4, <1>1, <1>4
    <2> QED
      BY <2>2, <2>3, <2>4
  <1>7. DOMAIN Wake(t, k, ok) = Kind /\ Wake(t, k, ok)[k] = <<>> /\ Wake(t, k, ok) = [j \in Kind |-> Wake(t, k, ok)[j]]
    BY <1>4
  <1> QED
    BY <1>6, <1>7 DEF Stack

-----------------------------------------------------------------------------
(* Steps that issue no pair *)

Refused(s) ==
    /\ s # <<>> /\ Top(s).at = "answered"
    /\ Top(s).cookies = 0 /\ Top(s).status # "ok"

\* If the top of s is an answer, its cookies are none or c.
Handled(s, c) == s # <<>> /\ Top(s).at = "answered" => Top(s).cookies \in {0, c}

\* How a stack moves where the jar is c afterwards.
Moves(s, z, c) ==
    \/ z = s
    \/ Handled(s, c) /\ (z = <<>> \/ GoesOn(z, c) \/ Refused(z))

CalmStep == \A t \in Tabs, k \in Kind : Moves(req[t][k], req'[t][k], jar')

NoNewRefresh == \A t \in Tabs : req'[t]["refresh"] # <<>> => req[t]["refresh"] # <<>>

Calm == StacksInv' /\ CalmStep /\ NoNewRefresh

LEMMA QuietStacks ==
  ASSUME TypeInv, UNCHANGED <<req, newest>>
  PROVE  Calm
  BY DEF TypeInv, StacksInv, Calm, CalmStep, NoNewRefresh, Moves

LEMMA BecomesStack ==
  ASSUME TypeInv, NEW t \in Tabs, NEW k \in Kind, NEW s, Becomes(t, k, s),
         newest' = newest, Stack(newest, s)
  PROVE  /\ StacksInv' /\ req'[t][k] = s
         /\ \A u \in Tabs, j \in Kind : u # t \/ j # k => req'[u][j] = req[u][j]
  BY DEF TypeInv, StacksInv, Stack, Becomes

LEMMA BecomesCalm ==
  ASSUME TypeInv, NEW t \in Tabs, NEW k \in Kind, NEW s, Becomes(t, k, s),
         newest' = newest, Stack(newest, s), GoesOn(s, jar') \/ Refused(s) \/ s = <<>>,
         Handled(req[t][k], jar'), req[t][k] # <<>> \/ k # "refresh"
  PROVE  Calm
  <1>1. /\ StacksInv' /\ req'[t][k] = s
        /\ \A u \in Tabs, j \in Kind : u # t \/ j # k => req'[u][j] = req[u][j]
    BY BecomesStack
  <1>2. CalmStep
    BY <1>1 DEF CalmStep, Moves
  <1>3. NoNewRefresh
    BY <1>1 DEF NoNewRefresh, Kind
  <1> QED
    BY <1>1, <1>2, <1>3 DEF Calm

LEMMA WakesCalm ==
  ASSUME TypeInv, NEW t \in Tabs, NEW k \in Kind, NEW ok \in BOOLEAN,
         req' = [req EXCEPT ![t] = Wake(t, k, ok)], newest' = newest, Handled(req[t][k], jar')
  PROVE  Calm
  <1> DEFINE w == Wake(t, k, ok)
  <1>1. /\ w \in [Kind -> Seq(FrameUpTo(newest))] /\ w[k] = <<>>
        /\ \A j \in Kind : /\ Nested(w[j])
                           /\ \/ w[j] = req[t][j]
                              \/ w[j] = <<>>
                              \/ /\ req[t][j] # <<>> /\ Top(req[t][j]).at # "answered"
                                 /\ Waits(w[j])
                           /\ w[j] # req[t][j] /\ j # k => Top(req[t][j]).at # "answered"
    BY WokenStacks
  <1>2. req' = [req EXCEPT ![t] = w] /\ req \in [Tabs -> [Kind -> Seq(FrameUpTo(newest))]]
    BY DEF TypeInv, StacksInv
  <1> HIDE DEF w
  <1>3. req'[t] = w /\ \A u \in Tabs \ {t} : req'[u] = req[u]
    BY <1>2
  <1>4. StacksInv'
    BY <1>1, <1>2, <1>3 DEF TypeInv, StacksInv
  <1>5. CalmStep
    <2> SUFFICES ASSUME NEW u \in Tabs, NEW j \in Kind PROVE Moves(req[u][j], req'[u][j], jar')
      BY DEF CalmStep
    <2>1. CASE u # t
      BY <2>1, <1>3 DEF Moves
    <2>2. CASE u = t /\ j = k
      BY <2>2, <1>1, <1>3 DEF Moves
    <2>3. CASE u = t /\ j # k
      BY <2>3, <1>1, <1>3 DEF Moves, Handled, Waits, GoesOn
    <2> QED
      BY <2>1, <2>2, <2>3
  <1>6. NoNewRefresh
    BY <1>1, <1>3 DEF NoNewRefresh, Kind
  <1> QED
    BY <1>4, <1>5, <1>6 DEF Calm

LEMMA SettlesCalm ==
  ASSUME TypeInv, NEW t \in Tabs, NEW k \in Kind, NEW ok \in BOOLEAN, NEW s,
         Settle(t, k, s, ok), newest' = newest, Handled(req[t][k], jar'), req[t][k] # <<>>,
         s = <<>> \/ (Stack(newest, s) /\ GoesOn(s, jar'))
  PROVE  Calm
  <1>1. CASE s = <<>>
    BY <1>1, WakesCalm DEF Settle
  <1>2. CASE s # <<>>
    BY <1>2, BecomesCalm DEF Settle
  <1> QED
    BY <1>1, <1>2

-----------------------------------------------------------------------------
(* The requests of a tab *)

LEMMA TopHere ==
  ASSUME TypeInv, NEW t \in Tabs, NEW k \in Kind, ~Idle(t, k)
  PROVE  /\ newest \in Nat \ {0} /\ jar \in 0..newest
         /\ Stack(newest, req[t][k]) /\ req[t][k] # <<>>
         /\ Len(req[t][k]) \in Nat \ {0}
         /\ Top(req[t][k]) \in FrameUpTo(newest) /\ FrameOk(Top(req[t][k]), Len(req[t][k]))
         /\ Top(req[t][k]).refresh \in BOOLEAN /\ Top(req[t][k]).rotation \in BOOLEAN
         /\ Top(req[t][k]).pair \in 0..newest /\ Top(req[t][k]).cookies \in 0..newest
  BY TypesHere, TopOk, FrameFields DEF Idle

LEMMA EmptyStack ==
  ASSUME NEW n
  PROVE  Stack(n, <<>>)
  BY EmptySeq DEF Stack, Nested

LEMMA IssueCalm ==
  ASSUME TypeInv, NEW t \in Tabs, NEW k \in Kind, Issue(t, k)
  PROVE  Calm
  <1> DEFINE f == Send(FALSE, FALSE, jar)
             s == <<f>>
  <1>1. /\ newest \in Nat /\ jar \in 0..newest /\ jar' = jar /\ newest' = newest
        /\ Becomes(t, k, s) /\ k # "refresh" /\ req[t][k] = <<>>
    BY TypesHere DEF Issue, server, Idle
  <1>2. f \in FrameUpTo(newest) /\ f.at = "sent" /\ f.pair = jar /\ f.cookies = 0
    BY <1>1 DEF Send, FrameUpTo, At, Status
  <1> HIDE DEF f
  <1>3. s \in Seq(FrameUpTo(newest)) /\ Len(s) = 1 /\ s[1] = f /\ s # <<>>
    BY <1>2
  <1>4. FrameOk(f, 1)
    <2>1. Retries(f) \in Nat
      BY DEF Retries
    <2> QED
      BY <1>2, <2>1 DEF FrameOk
  <1> HIDE DEF s
  <1>5. Stack(newest, s) /\ GoesOn(s, jar')
    BY <1>1, <1>2, <1>3, <1>4 DEF Stack, Nested, GoesOn, Top
  <1> QED
    BY <1>1, <1>5, BecomesCalm DEF Handled

\* An answer takes the place of the request that was sent.
LEMMA AnsweredStack ==
  ASSUME TypeInv, NEW t \in Tabs, NEW k \in Kind, ~Idle(t, k), NEW n \in Nat, newest <= n,
         NEW st \in Status, NEW c \in 0..n, st # "ok" => c = 0, Answer(t, k, st, c)
  PROVE  \E s : /\ Becomes(t, k, s) /\ Stack(n, s) /\ s # <<>> /\ Len(s) = Len(req[t][k])
                /\ Top(s).at = "answered" /\ Top(s).cookies = c /\ Top(s).status = st
                /\ Top(s).refresh = Top(req[t][k]).refresh
                /\ Top(s).rotation = Top(req[t][k]).rotation /\ Top(s).pair = Top(req[t][k]).pair
  <1> DEFINE f == AnsweredFrame(Top(req[t][k]), st, c)
             s == WithTop(req[t][k], f)
  <1>1. /\ newest \in Nat /\ Stack(n, req[t][k]) /\ req[t][k] # <<>>
        /\ Top(req[t][k]) \in FrameUpTo(n) /\ FrameOk(Top(req[t][k]), Len(req[t][k]))
    BY TopHere, FramesGrow
  <1>2. /\ f \in FrameUpTo(n) /\ f.at = "answered" /\ f.refresh = Top(req[t][k]).refresh
        /\ f.rotation = Top(req[t][k]).rotation /\ f.status = st /\ f.cookies = c
        /\ f.pair = Top(req[t][k]).pair
    BY <1>1, FrameAnswered
  <1>3. Becomes(t, k, s)
    BY DEF Answer, AnsweredFrame
  <1> HIDE DEF f
  <1>4. FrameOk(f, Len(req[t][k]))
    BY <1>1, <1>2 DEF FrameOk, Retries
  <1>5. Stack(n, s) /\ s # <<>> /\ Top(s) = f
    BY <1>1, <1>2, <1>4, ReplacedTop
  <1>6. Len(s) = Len(req[t][k])
    BY <1>1, <1>2, WithTopFacts DEF Stack
  <1> HIDE DEF s
  <1> QED
    BY <1>2, <1>3, <1>5, <1>6

LEMMA NoAnswerCalm ==
  ASSUME TypeInv, NEW t \in Tabs, NEW k \in Kind, ~Idle(t, k), NEW st \in {"error", "unauthorized"},
         Answer(t, k, st, 0), Handled(req[t][k], jar'), newest' = newest
  PROVE  Calm
  <1>1. newest \in Nat /\ newest <= newest /\ 0 \in 0..newest /\ st \in Status /\ st # "ok"
    BY TopHere DEF Status
  <1>2. PICK s : /\ Becomes(t, k, s) /\ Stack(newest, s) /\ s # <<>>
                 /\ Top(s).at = "answered" /\ Top(s).cookies = 0 /\ Top(s).status = st
    BY <1>1, AnsweredStack
  <1> QED
    BY <1>1, <1>2, BecomesCalm DEF Refused, Idle

LEMMA ServerAnswersCallCalm ==
  ASSUME TypeInv, NEW t \in Tabs, NEW k \in Kind, ServerAnswersCall(t, k)
  PROVE  Calm
  <1>1. ~Idle(t, k) /\ Handled(req[t][k], jar') /\ newest' = newest
    BY DEF ServerAnswersCall, Sent, server, Handled
  <1>2. CASE Answer(t, k, "error", 0)
    BY <1>1, <1>2, NoAnswerCalm
  <1>3. CASE Answer(t, k, "unauthorized", 0)
    BY <1>1, <1>3, NoAnswerCalm
  <1>4. CASE Becomes(t, k, <<>>)
    BY <1>1, <1>4, EmptyStack, BecomesCalm DEF Idle
  <1> QED
    BY <1>2, <1>3, <1>4 DEF ServerAnswersCall

LEMMA RetryAfterRefreshCalm ==
  ASSUME TypeInv, NEW t \in Tabs, NEW k \in Kind, RetryAfterRefresh(t, k)
  PROVE  Calm
  <1> DEFINE o == req[t][k]
             f == [Top(o) EXCEPT !.at = "retrying", !.refresh = TRUE]
             g == Send(TRUE, Top(o).rotation, jar)
             s == Sending(o, f, g)
  <1>1. /\ ~Idle(t, k) /\ Top(o).at = "refreshed" /\ Becomes(t, k, s)
        /\ newest' = newest /\ jar' = jar
    BY DEF RetryAfterRefresh, server
  <1>2. /\ newest \in Nat /\ jar \in 0..newest /\ Stack(newest, o) /\ o # <<>> /\ Len(o) \in Nat
        /\ Top(o) \in FrameUpTo(newest) /\ FrameOk(Top(o), Len(o))
        /\ Top(o).rotation \in BOOLEAN
    BY <1>1, TopHere
  <1>3. /\ f \in FrameUpTo(newest) /\ f.at = "retrying" /\ f.refresh /\ f.rotation = Top(o).rotation
        /\ f.status = Top(o).status /\ f.cookies = Top(o).cookies
    BY <1>2, FrameRetries
  <1>4. /\ g \in FrameUpTo(newest) /\ g.refresh /\ g.rotation = Top(o).rotation
        /\ g.at = "sent" /\ g.pair = jar /\ g.cookies = 0
    BY <1>2 DEF Send, FrameUpTo, At, Status
  <1>5. FrameOk(f, Len(o))
    <2> HIDE DEF f, g, s, o
    <2> QED
      BY <1>1, <1>2, <1>3 DEF FrameOk, Retries
  <1>6. FrameOk(g, Len(o) + 1)
    <2> HIDE DEF f, g, s, o
    <2> QED
      BY <1>1, <1>2, <1>4 DEF FrameOk, Retries
  <1>7. Stack(newest, s) /\ s # <<>> /\ Top(s) = g
    <2> HIDE DEF f, g, o
    <2> QED
      BY <1>2, <1>3, <1>4, <1>5, <1>6, PushedTop
  <1>8. GoesOn(s, jar')
    BY <1>1, <1>4, <1>7 DEF GoesOn
  <1>9. Handled(o, jar')
    BY <1>1 DEF Handled
  <1> HIDE DEF s
  <1> QED
    BY <1>1, <1>2, <1>7, <1>8, <1>9, BecomesCalm

LEMMA RetryAfterRotationCalm ==
  ASSUME TypeInv, NEW t \in Tabs, NEW k \in Kind, RetryAfterRotation(t, k)
  PROVE  Calm
  <1> DEFINE o == req[t][k]
             f == [Top(o) EXCEPT !.at = "again"]
             g == Send(Top(o).refresh, TRUE, jar)
             s == Sending(o, f, g)
  <1>1. /\ ~Idle(t, k) /\ Top(o).at = "rotated" /\ Becomes(t, k, s)
        /\ newest' = newest /\ jar' = jar
    BY DEF RetryAfterRotation, server
  <1>2. /\ newest \in Nat /\ jar \in 0..newest /\ Stack(newest, o) /\ o # <<>> /\ Len(o) \in Nat
        /\ Top(o) \in FrameUpTo(newest) /\ FrameOk(Top(o), Len(o))
        /\ Top(o).refresh \in BOOLEAN
    BY <1>1, TopHere
  <1>3. /\ f \in FrameUpTo(newest) /\ f.at = "again" /\ f.refresh = Top(o).refresh
        /\ f.rotation = Top(o).rotation /\ f.status = Top(o).status /\ f.cookies = Top(o).cookies
    <2>1. "again" \in At
      BY DEF At
    <2> HIDE DEF o
    <2> QED
      BY <1>2, <2>1, FrameMoves
  <1>4. /\ g \in FrameUpTo(newest) /\ g.refresh = Top(o).refresh /\ g.rotation
        /\ g.at = "sent" /\ g.pair = jar /\ g.cookies = 0
    BY <1>2, SentAgain
  <1>5. FrameOk(f, Len(o))
    <2> HIDE DEF f, g, s, o
    <2> QED
      BY <1>1, <1>2, <1>3 DEF FrameOk, Retries
  <1>6. FrameOk(g, Len(o) + 1)
    <2> HIDE DEF f, g, s, o
    <2> QED
      BY <1>1, <1>2, <1>4 DEF FrameOk, Retries
  <1>7. Stack(newest, s) /\ s # <<>> /\ Top(s) = g
    <2> HIDE DEF f, g, o
    <2> QED
      BY <1>2, <1>3, <1>4, <1>5, <1>6, PushedTop
  <1>8. GoesOn(s, jar')
    BY <1>1, <1>4, <1>7 DEF GoesOn
  <1>9. Handled(o, jar')
    BY <1>1 DEF Handled
  <1> HIDE DEF s
  <1> QED
    BY <1>1, <1>2, <1>7, <1>8, <1>9, BecomesCalm

LEMMA RefreshFailedCalm ==
  ASSUME TypeInv, NEW t \in Tabs, NEW k \in Kind, RefreshFailed(t, k)
  PROVE  Calm
  <1> DEFINE o == req[t][k]
  <1>1. ~Idle(t, k) /\ Top(o).at = "failed" /\ newest' = newest /\ jar' = jar
    BY DEF RefreshFailed, server
  <1>2. Stack(newest, o) /\ o # <<>>
    BY <1>1, TopHere
  <1>3. Handled(o, jar')
    BY <1>1 DEF Handled
  <1>4. CASE MayWaitForRotation(t, Top(o))
    <2>1. Becomes(t, k, TakeRotationBranch(t, o))
      BY <1>4 DEF RefreshFailed
    <2>2. Stack(newest, TakeRotationBranch(t, o)) /\ GoesOn(TakeRotationBranch(t, o), jar')
      BY <1>1, <1>2, <1>4, RotationBranch
    <2> HIDE DEF o
    <2> QED
      BY <1>1, <1>2, <1>3, <2>1, <2>2, BecomesCalm DEF o
  <1>5. CASE ~MayWaitForRotation(t, Top(o))
    <2>1. Settle(t, k, Unwound(t, o), FALSE)
      BY <1>5 DEF RefreshFailed
    <2>2. \/ Unwound(t, o) = <<>>
          \/ Stack(newest, Unwound(t, o)) /\ GoesOn(Unwound(t, o), jar')
      BY <1>1, <1>2, UnwoundStack
    <2> QED
      BY <1>1, <1>2, <1>3, <2>1, <2>2, SettlesCalm
  <1> QED
    BY <1>4, <1>5

LEMMA ReceiveCalm ==
  ASSUME TypeInv, NEW t \in Tabs, NEW k \in Kind, Receive(t, k)
  PROVE  Calm
  <1> DEFINE o == req[t][k]
             f == Top(o)
             denied == f.status = "unauthorized"
             starts == denied /\ isEligibleForRefresh(k) /\ ~f.refresh
             waits  == denied /\ ~starts /\ MayWaitForRotation(t, f)
  <1>1. /\ ~Idle(t, k) /\ f.at = "answered" /\ newest' = newest
        /\ jar' = IF f.cookies = 0 THEN jar ELSE f.cookies
    BY DEF Receive, server
  <1>2. /\ newest \in Nat /\ jar \in 0..newest /\ Stack(newest, o) /\ o # <<>> /\ Len(o) \in Nat
        /\ f \in FrameUpTo(newest) /\ FrameOk(f, Len(o))
    BY <1>1, TopHere
  <1>3. Handled(o, jar')
    BY <1>1 DEF Handled
  <1>4. f.status # "ok" => jar' = jar
    BY <1>1, <1>2 DEF FrameOk
  <1>5. CASE starts
    <2> DEFINE g == [f EXCEPT !.at = "refreshing"]
               s == WithTop(o, g)
    <2>1. Becomes(t, k, s)
      BY <1>5 DEF Receive
    <2>2. /\ g \in FrameUpTo(newest) /\ g.at = "refreshing" /\ g.refresh = f.refresh
          /\ g.rotation = f.rotation /\ g.status = f.status /\ g.cookies = f.cookies
      <3>1. "refreshing" \in At
        BY DEF At
      <3> HIDE DEF f
      <3> QED
        BY <1>2, <3>1, FrameMoves
    <2>3. ~f.refresh
      BY <1>5
    <2>4. FrameOk(g, Len(o))
      <3> HIDE DEF g, s, o, f
      <3> QED
        BY <1>2, <2>2, <2>3 DEF FrameOk, Retries
    <2>5. Stack(newest, s) /\ s # <<>> /\ Top(s) = g
      <3> HIDE DEF g, o, f
      <3> QED
        BY <1>2, <2>2, <2>4, ReplacedTop
    <2>6. GoesOn(s, jar')
      BY <2>2, <2>5 DEF GoesOn
    <2> HIDE DEF s
    <2> QED
      BY <1>1, <1>2, <1>3, <2>1, <2>5, <2>6, BecomesCalm
  <1>6. CASE waits
    <2>1. Becomes(t, k, TakeRotationBranch(t, o))
      BY <1>6 DEF Receive
    <2>2. Stack(newest, TakeRotationBranch(t, o)) /\ GoesOn(TakeRotationBranch(t, o), jar')
      BY <1>2, <1>4, <1>6, RotationBranch
    <2> QED
      BY <1>1, <1>2, <1>3, <2>1, <2>2, BecomesCalm
  <1>7. CASE ~starts /\ ~waits /\ f.status = "ok"
    <2>1. Settle(t, k, <<>>, TRUE)
      BY <1>7 DEF Receive
    <2> QED
      BY <1>1, <1>2, <1>3, <2>1, SettlesCalm
  <1>8. CASE ~starts /\ ~waits /\ f.status # "ok"
    <2>1. Settle(t, k, Unwound(t, o), FALSE)
      BY <1>8 DEF Receive
    <2>2. \/ Unwound(t, o) = <<>>
          \/ Stack(newest, Unwound(t, o)) /\ GoesOn(Unwound(t, o), jar')
      BY <1>2, <1>4, <1>8, UnwoundStack
    <2> QED
      BY <1>1, <1>2, <1>3, <2>1, <2>2, SettlesCalm
  <1> QED
    BY <1>5, <1>6, <1>7, <1>8

-----------------------------------------------------------------------------
(* The refresh that the tabs share, and the end of a tab *)

LEMMA WakesStacks ==
  ASSUME TypeInv, NEW t \in Tabs, NEW k \in Kind, NEW ok \in BOOLEAN,
         req' = [req EXCEPT ![t] = Wake(t, k, ok)], newest' = newest
  PROVE  StacksInv'
  <1> DEFINE w == Wake(t, k, ok)
  <1>1. w \in [Kind -> Seq(FrameUpTo(newest))] /\ \A j \in Kind : Nested(w[j])
    BY WokenStacks
  <1>2. req' = [req EXCEPT ![t] = w] /\ req \in [Tabs -> [Kind -> Seq(FrameUpTo(newest))]]
    BY DEF TypeInv, StacksInv
  <1> HIDE DEF w
  <1>3. req'[t] = w /\ \A u \in Tabs \ {t} : req'[u] = req[u]
    BY <1>2
  <1> QED
    BY <1>1, <1>2, <1>3 DEF TypeInv, StacksInv

LEMMA StartsStacks ==
  ASSUME TypeInv, NEW t \in Tabs, StartRequest(t), newest' = newest, jar' = jar
  PROVE  /\ StacksInv' /\ GoesOn(req'[t]["refresh"], jar')
         /\ \A u \in Tabs, j \in Kind : u # t \/ j # "refresh" => req'[u][j] = req[u][j]
  <1> DEFINE f == Send(FALSE, FALSE, jar)
             s == <<f>>
  <1>1. /\ newest \in Nat /\ jar \in 0..newest
        /\ Becomes(t, "refresh", s) /\ "refresh" \in Kind
    BY TypesHere DEF StartRequest, Kind
  <1>2. f \in FrameUpTo(newest) /\ f.at = "sent" /\ f.pair = jar /\ f.cookies = 0
    BY <1>1 DEF Send, FrameUpTo, At, Status
  <1> HIDE DEF f
  <1>3. s \in Seq(FrameUpTo(newest)) /\ Len(s) = 1 /\ s[1] = f /\ s # <<>>
    BY <1>2
  <1>4. FrameOk(f, 1)
    <2>1. Retries(f) \in Nat
      BY DEF Retries
    <2> QED
      BY <1>2, <2>1 DEF FrameOk
  <1> HIDE DEF s
  <1>5. Stack(newest, s) /\ GoesOn(s, jar')
    BY <1>1, <1>2, <1>3, <1>4 DEF Stack, Nested, GoesOn, Top
  <1>6. /\ StacksInv' /\ req'[t]["refresh"] = s
        /\ \A u \in Tabs, j \in Kind : u # t \/ j # "refresh" => req'[u][j] = req[u][j]
    BY <1>1, <1>5, BecomesStack
  <1> QED
    BY <1>5, <1>6

LEMMA DiesStacks ==
  ASSUME TypeInv, NEW t \in Tabs, TabDies(t)
  PROVE  StacksInv' /\ NoNewRefresh
  <1> DEFINE e == [k \in Kind |-> <<>>]
  <1>1. e \in [Kind -> Seq(FrameUpTo(newest))] /\ \A k \in Kind : e[k] = <<>> /\ Nested(e[k])
    BY EmptySeq DEF Nested
  <1>2. /\ req' = [req EXCEPT ![t] = e] /\ newest' = newest
        /\ req \in [Tabs -> [Kind -> Seq(FrameUpTo(newest))]]
    BY DEF TabDies, TypeInv, StacksInv, server
  <1> HIDE DEF e
  <1>3. req'[t] = e /\ \A u \in Tabs \ {t} : req'[u] = req[u]
    BY <1>2
  <1> QED
    BY <1>1, <1>2, <1>3 DEF TypeInv, StacksInv, NoNewRefresh, Kind

\* The server answers with a new pair, the newest.
LEMMA IssuesStacks ==
  ASSUME TypeInv, NEW t \in Tabs, NEW k \in Kind, ~Idle(t, k), newest' = newest + 1,
         Answer(t, k, "ok", newest + 1)
  PROVE  /\ StacksInv'
         /\ req'[t][k] # <<>> /\ Top(req'[t][k]).at = "answered" /\ Top(req'[t][k]).cookies = newest'
         /\ \A u \in Tabs, j \in Kind : u # t \/ j # k => req'[u][j] = req[u][j]
  <1> DEFINE n == newest + 1
  <1>1. newest \in Nat /\ n \in Nat /\ newest <= n /\ n \in 0..n /\ "ok" \in Status
    BY TypesHere DEF Status
  <1>2. Answer(t, k, "ok", n) /\ newest' = n
    OBVIOUS
  <1> HIDE DEF n
  <1>3. PICK s : /\ Becomes(t, k, s) /\ Stack(n, s) /\ s # <<>>
                 /\ Top(s).at = "answered" /\ Top(s).cookies = n
    BY <1>1, <1>2, AnsweredStack
  <1>4. req \in [Tabs -> [Kind -> Seq(FrameUpTo(n))]]
    <2>1. \A u \in Tabs, j \in Kind : Stack(n, req[u][j])
      BY <1>1, TypesHere, FramesGrow
    <2> QED
      BY <2>1 DEF TypeInv, StacksInv, Stack
  <1>5. /\ req' \in [Tabs -> [Kind -> Seq(FrameUpTo(n))]] /\ req'[t][k] = s
        /\ \A u \in Tabs, j \in Kind : u # t \/ j # k => req'[u][j] = req[u][j]
    BY <1>2, <1>3, <1>4 DEF Becomes, Stack
  <1>6. \A u \in Tabs, j \in Kind : Nested(req'[u][j])
    <2> SUFFICES ASSUME NEW u \in Tabs, NEW j \in Kind PROVE Nested(req'[u][j])
      OBVIOUS
    <2>1. CASE u = t /\ j = k
      BY <2>1, <1>3, <1>5 DEF Stack
    <2>2. CASE u # t \/ j # k
      BY <2>2, <1>5 DEF TypeInv, StacksInv
    <2> QED
      BY <2>1, <2>2
  <1> QED
    BY <1>2, <1>3, <1>5, <1>6 DEF StacksInv

-----------------------------------------------------------------------------
(* Types *)

LEMMA StacksFit ==
  ASSUME StacksInv', newest' \in 0..MaxPairs
  PROVE  StacksOK'
  <1> DEFINE n == newest'
             q == req'
  <1>1. n \in Nat /\ MaxPairs \in Nat /\ n <= MaxPairs
    BY BoundAssumption
  <1>2. \A t \in Tabs, k \in Kind : Stack(n, q[t][k])
    BY DEF StacksInv, Stack
  <1>3. StacksOK' <=> \A t \in Tabs, k \in Kind :
                        /\ Len(q[t][k]) <= 3
                        /\ \A i \in 1..Len(q[t][k]) : q[t][k][i] \in Frame
    BY DEF StacksOK
  <1>4. FrameUpTo(MaxPairs) = Frame
    BY DEF FrameUpTo, Frame
  <1> HIDE DEF n, q
  <1>5. ASSUME NEW t \in Tabs, NEW k \in Kind
        PROVE  Len(q[t][k]) <= 3 /\ \A i \in 1..Len(q[t][k]) : q[t][k][i] \in Frame
    <2>1. Stack(MaxPairs, q[t][k])
      BY <1>1, <1>2, FramesGrow
    <2>2. Len(q[t][k]) <= 3
      BY <2>1, <1>1, StacksAreShallow
    <2>3. q[t][k] \in Seq(Frame)
      BY <2>1, <1>4 DEF Stack
    <2> QED
      BY <2>2, <2>3, ElementOfSeq
  <1> QED
    BY <1>3, <1>5

LEMMA InitTypeInv == Init => TypeInv
  <1> SUFFICES ASSUME Init PROVE TypeInv
    OBVIOUS
  <1>1. /\ req = [t \in Tabs |-> [k \in Kind |-> <<>>]] /\ newest = 1
    BY DEF Init
  <1>2. <<>> \in Seq(FrameUpTo(newest)) /\ Nested(<<>>)
    BY EmptySeq DEF Nested
  <1>3. StacksInv
    BY <1>1, <1>2 DEF StacksInv
  <1>4. StacksOK
    BY <1>1 DEF StacksOK
  <1>5. 1 \in 1..MaxPairs /\ 0 \in 0..MaxFaults
    BY BoundAssumption
  <1>6. TypeOK
    <2>1. /\ locks \in BOOLEAN /\ alive \in BOOLEAN /\ replayed \in BOOLEAN
          /\ newest \in 1..MaxPairs /\ jar \in 1..newest
          /\ minPair \in 1..newest /\ stale \in 0..newest
      <3>1. locks \in BOOLEAN /\ alive \in BOOLEAN /\ replayed \in BOOLEAN
        BY Zenon DEF Init
      <3>2. newest = 1 /\ jar = 1 /\ minPair = 1 /\ stale = 0
        BY DEF Init
      <3> QED
        BY <3>1, <3>2, <1>5
    <2>2. /\ phase \in [Tabs -> Phase] /\ before \in [Tabs -> Nat]
          /\ pending \in [Tabs -> BOOLEAN] /\ recent \in [Tabs -> BOOLEAN]
          /\ signedIn \in [Tabs -> BOOLEAN] /\ refused \in [Tabs -> BOOLEAN]
      BY DEF Init, Phase
    <2>3. /\ holder \in Tabs \cup {NoTab}
          /\ lease \in [owner: Tabs \cup {NoTab}, live: BOOLEAN]
          /\ result \in [epoch: Nat, success: BOOLEAN]
      BY DEF Init
    <2>4. open \subseteq Tabs /\ faults \in 0..MaxFaults /\ changed \subseteq Tabs
      BY <1>5, TabAssumption DEF Init
    <2> QED
      BY <1>4, <2>1, <2>2, <2>3, <2>4 DEF TypeOK
  <1> QED
    BY <1>2, <1>3, <1>6 DEF TypeInv

\* What a settled request leaves behind.
LEMMA SettleTypes ==
  ASSUME TypeOK, NEW t \in Tabs, NEW k \in Kind, NEW ok \in BOOLEAN, NEW s, Settle(t, k, s, ok)
  PROVE  /\ phase' \in [Tabs -> Phase] /\ before' \in [Tabs -> Nat]
         /\ holder' \in Tabs \cup {NoTab}
         /\ lease' \in [owner: Tabs \cup {NoTab}, live: BOOLEAN]
         /\ result' \in [epoch: Nat, success: BOOLEAN]
         /\ pending' \in [Tabs -> BOOLEAN] /\ recent' \in [Tabs -> BOOLEAN]
  <1>1. /\ phase' \in [Tabs -> Phase] /\ before' \in [Tabs -> Nat]
        /\ holder' \in Tabs \cup {NoTab}
        /\ lease' \in [owner: Tabs \cup {NoTab}, live: BOOLEAN]
        /\ result' \in [epoch: Nat, success: BOOLEAN]
    <2>1. CASE s = <<>> /\ k = "refresh"
      <3>1. SettleRefresh(t, publishRotationResult(ok))
        BY <2>1 DEF Settle
      <3>2. publishRotationResult(ok) \in [epoch: Nat, success: BOOLEAN]
        BY DEF publishRotationResult, TypeOK
      <3>3. releaseLease(t) \in [owner: Tabs \cup {NoTab}, live: BOOLEAN]
        BY DEF releaseLease, TypeOK
      <3> QED
        BY <3>1, <3>2, <3>3 DEF SettleRefresh, TypeOK, Phase
    <2>2. CASE ~(s = <<>> /\ k = "refresh")
      BY <2>2 DEF Settle, TypeOK, storage
    <2> QED
      BY <2>1, <2>2
  <1>2. pending' \in [Tabs -> BOOLEAN] /\ recent' \in [Tabs -> BOOLEAN]
    BY DEF Settle, TypeOK, SettleChange, guard
  <1> QED
    BY <1>1, <1>2

LEMMA RotatedTypes ==
  ASSUME TypeOK, NEW t \in Tabs, alreadyRotatedResponse(t)
  PROVE  /\ phase' \in [Tabs -> Phase] /\ before' \in [Tabs -> Nat]
         /\ holder' \in Tabs \cup {NoTab}
         /\ lease' \in [owner: Tabs \cup {NoTab}, live: BOOLEAN]
         /\ result' = result
         /\ req' = [req EXCEPT ![t] = Wake(t, "refresh", TRUE)]
  BY DEF alreadyRotatedResponse, TypeOK, SettleRefresh, releaseLease, Phase

LEMMA CallTypes ==
  ASSUME TypeInv, NEW t \in Tabs, NEW k \in Kind, StacksOK',
         Issue(t, k) \/ ServerAnswersCall(t, k) \/ RetryAfterRefresh(t, k) \/ RetryAfterRotation(t, k)
  PROVE  TypeOK'
  <1>1. CASE Issue(t, k)
    BY <1>1 DEF TypeInv, TypeOK, Issue, server, storage
  <1>2. CASE ServerAnswersCall(t, k)
    BY <1>2 DEF TypeInv, TypeOK, ServerAnswersCall, server, storage, guard
  <1>3. CASE RetryAfterRefresh(t, k)
    BY <1>3 DEF TypeInv, TypeOK, RetryAfterRefresh, server, storage, guard
  <1>4. CASE RetryAfterRotation(t, k)
    BY <1>4 DEF TypeInv, TypeOK, RetryAfterRotation, server, storage, guard
  <1> QED
    BY <1>1, <1>2, <1>3, <1>4

LEMMA SignOutTypes ==
  ASSUME TypeOK, NEW t \in Tabs, NEW out, SignOut(t, out)
  PROVE  signedIn' \in [Tabs -> BOOLEAN]
  BY DEF SignOut, TypeOK

LEMMA RefreshFailedTypes ==
  ASSUME TypeInv, NEW t \in Tabs, NEW k \in Kind, StacksOK', RefreshFailed(t, k)
  PROVE  TypeOK'
  <1>1. /\ phase' \in [Tabs -> Phase] /\ before' \in [Tabs -> Nat]
        /\ holder' \in Tabs \cup {NoTab}
        /\ lease' \in [owner: Tabs \cup {NoTab}, live: BOOLEAN]
        /\ result' \in [epoch: Nat, success: BOOLEAN]
        /\ pending' \in [Tabs -> BOOLEAN] /\ recent' \in [Tabs -> BOOLEAN]
        /\ signedIn' \in [Tabs -> BOOLEAN]
    <2>1. CASE MayWaitForRotation(t, Top(req[t][k]))
      BY <2>1 DEF RefreshFailed, TypeInv, TypeOK, storage, guard
    <2>2. CASE ~MayWaitForRotation(t, Top(req[t][k]))
      <3>1. Settle(t, k, Unwound(t, req[t][k]), FALSE) /\ SignOut(t, TRUE)
        BY <2>2 DEF RefreshFailed
      <3> QED
        BY <3>1, SettleTypes, SignOutTypes DEF TypeInv
    <2> QED
      BY <2>1, <2>2
  <1>2. UNCHANGED <<locks, jar, server, open, faults, refused>>
    BY DEF RefreshFailed
  <1> QED
    BY <1>1, <1>2 DEF TypeInv, TypeOK, server

LEMMA ReceiveTypes ==
  ASSUME TypeInv, NEW t \in Tabs, NEW k \in Kind, StacksOK', Receive(t, k)
  PROVE  TypeOK'
  <1> DEFINE o == req[t][k]
             f == Top(o)
             denied == f.status = "unauthorized"
             starts == denied /\ isEligibleForRefresh(k) /\ ~f.refresh
             waits  == denied /\ ~starts /\ MayWaitForRotation(t, f)
  <1>1. /\ phase' \in [Tabs -> Phase] /\ before' \in [Tabs -> Nat]
        /\ holder' \in Tabs \cup {NoTab}
        /\ lease' \in [owner: Tabs \cup {NoTab}, live: BOOLEAN]
        /\ result' \in [epoch: Nat, success: BOOLEAN]
        /\ pending' \in [Tabs -> BOOLEAN] /\ recent' \in [Tabs -> BOOLEAN]
        /\ signedIn' \in [Tabs -> BOOLEAN]
    <2>1. CASE starts
      <3>1. UNCHANGED <<storage, guard, signedIn>>
        BY <2>1 DEF Receive
      <3>2. \/ UNCHANGED <<phase, before>>
            \/ /\ phase' = [phase EXCEPT ![t] = IF locks THEN "queued" ELSE "read"]
               /\ before' = [before EXCEPT ![t] = result.epoch]
        BY <2>1 DEF Receive
      <3> HIDE DEF starts
      <3> QED
        BY <3>1, <3>2 DEF TypeInv, TypeOK, storage, guard, Phase
    <2>2. CASE waits
      <3>1. UNCHANGED <<phase, before, storage, guard, signedIn>>
        BY <2>2 DEF Receive
      <3> QED
        BY <3>1 DEF TypeInv, TypeOK, storage, guard
    <2>3. CASE ~starts /\ ~waits /\ f.status = "ok"
      <3>1. Settle(t, k, <<>>, TRUE) /\ UNCHANGED signedIn
        BY <2>3 DEF Receive
      <3>2. signedIn' \in [Tabs -> BOOLEAN]
        BY <3>1 DEF TypeInv, TypeOK
      <3> QED
        BY <3>1, <3>2, SettleTypes DEF TypeInv
    <2>4. CASE ~starts /\ ~waits /\ f.status # "ok"
      <3>1. /\ Settle(t, k, Unwound(t, o), FALSE)
            /\ SignOut(t, SignsOut(t, o, denied))
        BY <2>4 DEF Receive
      <3> QED
        BY <3>1, SettleTypes, SignOutTypes DEF TypeInv
    <2> QED
      BY <2>1, <2>2, <2>3, <2>4
  <1>2. /\ UNCHANGED <<locks, server, open, faults>>
        /\ jar' = IF f.cookies = 0 THEN jar ELSE f.cookies
        /\ ~Idle(t, k)
    BY DEF Receive
  <1>3. refused' \in [Tabs -> BOOLEAN]
    BY DEF Receive, TypeInv, TypeOK
  <1>4. jar' \in 1..newest
    <2>1. f.cookies \in 0..newest /\ jar \in 1..newest
      BY <1>2, TopHere DEF TypeInv, TypeOK
    <2> HIDE DEF f
    <2> QED
      BY <1>2, <2>1
  <1> QED
    BY <1>1, <1>2, <1>3, <1>4 DEF TypeInv, TypeOK, server

LEMMA ServerTypes ==
  ASSUME TypeInv, NEW t \in Tabs, StacksOK', ServerChangesPassword(t) \/ ServerRefreshes(t)
  PROVE  TypeOK'
  <1>1. CASE ServerChangesPassword(t)
    BY <1>1, BoundAssumption DEF TypeInv, TypeOK, ServerChangesPassword, storage, guard
  <1>2. CASE ServerRefreshes(t)
    <2>1. newest' \in 1..MaxPairs /\ newest <= newest' /\ replayed' \in BOOLEAN
      <3>1. \/ newest < MaxPairs /\ newest' = newest + 1 /\ replayed' = replayed
            \/ newest' = newest /\ replayed' = (replayed \/ (alive /\ Top(req[t]["refresh"]).pair >= minPair
                                                             /\ Top(req[t]["refresh"]).pair < newest))
        BY <1>2 DEF ServerRefreshes
      <3> QED
        BY <3>1, BoundAssumption DEF TypeInv, TypeOK
    <2>2. UNCHANGED <<locks, jar, minPair, stale, alive, changed, phase, before, storage,
                      guard, signedIn, open, faults, refused>>
      BY <1>2 DEF ServerRefreshes
    <2> QED
      BY <2>1, <2>2 DEF TypeInv, TypeOK, storage, guard
  <1> QED
    BY <1>1, <1>2

LEMMA SharedTypes ==
  ASSUME TypeInv, NEW t \in Tabs,
         LockGranted(t) \/ readLease(t) \/ waitForAnotherTab(t) \/ writeLease(t) \/ verifyLease(t) \/ Heartbeat(t)
  PROVE  TypeInv'
  <1>1. UNCHANGED <<locks, jar, server, guard, signedIn, open, faults, refused>>
    BY DEF LockGranted, readLease, waitForAnotherTab, writeLease, verifyLease, Heartbeat
  <1>2. newest' = newest /\ jar' = jar /\ newest \in 0..MaxPairs
    BY <1>1, TypesHere DEF server
  <1>3. \/ alreadyRotatedResponse(t)
        \/ StartRequest(t) /\ UNCHANGED <<before, lease, result>> /\ holder' \in {holder, t}
        \/ /\ UNCHANGED req /\ phase' \in [Tabs -> Phase] /\ before' = before /\ result' = result
           /\ holder' = holder /\ lease' \in [owner: Tabs \cup {NoTab}, live: BOOLEAN]
    <2>1. CASE LockGranted(t)
      BY <2>1 DEF LockGranted
    <2>2. CASE readLease(t)
      BY <2>2 DEF readLease, storage, TypeInv, TypeOK, Phase
    <2>3. CASE waitForAnotherTab(t)
      BY <2>3 DEF waitForAnotherTab, storage, TypeInv, TypeOK, Phase
    <2>4. CASE writeLease(t)
      BY <2>4 DEF writeLease, TypeInv, TypeOK, Phase
    <2>5. CASE verifyLease(t)
      BY <2>5 DEF verifyLease, storage, TypeInv, TypeOK, Phase
    <2>6. CASE Heartbeat(t)
      BY <2>6 DEF Heartbeat, TypeInv, TypeOK, Phase
    <2> QED
      BY <2>1, <2>2, <2>3, <2>4, <2>5, <2>6
  <1>4. /\ StacksInv'
        /\ phase' \in [Tabs -> Phase] /\ before' \in [Tabs -> Nat]
        /\ holder' \in Tabs \cup {NoTab}
        /\ lease' \in [owner: Tabs \cup {NoTab}, live: BOOLEAN]
        /\ result' \in [epoch: Nat, success: BOOLEAN]
    <2>1. CASE alreadyRotatedResponse(t)
      <3>1. "refresh" \in Kind /\ TRUE \in BOOLEAN
        BY DEF Kind
      <3>2. StacksInv'
        BY <2>1, <3>1, <1>2, RotatedTypes, WakesStacks DEF TypeInv
      <3> QED
        BY <2>1, <3>2, RotatedTypes DEF TypeInv, TypeOK
    <2>2. CASE StartRequest(t) /\ UNCHANGED <<before, lease, result>> /\ holder' \in {holder, t}
      <3>1. StacksInv'
        BY <2>2, <1>2, StartsStacks
      <3> QED
        BY <2>2, <3>1 DEF TypeInv, TypeOK, StartRequest, Phase
    <2>3. CASE /\ UNCHANGED req /\ phase' \in [Tabs -> Phase] /\ before' = before /\ result' = result
               /\ holder' = holder /\ lease' \in [owner: Tabs \cup {NoTab}, live: BOOLEAN]
      BY <2>3, <1>2 DEF TypeInv, TypeOK, StacksInv
    <2> QED
      BY <1>3, <2>1, <2>2, <2>3
  <1>5. StacksOK'
    BY <1>2, <1>4, StacksFit
  <1> QED
    BY <1>1, <1>4, <1>5 DEF TypeInv, TypeOK, server, guard

LEMMA QuietTypes ==
  ASSUME TypeInv, UNCHANGED req,
         \/ AccessExpires \/ RevokedElsewhere \/ LeaseExpires \/ UNCHANGED vars
         \/ \E t \in Tabs : GraceEnds(t) \/ HeartbeatLate(t)
  PROVE  TypeInv'
  <1>1. newest' = newest /\ UNCHANGED <<locks, jar>> /\ newest \in 0..MaxPairs
    BY TypesHere DEF AccessExpires, RevokedElsewhere, LeaseExpires, GraceEnds, HeartbeatLate, server, vars
  <1>2. StacksInv'
    BY <1>1 DEF TypeInv, StacksInv
  <1>3. StacksOK'
    BY <1>1, <1>2, StacksFit
  <1>4. CASE AccessExpires
    BY <1>2, <1>3, <1>4 DEF AccessExpires, TypeInv, TypeOK, storage, guard
  <1>5. CASE RevokedElsewhere
    BY <1>2, <1>3, <1>5 DEF RevokedElsewhere, TypeInv, TypeOK, storage, guard
  <1>6. CASE LeaseExpires
    BY <1>2, <1>3, <1>6 DEF LeaseExpires, TypeInv, TypeOK, server, guard
  <1>7. CASE UNCHANGED vars
    BY <1>2, <1>3, <1>7 DEF vars, TypeInv, TypeOK, server, storage, guard
  <1>8. ASSUME NEW t \in Tabs, GraceEnds(t)
        PROVE  TypeOK'
    BY <1>3, <1>8, BoundAssumption DEF GraceEnds, TypeInv, TypeOK, server, storage
  <1>9. ASSUME NEW t \in Tabs, HeartbeatLate(t)
        PROVE  TypeOK'
    <2>1. lease' \in [owner: Tabs \cup {NoTab}, live: BOOLEAN]
      BY <1>9 DEF HeartbeatLate, TypeInv, TypeOK
    <2>2. faults' \in 0..MaxFaults
      BY <1>9, BoundAssumption DEF HeartbeatLate, TypeInv, TypeOK
    <2> QED
      BY <1>3, <1>9, <2>1, <2>2 DEF HeartbeatLate, TypeInv, TypeOK, server, guard
  <1> QED
    BY <1>2, <1>4, <1>5, <1>6, <1>7, <1>8, <1>9 DEF TypeInv

LEMMA LossTypes ==
  ASSUME TypeInv, NEW t \in Tabs, StacksOK', TabDies(t) \/ (\E k \in Kind : AnswerLost(t, k))
  PROVE  TypeOK'
  <1>1. CASE TabDies(t)
    BY <1>1, BoundAssumption DEF TabDies, TypeInv, TypeOK, server, Phase
  <1>2. CASE \E k \in Kind : AnswerLost(t, k)
    BY <1>2, BoundAssumption DEF AnswerLost, TypeInv, TypeOK, server, storage, guard
  <1> QED
    BY <1>1, <1>2

\* The stacks after a lost answer: the request is answered without cookies.
LEMMA LostStacks ==
  ASSUME TypeInv, NEW t \in Tabs, NEW k \in Kind, AnswerLost(t, k)
  PROVE  StacksInv' /\ NoNewRefresh
  <1>1. /\ ~Idle(t, k) /\ newest' = newest /\ Answer(t, k, "error", 0)
        /\ newest \in Nat /\ newest <= newest /\ 0 \in 0..newest /\ "error" \in Status /\ "error" # "ok"
    BY TypesHere DEF AnswerLost, server, Status
  <1>2. PICK s : Becomes(t, k, s) /\ Stack(newest, s) /\ s # <<>>
    BY <1>1, AnsweredStack
  <1> QED
    BY <1>1, <1>2, BecomesStack DEF NoNewRefresh, Idle, Kind

\* A step of a request that gets no new pair.
CalmAction(t, k) ==
    \/ Issue(t, k) \/ ServerAnswersCall(t, k) \/ Receive(t, k) \/ RetryAfterRefresh(t, k)
    \/ RefreshFailed(t, k) \/ RetryAfterRotation(t, k)

LEMMA CalmActions ==
  ASSUME TypeInv, NEW t \in Tabs, NEW k \in Kind, CalmAction(t, k)
  PROVE  Calm
  BY IssueCalm, ServerAnswersCallCalm, ReceiveCalm, RetryAfterRefreshCalm, RefreshFailedCalm,
     RetryAfterRotationCalm DEF CalmAction

LEMMA NextTypeInv == TypeInv /\ [Next]_vars => TypeInv'
  <1> SUFFICES ASSUME TypeInv, [Next]_vars PROVE TypeInv'
    OBVIOUS
  <1>1. ASSUME NEW t \in Tabs, NEW k \in Kind, CalmAction(t, k)
        PROVE  TypeInv'
    <2>1. StacksInv'
      BY <1>1, CalmActions DEF Calm
    <2>2. newest' = newest /\ newest \in 0..MaxPairs
      BY <1>1, TypesHere DEF CalmAction, Issue, ServerAnswersCall, Receive, RetryAfterRefresh,
         RefreshFailed, RetryAfterRotation, server
    <2>3. StacksOK'
      BY <2>1, <2>2, StacksFit
    <2> QED
      BY <1>1, <2>1, <2>3, CallTypes, ReceiveTypes, RefreshFailedTypes DEF CalmAction, TypeInv
  <1>2. ASSUME NEW t \in Tabs, NEW k \in Kind, AnswerLost(t, k)
        PROVE  TypeInv'
    <2>1. StacksInv' /\ newest' = newest /\ newest \in 0..MaxPairs
      BY <1>2, LostStacks, TypesHere DEF AnswerLost, server
    <2> QED
      BY <1>2, <2>1, StacksFit, LossTypes DEF TypeInv
  <1>3. ASSUME NEW t \in Tabs, TabDies(t)
        PROVE  TypeInv'
    <2>1. StacksInv' /\ newest' = newest /\ newest \in 0..MaxPairs
      BY <1>3, DiesStacks, TypesHere DEF TabDies, server
    <2> QED
      BY <1>3, <2>1, StacksFit, LossTypes DEF TypeInv
  <1>4. ASSUME NEW t \in Tabs, ServerChangesPassword(t)
        PROVE  TypeInv'
    <2>1. /\ ~Idle(t, "change") /\ newest' = newest + 1 /\ Answer(t, "change", "ok", newest + 1)
          /\ "change" \in Kind /\ newest < MaxPairs
      BY <1>4 DEF ServerChangesPassword, Sent, Kind
    <2>2. StacksInv'
      BY <2>1, IssuesStacks
    <2>3. newest' \in 0..MaxPairs
      BY <2>1, TypesHere, BoundAssumption
    <2> QED
      BY <1>4, <2>2, <2>3, StacksFit, ServerTypes DEF TypeInv
  <1>5. ASSUME NEW t \in Tabs, ServerRefreshes(t)
        PROVE  TypeInv'
    <2>1. ~Idle(t, "refresh") /\ "refresh" \in Kind
      BY <1>5 DEF ServerRefreshes, Sent, Kind
    <2>2. StacksInv' /\ newest' \in 0..MaxPairs
      <3>1. CASE RefreshOk(Top(req[t]["refresh"]).pair)
        <4>1. newest' = newest + 1 /\ Answer(t, "refresh", "ok", newest + 1) /\ newest < MaxPairs
          BY <1>5, <3>1 DEF ServerRefreshes
        <4> QED
          BY <2>1, <4>1, IssuesStacks, TypesHere, BoundAssumption
      <3>2. CASE ~RefreshOk(Top(req[t]["refresh"]).pair)
        <4>1. newest' = newest /\ Answer(t, "refresh", "unauthorized", 0)
          BY <1>5, <3>2 DEF ServerRefreshes
        <4>2. Handled(req[t]["refresh"], jar')
          BY <1>5 DEF ServerRefreshes, Sent, Handled
        <4>3. Calm
          BY <2>1, <4>1, <4>2, NoAnswerCalm
        <4> QED
          BY <4>1, <4>3, TypesHere DEF Calm
      <3> QED
        BY <3>1, <3>2
    <2> QED
      BY <1>5, <2>2, StacksFit, ServerTypes DEF TypeInv
  <1>6. ASSUME NEW t \in Tabs, GraceEnds(t) \/ HeartbeatLate(t)
        PROVE  TypeInv'
    BY <1>6, QuietTypes DEF GraceEnds, HeartbeatLate
  <1>7. CASE AccessExpires \/ RevokedElsewhere \/ LeaseExpires \/ UNCHANGED vars
    BY <1>7, QuietTypes DEF AccessExpires, RevokedElsewhere, LeaseExpires, vars
  <1>8. CASE Next
    <2>1. ASSUME NEW t \in Tabs, RefreshStep(t)
          PROVE  TypeInv'
      BY <2>1, <1>5, SharedTypes DEF RefreshStep
    <2>2. ASSUME NEW t \in Tabs, Heartbeat(t)
          PROVE  TypeInv'
      BY <2>2, SharedTypes
    <2>3. ASSUME NEW t \in Tabs, NEW k \in Kind, Issue(t, k) \/ Step(t, k) \/ AnswerLost(t, k)
          PROVE  TypeInv'
      BY <2>3, <1>1, <1>2 DEF Step, CalmAction
    <2> QED
      BY <1>3, <1>4, <1>6, <1>7, <1>8, <2>1, <2>2, <2>3 DEF Next
  <1> QED
    BY <1>7, <1>8

\* Whatever the tabs, the server and the network do, the variables have their
\* types, and a request never nests deeper than three: the flags of a config are
\* carried over to the retry, so the interceptor tries again at most once after a
\* refresh and once after a rotation (setupAuthInterceptor).
THEOREM TypeCorrect == Spec => []TypeOK
  <1>1. TypeInv => TypeOK
    BY DEF TypeInv
  <1> QED
    BY <1>1, InitTypeInv, NextTypeInv, PTL DEF Spec

-----------------------------------------------------------------------------
(* The lock *)

\* Where the browser has Web Locks, whoever has a refresh out holds the lock.
LockInv ==
    locks => \A t \in Tabs : /\ phase[t] \in {"none", "queued", "running"}
                             /\ req[t]["refresh"] # <<>> => holder = t

LEMMA LocksKept ==
  ASSUME TypeInv, LockInv, locks' = locks, NoNewRefresh,
         \A u \in Tabs : phase'[u] \in {phase[u], "none"} \/ (locks => phase'[u] = "queued"),
         holder' = holder \/ (\E t \in Tabs : holder = t /\ req'[t]["refresh"] = <<>>)
  PROVE  LockInv'
  <1> SUFFICES ASSUME locks, NEW u \in Tabs
               PROVE  /\ phase'[u] \in {"none", "queued", "running"}
                      /\ req'[u]["refresh"] # <<>> => holder' = u
    BY DEF LockInv
  <1>1. phase'[u] \in {"none", "queued", "running"}
    BY DEF LockInv
  <1>2. ASSUME req'[u]["refresh"] # <<>>
        PROVE  holder' = u
    <2>1. holder = u
      BY <1>2 DEF NoNewRefresh, LockInv
    <2> QED
      BY <1>2, <2>1
  <1> QED
    BY <1>1, <1>2

LEMMA SettleLocks ==
  ASSUME TypeInv, NEW t \in Tabs, NEW k \in Kind, NEW ok \in BOOLEAN, NEW s, Settle(t, k, s, ok)
  PROVE  /\ \A u \in Tabs : phase'[u] \in {phase[u], "none"}
         /\ holder' = holder \/ (holder = t /\ req'[t]["refresh"] = <<>>)
  <1>1. CASE s = <<>> /\ k = "refresh"
    <2>1. SettleRefresh(t, publishRotationResult(ok)) /\ req' = [req EXCEPT ![t] = Wake(t, k, ok)]
      BY <1>1 DEF Settle
    <2>2. Wake(t, k, ok)["refresh"] = <<>>
      BY <1>1, WokenStacks
    <2>3. req'[t]["refresh"] = <<>>
      BY <2>1, <2>2 DEF TypeInv, StacksInv
    <2> QED
      BY <2>1, <2>3 DEF SettleRefresh, TypeInv, TypeOK
  <1>2. CASE ~(s = <<>> /\ k = "refresh")
    BY <1>2 DEF Settle, storage
  <1> QED
    BY <1>1, <1>2

LEMMA CalmActionLocks ==
  ASSUME TypeInv, LockInv, NEW t \in Tabs, NEW k \in Kind, CalmAction(t, k)
  PROVE  LockInv'
  <1>1. NoNewRefresh /\ locks' = locks
    BY CalmActions DEF Calm, CalmAction, Issue, ServerAnswersCall, Receive, RetryAfterRefresh,
       RefreshFailed, RetryAfterRotation
  <1>2. /\ \A u \in Tabs : phase'[u] \in {phase[u], "none"} \/ (locks => phase'[u] = "queued")
        /\ holder' = holder \/ (holder = t /\ req'[t]["refresh"] = <<>>)
    <2>1. CASE Issue(t, k) \/ ServerAnswersCall(t, k) \/ RetryAfterRefresh(t, k) \/ RetryAfterRotation(t, k)
      BY <2>1 DEF Issue, ServerAnswersCall, RetryAfterRefresh, RetryAfterRotation, storage
    <2>2. CASE RefreshFailed(t, k)
      <3>1. \/ UNCHANGED <<phase, storage>>
            \/ Settle(t, k, Unwound(t, req[t][k]), FALSE)
        BY <2>2 DEF RefreshFailed
      <3> QED
        BY <3>1, SettleLocks DEF storage
    <2>3. CASE Receive(t, k)
      <3>1. \/ UNCHANGED <<phase, storage>>
            \/ phase' = [phase EXCEPT ![t] = IF locks THEN "queued" ELSE "read"] /\ UNCHANGED storage
            \/ Settle(t, k, <<>>, TRUE)
            \/ Settle(t, k, Unwound(t, req[t][k]), FALSE)
        BY <2>3 DEF Receive
      <3>2. CASE phase' = [phase EXCEPT ![t] = IF locks THEN "queued" ELSE "read"] /\ UNCHANGED storage
        BY <3>2 DEF storage, TypeInv, TypeOK
      <3> QED
        BY <3>1, <3>2, SettleLocks DEF storage
    <2> QED
      BY <2>1, <2>2, <2>3 DEF CalmAction
  <1> QED
    BY <1>1, <1>2, LocksKept

\* The lock is granted to one tab, and none has a refresh out by then.
LEMMA GrantedLocks ==
  ASSUME TypeInv, LockInv, NEW t \in Tabs, LockGranted(t)
  PROVE  /\ LockInv'
         /\ locks => StacksInv' /\ CalmStep
  <1>1. /\ locks' = locks /\ newest' = newest /\ jar' = jar /\ holder = NoTab /\ phase[t] = "queued"
        /\ "refresh" \in Kind /\ NoTab \notin Tabs
    BY TabAssumption DEF LockGranted, server, Kind
  <1>2. locks => \A u \in Tabs : req[u]["refresh"] = <<>>
    BY <1>1 DEF LockInv
  <1>3. CASE rotationCompletedAfter(t)
    <2>1. alreadyRotatedResponse(t)
      BY <1>3 DEF LockGranted
    <2>2. /\ req' = [req EXCEPT ![t] = Wake(t, "refresh", TRUE)]
          /\ phase' = [phase EXCEPT ![t] = "none"] /\ holder' = holder
      BY <1>1, <2>1 DEF alreadyRotatedResponse, SettleRefresh
    <2>3. locks => Calm
      BY <1>1, <1>2, <2>2, WakesCalm DEF Handled
    <2>4. \A u \in Tabs : phase'[u] \in {phase[u], "none"}
      BY <2>2 DEF TypeInv, TypeOK
    <2>5. CASE locks
      BY <1>1, <2>2, <2>3, <2>4, <2>5, LocksKept DEF Calm
    <2> QED
      BY <1>1, <2>5 DEF LockInv
  <1>4. CASE ~rotationCompletedAfter(t)
    <2>1. StartRequest(t) /\ holder' = t /\ phase' = [phase EXCEPT ![t] = "running"]
      BY <1>4 DEF LockGranted, StartRequest
    <2>2. /\ StacksInv' /\ GoesOn(req'[t]["refresh"], jar')
          /\ \A u \in Tabs, j \in Kind : u # t \/ j # "refresh" => req'[u][j] = req[u][j]
      BY <1>1, <2>1, StartsStacks
    <2>3. CASE locks
      <3>1. CalmStep
        BY <1>2, <2>2, <2>3 DEF CalmStep, Moves, Handled
      <3>2. \A u \in Tabs \ {t} : req'[u]["refresh"] = <<>>
        BY <1>1, <1>2, <2>2, <2>3
      <3>3. \A u \in Tabs : phase'[u] \in {phase[u], "running"}
        BY <2>1 DEF TypeInv, TypeOK
      <3>4. \A u \in Tabs : phase'[u] \in {"none", "queued", "running"}
        BY <2>3, <3>3 DEF LockInv
      <3>5. \A u \in Tabs : req'[u]["refresh"] # <<>> => holder' = u
        BY <2>1, <3>2
      <3>6. LockInv'
        BY <3>4, <3>5 DEF LockInv
      <3> QED
        BY <2>2, <3>1, <3>6
    <2> QED
      BY <1>1, <2>3 DEF LockInv
  <1> QED
    BY <1>3, <1>4

\* The other steps of a refresh are those of the lease.
LEMMA LeaseLocks ==
  ASSUME TypeInv, LockInv, NEW t \in Tabs,
         readLease(t) \/ waitForAnotherTab(t) \/ writeLease(t) \/ verifyLease(t)
  PROVE  LockInv' /\ ~locks
  <1>1. phase[t] \in {"read", "waiting", "claim", "verify"} /\ locks' = locks
    BY DEF readLease, waitForAnotherTab, writeLease, verifyLease
  <1>2. ~locks
    BY <1>1 DEF LockInv
  <1> QED
    BY <1>1, <1>2 DEF LockInv

LEMMA ServerRefusesCalm ==
  ASSUME TypeInv, NEW t \in Tabs, ServerRefreshes(t), ~RefreshOk(Top(req[t]["refresh"]).pair)
  PROVE  Calm
  <1>1. /\ ~Idle(t, "refresh") /\ "refresh" \in Kind /\ newest' = newest
        /\ Answer(t, "refresh", "unauthorized", 0) /\ Handled(req[t]["refresh"], jar')
    BY DEF ServerRefreshes, Sent, Kind, Handled
  <1> QED
    BY <1>1, NoAnswerCalm

\* A server that issues a pair makes a change to one stack, which is not empty.
LEMMA ServerLocks ==
  ASSUME TypeInv, LockInv, NEW t \in Tabs, ServerChangesPassword(t) \/ ServerRefreshes(t)
  PROVE  LockInv'
  <1>1. UNCHANGED <<locks, phase, holder>>
    BY DEF ServerChangesPassword, ServerRefreshes, storage
  <1>2. NoNewRefresh
    <2>1. ASSUME NEW k \in Kind, ~Idle(t, k), newest' = newest + 1, Answer(t, k, "ok", newest + 1)
          PROVE  NoNewRefresh
      BY <2>1, IssuesStacks DEF NoNewRefresh, Idle, Kind
    <2>2. CASE ServerChangesPassword(t)
      BY <2>1, <2>2 DEF ServerChangesPassword, Sent, Kind
    <2>3. CASE ServerRefreshes(t) /\ RefreshOk(Top(req[t]["refresh"]).pair)
      BY <2>1, <2>3 DEF ServerRefreshes, Sent, Kind
    <2>4. CASE ServerRefreshes(t) /\ ~RefreshOk(Top(req[t]["refresh"]).pair)
      BY <2>4, ServerRefusesCalm DEF Calm
    <2> QED
      BY <2>2, <2>3, <2>4
  <1>3. \A u \in Tabs : phase'[u] \in {phase[u], "none"}
    BY <1>1
  <1> QED
    BY <1>1, <1>2, <1>3, LocksKept

LEMMA LossLocks ==
  ASSUME TypeInv, LockInv, NEW t \in Tabs, TabDies(t) \/ (\E k \in Kind : AnswerLost(t, k))
  PROVE  LockInv'
  <1>1. CASE \E k \in Kind : AnswerLost(t, k)
    <2>1. PICK k \in Kind : AnswerLost(t, k)
      BY <1>1
    <2>2. NoNewRefresh /\ UNCHANGED <<locks, phase, holder>>
      BY <2>1, LostStacks DEF AnswerLost, storage
    <2>3. \A u \in Tabs : phase'[u] \in {phase[u], "none"}
      BY <2>2
    <2> QED
      BY <2>2, <2>3, LocksKept
  <1>2. CASE TabDies(t)
    <2>1. /\ NoNewRefresh /\ locks' = locks
          /\ phase' = [phase EXCEPT ![t] = "none"]
          /\ holder' = IF holder = t THEN NoTab ELSE holder
          /\ req' = [req EXCEPT ![t] = [k \in Kind |-> <<>>]]
      BY <1>2, DiesStacks DEF TabDies
    <2>2. req'[t]["refresh"] = <<>>
      BY <2>1 DEF TypeInv, StacksInv, Kind
    <2>3. \A u \in Tabs : phase'[u] \in {phase[u], "none"}
      BY <2>1 DEF TypeInv, TypeOK
    <2>4. holder' = holder \/ (\E u \in Tabs : holder = u /\ req'[u]["refresh"] = <<>>)
      BY <2>1, <2>2
    <2> QED
      BY <2>1, <2>3, <2>4, LocksKept
  <1> QED
    BY <1>1, <1>2

-----------------------------------------------------------------------------
(* The cookies *)

\* A pair that a refresh may present without being taken for a replay.
Fresh(p) == p = newest \/ p < minPair

\* The newest pair is on its way to the browser.
Owed(t, k) ==
    req[t][k] # <<>> /\ Top(req[t][k]).at = "answered" /\ Top(req[t][k]).cookies = newest

\* The refresh of tab t is with the server.
Presents(t) == req[t]["refresh"] # <<>> /\ Top(req[t]["refresh"]).at = "sent"

AnswersAreFresh ==
    \A t \in Tabs, k \in Kind :
        req[t][k] # <<>> /\ Top(req[t][k]).at = "answered" =>
            Top(req[t][k]).cookies = 0 \/ Fresh(Top(req[t][k]).cookies)

PresentedAreFresh == \A t \in Tabs : Presents(t) => Fresh(Top(req[t]["refresh"]).pair)

\* The jar is behind only while a refresh is owed its answer.
JarIsFresh == Fresh(jar) \/ \E t \in Tabs : Owed(t, "refresh")

\* Only one answer carries the newest pair, and nobody has it before that answer
\* is received.
NewestIsOwedOnce ==
    \A t \in Tabs, k \in Kind : Owed(t, k) =>
        /\ jar # newest
        /\ \A u \in Tabs : Presents(u) => Top(req[u]["refresh"]).pair # newest
        /\ \A u \in Tabs, j \in Kind : Owed(u, j) => u = t /\ j = k

CookieInv ==
    /\ AnswersAreFresh /\ PresentedAreFresh /\ JarIsFresh /\ NewestIsOwedOnce
    /\ ~replayed

ReplayInv == LockInv /\ (locks /\ faults = 0 => CookieInv)

\* What the jar receives was an answer, which is then done with.
JarStep ==
    \/ jar' = jar
    \/ \E t \in Tabs, k \in Kind :
          /\ req[t][k] # <<>> /\ Top(req[t][k]).at = "answered"
          /\ jar' = Top(req[t][k]).cookies /\ jar' # 0
          /\ req'[t][k] # req[t][k]

LEMMA QuietCookies ==
  ASSUME TypeInv, TypeInv', locks, locks', LockInv', CookieInv, CalmStep, JarStep,
         UNCHANGED <<newest, minPair, replayed>>
  PROVE  CookieInv'
  <1>1. /\ newest \in Nat \ {0} /\ minPair \in 1..newest /\ jar \in 1..newest /\ jar' \in 1..newest
        /\ newest' = newest /\ minPair' = minPair
    BY TypesHere DEF TypeInv, TypeOK
  <1>2. \A p : Fresh(p)' <=> Fresh(p)
    BY <1>1 DEF Fresh
  <1>3. \A t \in Tabs, k \in Kind : Moves(req[t][k], req'[t][k], jar')
    BY DEF CalmStep
  <1>4. AnswersAreFresh'
    <2> SUFFICES ASSUME NEW t \in Tabs, NEW k \in Kind, req'[t][k] # <<>>, Top(req'[t][k]).at = "answered"
                 PROVE  Top(req'[t][k]).cookies = 0 \/ Fresh(Top(req'[t][k]).cookies)
      BY <1>2 DEF AnswersAreFresh
    <2> QED
      BY <1>3 DEF CookieInv, AnswersAreFresh, Moves, GoesOn, Refused
  \* An answer that is still owed was owed before.
  <1>5. ASSUME NEW t \in Tabs, NEW k \in Kind, Owed(t, k)'
        PROVE  Owed(t, k) /\ req'[t][k] = req[t][k]
    BY <1>1, <1>3, <1>5 DEF Owed, Moves, GoesOn, Refused
  <1>6. ASSUME NEW t \in Tabs, NEW k \in Kind, Owed(t, k)'
        PROVE  jar' # newest
    <2>1. Owed(t, k) /\ req'[t][k] = req[t][k] /\ jar # newest
      BY <1>5, <1>6 DEF CookieInv, NewestIsOwedOnce
    <2>2. CASE jar' = jar
      BY <2>1, <2>2
    <2>3. ASSUME NEW u \in Tabs, NEW j \in Kind,
                 req[u][j] # <<>>, Top(req[u][j]).at = "answered",
                 jar' = Top(req[u][j]).cookies, req'[u][j] # req[u][j]
          PROVE  jar' # newest
      <3>1. jar' = newest => Owed(u, j)
        BY <2>3 DEF Owed
      <3> QED
        BY <2>1, <2>3, <3>1 DEF CookieInv, NewestIsOwedOnce
    <2> QED
      BY <2>2, <2>3 DEF JarStep
  <1>7. JarIsFresh'
    <2>1. CASE jar' = jar /\ Fresh(jar)
      BY <1>2, <2>1 DEF JarIsFresh
    <2>2. CASE jar' = jar /\ ~Fresh(jar)
      <3>1. PICK t \in Tabs : Owed(t, "refresh")
        BY <2>2 DEF CookieInv, JarIsFresh
      <3>2. "refresh" \in Kind /\ jar' # newest /\ newest # 0
        BY <1>1, <2>2 DEF Kind, Fresh
      <3>3. req'[t]["refresh"] = req[t]["refresh"]
        BY <1>3, <3>1, <3>2 DEF Moves, Handled, Owed
      <3> QED
        BY <1>1, <3>1, <3>3 DEF JarIsFresh, Owed
    <2>3. CASE jar' # jar
      <3>1. Fresh(jar')
        BY <2>3 DEF JarStep, CookieInv, AnswersAreFresh
      <3> QED
        BY <1>2, <3>1 DEF JarIsFresh
    <2> QED
      BY <2>1, <2>2, <2>3
  <1>8. ASSUME NEW t \in Tabs, Presents(t)'
        PROVE  /\ Fresh(Top(req'[t]["refresh"]).pair)
               /\ \/ req'[t]["refresh"] = req[t]["refresh"]
                  \/ Top(req'[t]["refresh"]).pair = jar'
    <2>1. "refresh" \in Kind /\ req'[t]["refresh"] # <<>> /\ Top(req'[t]["refresh"]).at = "sent"
      BY <1>8 DEF Presents, Kind
    <2>2. \/ req'[t]["refresh"] = req[t]["refresh"]
          \/ Top(req'[t]["refresh"]).pair = jar'
      BY <1>3, <2>1 DEF Moves, GoesOn, Refused
    <2>3. CASE req'[t]["refresh"] = req[t]["refresh"]
      BY <2>1, <2>3 DEF CookieInv, PresentedAreFresh, Presents
    <2>4. CASE Top(req'[t]["refresh"]).pair = jar'
      <3>1. ASSUME NEW u \in Tabs, Owed(u, "refresh")'
            PROVE  FALSE
        <4>1. req'[u]["refresh"] # <<>> /\ Top(req'[u]["refresh"]).at = "answered"
          BY <3>1 DEF Owed
        <4>2. u = t
          BY <2>1, <4>1 DEF LockInv
        <4> QED
          BY <2>1, <4>1, <4>2
      <3>2. Fresh(jar')
        BY <1>2, <1>7, <3>1 DEF JarIsFresh
      <3> QED
        BY <2>4, <3>2
    <2> QED
      BY <2>2, <2>3, <2>4
  <1>9. PresentedAreFresh'
    BY <1>2, <1>8 DEF PresentedAreFresh
  <1>10. NewestIsOwedOnce'
    <2> SUFFICES ASSUME NEW t \in Tabs, NEW k \in Kind, Owed(t, k)'
                 PROVE  /\ jar' # newest
                        /\ \A u \in Tabs : Presents(u)' => Top(req'[u]["refresh"]).pair # newest
                        /\ \A u \in Tabs, j \in Kind : Owed(u, j)' => u = t /\ j = k
      BY <1>1 DEF NewestIsOwedOnce
    <2>1. jar' # newest /\ Owed(t, k)
      BY <1>5, <1>6
    <2>2. ASSUME NEW u \in Tabs, Presents(u)'
          PROVE  Top(req'[u]["refresh"]).pair # newest
      <3>1. CASE req'[u]["refresh"] = req[u]["refresh"]
        BY <2>1, <2>2, <3>1 DEF CookieInv, NewestIsOwedOnce, Presents
      <3>2. CASE Top(req'[u]["refresh"]).pair = jar'
        BY <2>1, <3>2
      <3> QED
        BY <1>8, <2>2, <3>1, <3>2
    <2>3. ASSUME NEW u \in Tabs, NEW j \in Kind, Owed(u, j)'
          PROVE  u = t /\ j = k
      BY <1>5, <2>1, <2>3 DEF CookieInv, NewestIsOwedOnce
    <2> QED
      BY <2>1, <2>2, <2>3
  <1> QED
    BY <1>4, <1>7, <1>9, <1>10 DEF CookieInv

\* The server issues a pair: whatever else is on its way is outdated by it.
LEMMA IssuedCookies ==
  ASSUME TypeInv, CookieInv, NEW t \in Tabs, NEW k \in Kind,
         newest' = newest + 1, jar' = jar, replayed' = replayed,
         req'[t][k] # <<>>, Top(req'[t][k]).at = "answered", Top(req'[t][k]).cookies = newest',
         \A u \in Tabs, j \in Kind : u # t \/ j # k => req'[u][j] = req[u][j],
         k = "refresh" \/ jar < minPair',
         \A u \in Tabs, j \in Kind :
            (u # t \/ j # k) /\ req[u][j] # <<>> /\ Top(req[u][j]).at = "answered" =>
                Top(req[u][j]).cookies = 0 \/ Top(req[u][j]).cookies < minPair',
         \A u \in Tabs : Presents(u) /\ (u # t \/ k # "refresh") => Top(req[u]["refresh"]).pair < minPair'
  PROVE  CookieInv'
  <1>1. /\ newest \in Nat \ {0} /\ jar \in 0..newest /\ "refresh" \in Kind
        /\ \A u \in Tabs, j \in Kind : req[u][j] # <<>> =>
              Top(req[u][j]).cookies \in 0..newest /\ Top(req[u][j]).pair \in 0..newest
    BY TypesHere, TopHere DEF Idle, Kind
  <1>2. AnswersAreFresh'
    BY DEF AnswersAreFresh, Fresh
  <1>3. ASSUME NEW u \in Tabs, Presents(u)'
        PROVE  /\ Top(req'[u]["refresh"]).pair < minPair' /\ Top(req'[u]["refresh"]).pair # newest'
    <2>1. u # t \/ k # "refresh"
      BY <1>3 DEF Presents
    <2>2. req'[u]["refresh"] = req[u]["refresh"]
      BY <2>1, <1>1
    <2>3. Presents(u)
      BY <1>3, <2>2 DEF Presents
    <2> QED
      BY <1>1, <2>1, <2>2, <2>3 DEF Presents
  <1>4. PresentedAreFresh'
    BY <1>3 DEF PresentedAreFresh, Fresh
  <1>5. JarIsFresh'
    <2>1. CASE k = "refresh"
      BY <2>1 DEF JarIsFresh, Owed
    <2>2. CASE jar < minPair'
      BY <2>2 DEF JarIsFresh, Fresh
    <2> QED
      BY <2>1, <2>2
  <1>6. ASSUME NEW u \in Tabs, NEW j \in Kind, Owed(u, j)'
        PROVE  u = t /\ j = k
    <2> SUFFICES ASSUME u # t \/ j # k PROVE FALSE
      OBVIOUS
    <2>1. req[u][j] # <<>> /\ Top(req[u][j]).cookies = newest'
      BY <1>6 DEF Owed
    <2> QED
      BY <1>1, <2>1
  <1>7. jar' # newest'
    BY <1>1
  <1>8. NewestIsOwedOnce'
    BY <1>3, <1>6, <1>7 DEF NewestIsOwedOnce
  <1> QED
    BY <1>2, <1>4, <1>5, <1>8 DEF CookieInv

LEMMA PasswordCookies ==
  ASSUME TypeInv, CookieInv, NEW t \in Tabs, ServerChangesPassword(t)
  PROVE  CookieInv'
  <1>1. /\ ~Idle(t, "change") /\ "change" \in Kind /\ newest' = newest + 1 /\ minPair' = newest + 1
        /\ jar' = jar /\ replayed' = replayed /\ Answer(t, "change", "ok", newest + 1)
    BY DEF ServerChangesPassword, Sent, Kind
  <1>2. /\ req'[t]["change"] # <<>> /\ Top(req'[t]["change"]).at = "answered"
        /\ Top(req'[t]["change"]).cookies = newest'
        /\ \A u \in Tabs, j \in Kind : u # t \/ j # "change" => req'[u][j] = req[u][j]
    BY <1>1, IssuesStacks
  <1>3. /\ newest \in Nat /\ jar \in 0..newest
        /\ \A u \in Tabs, j \in Kind : req[u][j] # <<>> =>
              Top(req[u][j]).cookies \in 0..newest /\ Top(req[u][j]).pair \in 0..newest
    BY TypesHere, TopHere DEF Idle
  <1>4. jar < minPair'
    BY <1>1, <1>3
  <1>5. \A u \in Tabs, j \in Kind : req[u][j] # <<>> => Top(req[u][j]).cookies < minPair'
    BY <1>1, <1>3
  <1>6. \A u \in Tabs : Presents(u) => Top(req[u]["refresh"]).pair < minPair'
    <2>1. "refresh" \in Kind
      BY DEF Kind
    <2> QED
      BY <1>1, <1>3, <2>1 DEF Presents
  <1> QED
    BY <1>1, <1>2, <1>4, <1>5, <1>6, IssuedCookies

LEMMA RefreshCookies ==
  ASSUME TypeInv, LockInv, locks, CookieInv, NEW t \in Tabs, ServerRefreshes(t),
         RefreshOk(Top(req[t]["refresh"]).pair)
  PROVE  CookieInv'
  <1>1. /\ ~Idle(t, "refresh") /\ "refresh" \in Kind /\ newest' = newest + 1 /\ minPair' = minPair
        /\ jar' = jar /\ replayed' = replayed /\ Answer(t, "refresh", "ok", newest + 1)
    BY DEF ServerRefreshes, Sent, Kind
  <1>2. /\ req'[t]["refresh"] # <<>> /\ Top(req'[t]["refresh"]).at = "answered"
        /\ Top(req'[t]["refresh"]).cookies = newest'
        /\ \A u \in Tabs, j \in Kind : u # t \/ j # "refresh" => req'[u][j] = req[u][j]
    BY <1>1, IssuesStacks
  <1>3. Presents(t) /\ Top(req[t]["refresh"]).pair = newest
    BY DEF ServerRefreshes, Sent, Presents, Idle, RefreshOk
  <1>4. \A u \in Tabs, j \in Kind : ~Owed(u, j)
    BY <1>3 DEF CookieInv, NewestIsOwedOnce
  <1>5. \A u \in Tabs, j \in Kind : req[u][j] # <<>> /\ Top(req[u][j]).at = "answered" =>
            Top(req[u][j]).cookies = 0 \/ Top(req[u][j]).cookies < minPair'
    BY <1>1, <1>4 DEF CookieInv, AnswersAreFresh, Fresh, Owed
  <1>6. \A u \in Tabs : Presents(u) => u = t
    BY <1>3 DEF LockInv, Presents
  <1> QED
    BY <1>1, <1>2, <1>5, <1>6, IssuedCookies

\* No refresh that the server turns down is a replay.
LEMMA RefusedCookies ==
  ASSUME TypeInv, TypeInv', LockInv', locks, locks', CookieInv, NEW t \in Tabs, ServerRefreshes(t),
         ~RefreshOk(Top(req[t]["refresh"]).pair)
  PROVE  CookieInv'
  <1> DEFINE p == Top(req[t]["refresh"]).pair
  <1>1. UNCHANGED <<newest, minPair, jar>> /\ Presents(t)
    BY DEF ServerRefreshes, Sent, Presents, Idle
  <1>2. p = newest \/ p < minPair
    BY <1>1 DEF CookieInv, PresentedAreFresh, Fresh
  <1>3. newest \in Nat /\ minPair \in Nat /\ p \in Nat
    <2>1. ~Idle(t, "refresh") /\ "refresh" \in Kind
      BY <1>1 DEF Presents, Idle, Kind
    <2> QED
      BY <2>1, TopHere, TypesHere
  <1> DEFINE late == p >= minPair /\ p < newest
  <1>4. ~replayed /\ replayed' = (replayed \/ (alive /\ late))
    BY DEF ServerRefreshes, CookieInv
  <1>5. ~late
    <2> HIDE DEF p
    <2> QED
      BY <1>2, <1>3
  <1> HIDE DEF p, late
  <1>6. replayed' = replayed
    <2>1. replayed \in BOOLEAN /\ replayed' \in BOOLEAN
      BY DEF TypeInv, TypeOK
    <2> QED
      BY <1>4, <1>5, <2>1, Zenon
  <1>7. CalmStep /\ JarStep
    BY <1>1, ServerRefusesCalm DEF Calm, JarStep
  <1> QED
    BY <1>1, <1>6, <1>7, QuietCookies

\* An answer that has been received is done with.
LEMMA ReceiveGoesOn ==
  ASSUME TypeInv, NEW t \in Tabs, NEW k \in Kind, Receive(t, k)
  PROVE  req'[t][k] # req[t][k]
  <1> DEFINE o == req[t][k]
             f == Top(o)
             denied == f.status = "unauthorized"
             starts == denied /\ isEligibleForRefresh(k) /\ ~f.refresh
             waits  == denied /\ ~starts /\ MayWaitForRotation(t, f)
  <1>1. /\ ~Idle(t, k) /\ f.at = "answered" /\ newest' = newest
        /\ req \in [Tabs -> [Kind -> Seq(FrameUpTo(newest))]]
    BY DEF Receive, server, TypeInv, StacksInv
  <1>2. /\ newest \in Nat /\ Stack(newest, o) /\ o # <<>> /\ f \in FrameUpTo(newest)
    BY <1>1, TopHere
  <1>3. ASSUME NEW s, Becomes(t, k, s), s # o
        PROVE  req'[t][k] # o
    BY <1>1, <1>3 DEF Becomes
  <1>4. ASSUME NEW s, GoesOn(s, jar)
        PROVE  s # o
    BY <1>1, <1>4 DEF GoesOn
  <1>5. ASSUME NEW s, NEW ok \in BOOLEAN, Settle(t, k, s, ok), s = <<>> \/ GoesOn(s, jar)
        PROVE  req'[t][k] # o
    <2>1. CASE s = <<>>
      <3>1. req' = [req EXCEPT ![t] = Wake(t, k, ok)] /\ Wake(t, k, ok)[k] = <<>>
        BY <1>5, <2>1, WokenStacks DEF Settle
      <3> QED
        BY <1>1, <1>2, <3>1
    <2>2. CASE s # <<>>
      BY <1>3, <1>4, <1>5, <2>2 DEF Settle
    <2> QED
      BY <2>1, <2>2
  <1>6. CASE starts
    <2> DEFINE g == [f EXCEPT !.at = "refreshing"]
    <2>1. Becomes(t, k, WithTop(o, g))
      BY <1>6 DEF Receive
    <2>2. g \in FrameUpTo(newest) /\ g.at = "refreshing"
      BY <1>2 DEF FrameUpTo, At
    <2>3. Top(WithTop(o, g)) = g
      <3> HIDE DEF g
      <3> QED
        BY <1>2, <2>2, WithTopFacts DEF Stack
    <2> QED
      BY <1>1, <1>3, <2>1, <2>2, <2>3
  <1>7. CASE waits
    <2>1. Becomes(t, k, TakeRotationBranch(t, o))
      BY <1>7 DEF Receive
    <2> QED
      BY <1>2, <1>3, <1>4, <1>7, <2>1, RotationBranch
  <1>8. CASE ~starts /\ ~waits /\ f.status = "ok"
    <2>1. Settle(t, k, <<>>, TRUE)
      BY <1>8 DEF Receive
    <2> QED
      BY <1>5, <2>1
  <1>9. CASE ~starts /\ ~waits /\ f.status # "ok"
    <2>1. Settle(t, k, Unwound(t, o), FALSE)
      BY <1>9 DEF Receive
    <2> QED
      BY <1>2, <1>5, <2>1, UnwoundStack
  <1> QED
    BY <1>6, <1>7, <1>8, <1>9

LEMMA CalmActionJar ==
  ASSUME TypeInv, NEW t \in Tabs, NEW k \in Kind, CalmAction(t, k)
  PROVE  JarStep
  <1>1. CASE Receive(t, k)
    <2>1. /\ req[t][k] # <<>> /\ Top(req[t][k]).at = "answered"
          /\ jar' = IF Top(req[t][k]).cookies = 0 THEN jar ELSE Top(req[t][k]).cookies
      BY <1>1 DEF Receive, Idle
    <2>2. req'[t][k] # req[t][k]
      BY <1>1, ReceiveGoesOn
    <2> QED
      BY <2>1, <2>2 DEF JarStep
  <1>2. CASE ~Receive(t, k)
    BY <1>2 DEF JarStep, CalmAction, Issue, ServerAnswersCall, RetryAfterRefresh, RefreshFailed,
       RetryAfterRotation
  <1> QED
    BY <1>1, <1>2

LEMMA CalmActionCookies ==
  ASSUME TypeInv, TypeInv', LockInv', locks, locks', CookieInv,
         NEW t \in Tabs, NEW k \in Kind, CalmAction(t, k)
  PROVE  CookieInv'
  <1>1. CalmStep
    BY CalmActions DEF Calm
  <1>2. UNCHANGED <<newest, minPair, replayed>>
    BY DEF CalmAction, Issue, ServerAnswersCall, Receive, RetryAfterRefresh, RefreshFailed,
       RetryAfterRotation, server
  <1>3. JarStep
    BY CalmActionJar
  <1> QED
    BY <1>1, <1>2, <1>3, QuietCookies

LEMMA InitReplayInv == Init => ReplayInv
  <1> SUFFICES ASSUME Init PROVE ReplayInv
    OBVIOUS
  <1>1. \A t \in Tabs, k \in Kind : req[t][k] = <<>>
    BY DEF Init
  <1>2. phase = [t \in Tabs |-> "none"] /\ jar = newest /\ ~replayed /\ "refresh" \in Kind
    BY DEF Init, Kind
  <1>3. LockInv
    BY <1>1, <1>2 DEF LockInv
  <1>4. CookieInv
    BY <1>1, <1>2 DEF CookieInv, AnswersAreFresh, PresentedAreFresh, JarIsFresh, NewestIsOwedOnce,
       Owed, Presents, Fresh
  <1> QED
    BY <1>3, <1>4 DEF ReplayInv

LEMMA NextReplayInv == TypeInv /\ ReplayInv /\ [Next]_vars => ReplayInv'
  <1> SUFFICES ASSUME TypeInv, ReplayInv, [Next]_vars PROVE ReplayInv'
    OBVIOUS
  <1>1. TypeInv'
    BY NextTypeInv
  <1>2. LockInv /\ faults \in Nat
    BY DEF ReplayInv, TypeInv, TypeOK
  <1>3. ASSUME NEW t \in Tabs, NEW k \in Kind, CalmAction(t, k)
        PROVE  ReplayInv'
    <2>1. locks' = locks /\ faults' = faults
      BY <1>3 DEF CalmAction, Issue, ServerAnswersCall, Receive, RetryAfterRefresh, RefreshFailed,
         RetryAfterRotation
    <2>2. LockInv'
      BY <1>2, <1>3, CalmActionLocks
    <2>3. CASE locks /\ faults = 0
      BY <1>1, <1>3, <2>1, <2>2, <2>3, CalmActionCookies DEF ReplayInv
    <2> QED
      BY <2>1, <2>2, <2>3 DEF ReplayInv
  <1>4. ASSUME NEW t \in Tabs, ServerChangesPassword(t)
        PROVE  ReplayInv'
    <2>1. UNCHANGED <<locks, faults>> /\ LockInv'
      BY <1>2, <1>4, ServerLocks DEF ServerChangesPassword
    <2> QED
      BY <1>4, <2>1, PasswordCookies DEF ReplayInv
  <1>5. ASSUME NEW t \in Tabs, ServerRefreshes(t)
        PROVE  ReplayInv'
    <2>1. UNCHANGED <<locks, faults>> /\ LockInv'
      BY <1>2, <1>5, ServerLocks DEF ServerRefreshes
    <2>2. CASE locks /\ faults = 0
      BY <1>1, <1>2, <1>5, <2>1, <2>2, RefreshCookies, RefusedCookies DEF ReplayInv
    <2> QED
      BY <2>1, <2>2 DEF ReplayInv
  <1>6. ASSUME NEW t \in Tabs, LockGranted(t)
        PROVE  ReplayInv'
    <2>1. UNCHANGED <<locks, faults, jar, newest, minPair, replayed>> /\ LockInv'
      BY <1>2, <1>6, GrantedLocks DEF LockGranted, server
    <2>2. CASE locks /\ faults = 0
      <3>1. CalmStep /\ JarStep
        BY <1>2, <1>6, <2>1, <2>2, GrantedLocks DEF JarStep
      <3> QED
        BY <1>1, <2>1, <2>2, <3>1, QuietCookies DEF ReplayInv
    <2> QED
      BY <2>1, <2>2 DEF ReplayInv
  <1>7. ASSUME NEW t \in Tabs, readLease(t) \/ waitForAnotherTab(t) \/ writeLease(t) \/ verifyLease(t)
        PROVE  ReplayInv'
    <2>1. locks' = locks /\ LockInv' /\ ~locks
      BY <1>2, <1>7, LeaseLocks DEF readLease, waitForAnotherTab, writeLease, verifyLease
    <2> QED
      BY <2>1 DEF ReplayInv
  <1>8. ASSUME NEW t \in Tabs, TabDies(t) \/ (\E k \in Kind : AnswerLost(t, k)) \/ HeartbeatLate(t)
        PROVE  ReplayInv'
    <2>1. LockInv'
      BY <1>2, <1>8, LossLocks DEF HeartbeatLate, LockInv
    <2>2. faults' # 0
      BY <1>2, <1>8 DEF TabDies, AnswerLost, HeartbeatLate
    <2> QED
      BY <2>1, <2>2 DEF ReplayInv
  <1>9. ASSUME UNCHANGED <<locks, jar, newest, minPair, replayed, req, phase, holder>>,
               faults' = faults \/ faults' = faults + 1
        PROVE  ReplayInv'
    <2>1. LockInv'
      BY <1>2, <1>9 DEF LockInv
    <2>2. faults' = 0 => faults = 0
      BY <1>2, <1>9
    <2>3. CookieInv => CookieInv'
      BY <1>9 DEF CookieInv, AnswersAreFresh, PresentedAreFresh, JarIsFresh, NewestIsOwedOnce, Owed,
         Presents, Fresh
    <2> QED
      BY <1>9, <2>1, <2>2, <2>3 DEF ReplayInv
  <1>10. CASE Next
    <2>1. ASSUME NEW t \in Tabs, RefreshStep(t)
          PROVE  ReplayInv'
      BY <2>1, <1>5, <1>6, <1>7 DEF RefreshStep
    <2>2. ASSUME NEW t \in Tabs, Heartbeat(t)
          PROVE  ReplayInv'
      BY <2>2, <1>9 DEF Heartbeat, server
    <2>3. ASSUME NEW t \in Tabs, NEW k \in Kind, Issue(t, k) \/ Step(t, k) \/ AnswerLost(t, k)
          PROVE  ReplayInv'
      BY <2>3, <1>3, <1>8 DEF Step, CalmAction
    <2>4. ASSUME NEW t \in Tabs, GraceEnds(t)
          PROVE  ReplayInv'
      BY <2>4, <1>9 DEF GraceEnds, server, storage
    <2>5. CASE AccessExpires \/ RevokedElsewhere \/ LeaseExpires
      BY <2>5, <1>9 DEF AccessExpires, RevokedElsewhere, LeaseExpires, server, storage
    <2> QED
      BY <1>4, <1>8, <1>10, <2>1, <2>2, <2>3, <2>4, <2>5 DEF Next
  <1>11. CASE UNCHANGED vars
    BY <1>9, <1>11 DEF vars, server, storage
  <1> QED
    BY <1>10, <1>11

\* However many tabs there are, and however their requests, retries, refreshes
\* and password changes interleave: where the browser has Web Locks and nothing is
\* lost, a tab that presents a refresh token presents the newest one, or one that
\* a password change has outdated (runCrossTabRefresh).
THEOREM TokensAreNotReplayed == Spec => []NoReplay
  <1>1. ReplayInv => NoReplay
    BY DEF ReplayInv, CookieInv, NoReplay
  <1> QED
    BY <1>1, InitTypeInv, NextTypeInv, InitReplayInv, NextReplayInv, PTL DEF Spec

-----------------------------------------------------------------------------
(* What a tab knows of its session *)

Answered(t, k) == req[t][k] # <<>> /\ Top(req[t][k]).at = "answered"

\* A pair on its way to the browser has not expired, and only a refresh or the
\* password change that was carried out brings one.
AnswersCarry ==
    \A t \in Tabs, k \in Kind : Answered(t, k) =>
        /\ Top(req[t][k]).status = "ok" => Top(req[t][k]).cookies > stale
        /\ Top(req[t][k]).cookies # 0 =>
              \/ k = "refresh"
              \/ k = "change" /\ t \in changed /\ Top(req[t][k]).cookies = minPair

\* A tab that relies on the refresh of another finds its cookies in the jar.
ResultsAreTrue ==
    \A t \in Tabs : phase[t] # "none" /\ rotationCompletedAfter(t) => jar > stale

ChangesArePending == \A t \in Tabs : ~Idle(t, "change") => pending[t]

\* Once the cookies of the change have been overtaken, no refresh that is out
\* brings them back.
OvertakenForGood ==
    Overtaken => \A t \in Tabs :
        /\ Presents(t) => Top(req[t]["refresh"]).pair < minPair
        /\ Answered(t, "refresh") => Top(req[t]["refresh"]).cookies < minPair

\* Nothing has happened that may sign the tab out.
Undisturbed(t) ==
    /\ locks /\ faults = 0 /\ alive /\ ~Overtaken
    /\ ~refused[t] /\ changed \subseteq {t}

\* Where the request of an undisturbed tab can be: its refresh meets no error,
\* and a retry after a rotation follows a password change.
FlagsFit(t, k) ==
    ~Idle(t, k) => LET f == Top(req[t][k]) IN
        /\ f.at # "failed"
        /\ k = "refresh" => /\ f.at \in {"sent", "answered", "rotating", "rotated"}
                            /\ f.status # "error"
        /\ f.rotation => changed # {} /\ (k = "refresh" \/ f.refresh)
        /\ f.at = "rotated" => ~ChangeUnderWay(t)

\* After the tab's refresh the jar holds an access token that has not expired.
JarServes(t, k) ==
    ~Idle(t, k) /\ k # "refresh" => LET f == Top(req[t][k]) IN
        f.refresh \/ f.at = "refreshed" => jar > stale

\* A request that is out carries an outdated pair only if a rotation may explain
\* it and the retry for that is left, and its retry after a refresh carries an
\* access token that has not expired.
PairsServe(t, k) ==
    ~Idle(t, k) => LET f == Top(req[t][k]) IN
        f.at \in {"sent", "answered"} =>
            /\ f.pair # 0
            /\ f.pair < minPair => ~f.rotation /\ RotationMayExplain(t)
            /\ f.refresh /\ k # "refresh" => f.pair > stale
            /\ f.refresh /\ k # "refresh" /\ f.at = "sent" => Len(req[t][k]) # 1
            /\ f.at = "answered" => f.status # "none"

\* A 401 has one of two reasons, and to a refresh only one.
RefusalsExplained(t, k) ==
    Answered(t, k) /\ Top(req[t][k]).status = "unauthorized" =>
        \/ Top(req[t][k]).pair < minPair
        \/ k # "refresh" /\ Top(req[t][k]).pair <= stale

Fits(t, k) == FlagsFit(t, k) /\ JarServes(t, k) /\ PairsServe(t, k) /\ RefusalsExplained(t, k)

Stays(t) == signedIn[t] /\ \A k \in Kind : Fits(t, k)

SessionFacts ==
    /\ AnswersCarry /\ ResultsAreTrue /\ ChangesArePending
    /\ changed = {} => minPair = 1
    /\ OvertakenForGood
    /\ \A t \in Tabs : Undisturbed(t) => Stays(t)

SessionInv == locks /\ faults = 0 => SessionFacts

\* The jar keeps its pair, or gets one that has not expired.
JarGood == jar' = jar \/ jar' > stale

LEMMA JarGets ==
  ASSUME TypeInv, AnswersCarry, JarStep
  PROVE  /\ JarGood
         /\ \/ jar' = jar \/ jar' = minPair
            \/ \E t \in Tabs : /\ Answered(t, "refresh") /\ jar' = Top(req[t]["refresh"]).cookies
                               /\ req'[t]["refresh"] # req[t]["refresh"]
  <1>1. ASSUME NEW t \in Tabs, NEW k \in Kind, req[t][k] # <<>>, Top(req[t][k]).at = "answered",
               jar' = Top(req[t][k]).cookies, jar' # 0, req'[t][k] # req[t][k]
        PROVE  /\ jar' > stale
               /\ \/ jar' = minPair
                  \/ /\ Answered(t, "refresh") /\ jar' = Top(req[t]["refresh"]).cookies
                     /\ req'[t]["refresh"] # req[t]["refresh"]
    <2>1. Answered(t, k) /\ Top(req[t][k]).status = "ok"
      BY <1>1, TopHere DEF Answered, Idle, FrameOk
    <2> QED
      BY <1>1, <2>1 DEF AnswersCarry
  <1> QED
    BY <1>1 DEF JarStep, JarGood

LEMMA QuietAnswers ==
  ASSUME TypeInv, AnswersCarry, CalmStep, UNCHANGED <<stale, minPair, changed>>
  PROVE  AnswersCarry' /\ \A t \in Tabs : ChangeUnderWay(t)' => ChangeUnderWay(t)
  <1>1. \A t \in Tabs, k \in Kind : Moves(req[t][k], req'[t][k], jar')
    BY DEF CalmStep
  <1>2. ASSUME NEW t \in Tabs, NEW k \in Kind, Answered(t, k)'
        PROVE  \/ req'[t][k] = req[t][k] /\ Answered(t, k)
               \/ Top(req'[t][k]).cookies = 0 /\ Top(req'[t][k]).status # "ok"
    BY <1>1, <1>2 DEF Answered, Moves, GoesOn, Refused
  <1>3. AnswersCarry'
    <2> SUFFICES ASSUME NEW t \in Tabs, NEW k \in Kind, Answered(t, k)'
                 PROVE  /\ Top(req'[t][k]).status = "ok" => Top(req'[t][k]).cookies > stale
                        /\ Top(req'[t][k]).cookies # 0 =>
                             \/ k = "refresh"
                             \/ k = "change" /\ t \in changed /\ Top(req'[t][k]).cookies = minPair
      BY DEF AnswersCarry
    <2> QED
      BY <1>2 DEF AnswersCarry
  <1>4. ASSUME NEW t \in Tabs, ChangeUnderWay(t)'
        PROVE  ChangeUnderWay(t)
    <2>1. "change" \in Kind /\ Answered(t, "change")' /\ Top(req'[t]["change"]).cookies # 0
      BY <1>4 DEF ChangeUnderWay, Answered, Idle, Kind
    <2> QED
      BY <1>2, <2>1 DEF ChangeUnderWay, Answered, Idle
  <1> QED
    BY <1>3, <1>4

LEMMA QuietOvertaken ==
  ASSUME TypeInv, TypeInv', LockInv, locks, AnswersCarry, OvertakenForGood, CalmStep, JarStep,
         UNCHANGED <<stale, minPair, changed>>
  PROVE  OvertakenForGood' /\ (Overtaken => Overtaken')
  <1>1. \A t \in Tabs, k \in Kind : Moves(req[t][k], req'[t][k], jar')
    BY DEF CalmStep
  <1>2. /\ minPair \in Nat \ {0} /\ jar \in Nat /\ jar' \in Nat /\ minPair' = minPair
        /\ "refresh" \in Kind /\ "change" \in Kind
    BY DEF TypeInv, TypeOK, Kind
  <1>3. ASSUME Overtaken
        PROVE  Overtaken'
    <2>1. jar' < minPair
      <3>1. CASE jar' = jar
        BY <1>3, <3>1 DEF Overtaken
      <3>2. ASSUME NEW t \in Tabs, NEW k \in Kind, req[t][k] # <<>>, Top(req[t][k]).at = "answered",
                   jar' = Top(req[t][k]).cookies, jar' # 0
            PROVE  jar' < minPair
        <4>1. k # "change"
          BY <1>3, <3>2 DEF Overtaken, ChangeUnderWay, Idle
        <4>2. k = "refresh"
          BY <3>2, <4>1 DEF AnswersCarry, Answered
        <4> QED
          BY <1>3, <3>2, <4>2 DEF OvertakenForGood, Answered
      <3> QED
        BY <3>1, <3>2 DEF JarStep
    <2>2. \A t \in Tabs : ~ChangeUnderWay(t)'
      BY <1>3, QuietAnswers DEF Overtaken
    <2> QED
      BY <1>2, <2>1, <2>2 DEF Overtaken
  \* The refresh that overtakes the change is the only one that is out.
  <1>4. ASSUME Overtaken', ~Overtaken, NEW t \in Tabs
        PROVE  \/ req'[t]["refresh"] # req[t]["refresh"]
               \/ req'[t]["refresh"] = <<>>
    <2>1. jar' < minPair
      BY <1>2, <1>4 DEF Overtaken
    <2>2. jar' # jar
      <3> SUFFICES ASSUME jar' = jar PROVE FALSE
        OBVIOUS
      <3>1. PICK u \in Tabs : ChangeUnderWay(u)
        BY <1>4, <2>1 DEF Overtaken
      <3>2. req'[u]["change"] # req[u]["change"]
        BY <1>4, <3>1 DEF Overtaken, ChangeUnderWay, Idle
      <3>3. Handled(req[u]["change"], jar')
        BY <1>1, <1>2, <3>2 DEF Moves
      <3>4. Top(req[u]["change"]).cookies = jar'
        BY <3>1, <3>3 DEF ChangeUnderWay, Handled, Idle
      <3>5. Top(req[u]["change"]).cookies = minPair
        BY <1>2, <3>1 DEF ChangeUnderWay, AnswersCarry, Answered, Idle
      <3> QED
        BY <1>2, <2>1, <3>4, <3>5
    <2>3. PICK u \in Tabs : Answered(u, "refresh") /\ req'[u]["refresh"] # req[u]["refresh"]
      BY <1>2, <2>1, <2>2, JarGets
    <2>4. req[t]["refresh"] # <<>> => t = u
      BY <2>3 DEF LockInv, Answered
    <2> QED
      BY <2>3, <2>4
  <1>5. OvertakenForGood'
    <2> SUFFICES ASSUME Overtaken', NEW t \in Tabs
                 PROVE  /\ Presents(t)' => Top(req'[t]["refresh"]).pair < minPair
                        /\ Answered(t, "refresh")' => Top(req'[t]["refresh"]).cookies < minPair
      BY <1>2 DEF OvertakenForGood
    <2>1. jar' < minPair
      BY <1>2 DEF Overtaken
    <2>2. Moves(req[t]["refresh"], req'[t]["refresh"], jar')
      BY <1>1, <1>2
    <2>3. CASE req'[t]["refresh"] = <<>>
      BY <2>3 DEF Presents, Answered
    <2>4. CASE GoesOn(req'[t]["refresh"], jar') \/ Refused(req'[t]["refresh"])
      BY <1>2, <2>1, <2>4 DEF Presents, Answered, GoesOn, Refused
    <2>5. CASE req'[t]["refresh"] = req[t]["refresh"] /\ Overtaken
      BY <2>5 DEF OvertakenForGood, Presents, Answered
    <2> QED
      BY <1>4, <2>2, <2>3, <2>4, <2>5 DEF Moves
  <1> QED
    BY <1>3, <1>5

LEMMA ResultsStay ==
  ASSUME ResultsAreTrue, JarGood, stale' = stale,
         result' = result \/ ~result'.success \/ jar' > stale,
         \A u \in Tabs : phase'[u] # "none" =>
            (phase[u] # "none" /\ before'[u] = before[u]) \/ before'[u] = result'.epoch
  PROVE  ResultsAreTrue'
  <1> SUFFICES ASSUME NEW u \in Tabs, phase'[u] # "none",
                      result'.epoch # before'[u], result'.success
               PROVE  jar' > stale
    BY DEF ResultsAreTrue, rotationCompletedAfter
  <1>1. CASE jar' > stale
    BY <1>1
  <1>2. CASE ~(jar' > stale)
    <2>1. result' = result /\ phase[u] # "none" /\ before'[u] = before[u] /\ jar' = jar
      BY <1>2 DEF JarGood
    <2> QED
      BY <2>1 DEF ResultsAreTrue, rotationCompletedAfter
  <1> QED
    BY <1>1, <1>2

\* The jar of an undisturbed tab is outdated only while the answer of its own
\* password change is on its way.
LEMMA BehindIsPending ==
  ASSUME AnswersCarry, ChangesArePending, NEW t \in Tabs, Undisturbed(t), jar < minPair
  PROVE  ChangeUnderWay(t) /\ pending[t]
  <1>1. PICK u \in Tabs : ChangeUnderWay(u)
    BY DEF Undisturbed, Overtaken
  <1>2. u \in changed
    BY <1>1 DEF AnswersCarry, ChangeUnderWay, Answered, Idle, Kind
  <1>3. u = t
    BY <1>2 DEF Undisturbed
  <1> QED
    BY <1>1, <1>3 DEF ChangesArePending, ChangeUnderWay

LEMMA KeptFits ==
  ASSUME NEW t \in Tabs, NEW k \in Kind, Fits(t, k), req'[t][k] = req[t][k], JarGood,
         UNCHANGED <<minPair, stale, changed>>,
         RotationMayExplain(t) => RotationMayExplain(t)', ChangeUnderWay(t)' => ChangeUnderWay(t)
  PROVE  Fits(t, k)'
  <1>1. FlagsFit(t, k)'
    BY DEF Fits, FlagsFit, Idle
  <1>2. JarServes(t, k)'
    BY DEF Fits, JarServes, Idle, JarGood
  <1>3. PairsServe(t, k)'
    BY DEF Fits, PairsServe, Idle
  <1>4. RefusalsExplained(t, k)'
    BY DEF Fits, RefusalsExplained, Answered
  <1> QED
    BY <1>1, <1>2, <1>3, <1>4 DEF Fits

\* What Wake makes of a stack.
LEMMA WokenTop ==
  ASSUME TypeInv, NEW t \in Tabs, NEW k \in Kind, NEW ok \in BOOLEAN, NEW j \in Kind
  PROVE  LET s == req[t][j]
             w == Wake(t, k, ok)[j]
         IN  \/ j = k /\ w = <<>>
             \/ j # k /\ w = s
             \/ /\ j # k /\ k # "call" /\ s # <<>> /\ w # <<>> /\ Len(w) = Len(s)
                /\ Top(s).at = IF k = "refresh" THEN "refreshing" ELSE "rotating"
                /\ Top(w).at = IF k # "refresh" THEN "rotated" ELSE IF ok THEN "refreshed" ELSE "failed"
                /\ Top(w).refresh = Top(s).refresh /\ Top(w).rotation = Top(s).rotation
                /\ Top(w).status = Top(s).status /\ Top(w).pair = Top(s).pair
  <1> DEFINE awaited == IF k = "refresh" THEN "refreshing" ELSE "rotating"
             then    == IF k # "refresh" THEN "rotated" ELSE IF ok THEN "refreshed" ELSE "failed"
             f == [Top(req[t][j]) EXCEPT !.at = then]
  <1>1. newest \in Nat /\ Stack(newest, req[t][j]) /\ then \in At
    BY TypesHere DEF At
  <1>2. Wake(t, k, ok)[j] = IF j = k THEN <<>>
                            ELSE IF k # "call" /\ ~Idle(t, j) /\ Top(req[t][j]).at = awaited
                            THEN WithTop(req[t][j], f) ELSE req[t][j]
    BY DEF Wake
  <1>3. ASSUME j # k, k # "call", ~Idle(t, j), Top(req[t][j]).at = awaited
        PROVE  LET s == req[t][j]
                   w == WithTop(req[t][j], f)
               IN  /\ s # <<>> /\ w # <<>> /\ Len(w) = Len(s) /\ Top(w).at = then
                   /\ Top(w).refresh = Top(s).refresh /\ Top(w).rotation = Top(s).rotation
                   /\ Top(w).status = Top(s).status /\ Top(w).pair = Top(s).pair
    <2>1. req[t][j] # <<>> /\ Top(req[t][j]) \in FrameUpTo(newest)
      BY <1>1, <1>3, TopOk DEF Idle
    <2> HIDE DEF then, awaited
    <2>2. /\ f \in FrameUpTo(newest) /\ f.at = then /\ f.refresh = Top(req[t][j]).refresh
          /\ f.rotation = Top(req[t][j]).rotation /\ f.status = Top(req[t][j]).status
          /\ f.pair = Top(req[t][j]).pair
      BY <1>1, <2>1, FrameMoves
    <2> HIDE DEF f
    <2>3. /\ WithTop(req[t][j], f) # <<>> /\ Top(WithTop(req[t][j], f)) = f
          /\ Len(WithTop(req[t][j], f)) = Len(req[t][j])
      BY <1>1, <2>1, <2>2, WithTopFacts DEF Stack
    <2> QED
      BY <2>1, <2>2, <2>3
  <1> HIDE DEF f
  <1> QED
    BY <1>2, <1>3 DEF Idle

\* Whoever is woken: by a refresh, with fresh cookies in the jar.
LEMMA WokenFits ==
  ASSUME TypeInv, NEW t \in Tabs, NEW k \in Kind, NEW ok \in BOOLEAN, NEW j \in Kind,
         req' = [req EXCEPT ![t] = Wake(t, k, ok)], Fits(t, j), JarGood,
         UNCHANGED <<minPair, stale, changed>>,
         RotationMayExplain(t) => RotationMayExplain(t)', ChangeUnderWay(t)' => ChangeUnderWay(t),
         k = "refresh" => ok /\ jar' > stale
  PROVE  Fits(t, j)'
  <1>1. req'[t] = Wake(t, k, ok)
    BY DEF TypeInv, StacksInv
  <1>2. CASE req'[t][j] = <<>>
    BY <1>2 DEF Fits, FlagsFit, JarServes, PairsServe, RefusalsExplained, Idle, Answered
  <1>3. CASE req'[t][j] = req[t][j]
    BY <1>3, KeptFits
  <1>4. CASE /\ j # k /\ k # "call" /\ req[t][j] # <<>> /\ req'[t][j] # <<>>
             /\ Top(req'[t][j]).at = IF k # "refresh" THEN "rotated" ELSE IF ok THEN "refreshed" ELSE "failed"
             /\ Top(req'[t][j]).refresh = Top(req[t][j]).refresh
             /\ Top(req'[t][j]).rotation = Top(req[t][j]).rotation
             /\ Top(req'[t][j]).status = Top(req[t][j]).status
    <2>1. Top(req'[t][j]).at \in {"rotated", "refreshed"}
      BY <1>4
    <2>2. Top(req'[t][j]).at = "rotated" => ~ChangeUnderWay(t)'
      <3>1. Top(req'[t][j]).at = "rotated" => k = "change"
        BY <1>4 DEF Kind
      <3>2. k = "change" => req'[t]["change"] = <<>>
        BY <1>1, WokenStacks
      <3> QED
        BY <3>1, <3>2 DEF ChangeUnderWay, Idle
    <2>3. FlagsFit(t, j)'
      BY <1>4, <2>1, <2>2 DEF Fits, FlagsFit, Idle
    <2>4. JarServes(t, j)'
      BY <1>4 DEF Fits, JarServes, Idle, JarGood
    <2> QED
      BY <2>1, <2>3, <2>4 DEF Fits, PairsServe, RefusalsExplained, Answered
  <1> QED
    BY <1>1, <1>2, <1>3, <1>4, WokenTop

\* A request that leaves with the cookies of the moment.
LEMMA SentFits ==
  ASSUME NEW t \in Tabs, NEW k \in Kind, NEW r \in BOOLEAN, NEW o \in BOOLEAN,
         req'[t][k] # <<>>, Top(req'[t][k]) = Send(r, o, jar'), jar' # 0,
         o => changed' # {} /\ (k = "refresh" \/ r) /\ ~(jar' < minPair'),
         jar' < minPair' => RotationMayExplain(t)',
         r /\ k # "refresh" => jar' > stale' /\ Len(req'[t][k]) # 1
  PROVE  Fits(t, k)'
  <1>1. /\ Top(req'[t][k]).refresh = r /\ Top(req'[t][k]).rotation = o
        /\ Top(req'[t][k]).at = "sent" /\ Top(req'[t][k]).pair = jar'
        /\ Top(req'[t][k]).status = "none"
    BY DEF Send
  <1>2. FlagsFit(t, k)'
    BY <1>1 DEF FlagsFit
  <1>3. JarServes(t, k)'
    BY <1>1 DEF JarServes
  <1>4. PairsServe(t, k)'
    BY <1>1 DEF PairsServe
  <1>5. RefusalsExplained(t, k)'
    BY <1>1 DEF RefusalsExplained, Answered
  <1> QED
    BY <1>2, <1>3, <1>4, <1>5 DEF Fits

\* The answer takes the place of the request, which keeps its flags and pair.
LEMMA AnsweredTop ==
  ASSUME TypeInv, NEW t \in Tabs, NEW k \in Kind, ~Idle(t, k), newest' >= newest, newest' \in Nat,
         NEW st \in Status, NEW c \in 0..newest', st # "ok" => c = 0, Answer(t, k, st, c)
  PROVE  /\ req'[t][k] # <<>> /\ Len(req'[t][k]) = Len(req[t][k])
         /\ Top(req'[t][k]).at = "answered" /\ Top(req'[t][k]).cookies = c
         /\ Top(req'[t][k]).status = st /\ Top(req'[t][k]).refresh = Top(req[t][k]).refresh
         /\ Top(req'[t][k]).rotation = Top(req[t][k]).rotation
         /\ Top(req'[t][k]).pair = Top(req[t][k]).pair
         /\ \A u \in Tabs, j \in Kind : u # t \/ j # k => req'[u][j] = req[u][j]
  <1> DEFINE n == newest'
  <1>1. n \in Nat /\ newest <= n /\ c \in 0..n
    BY TypesHere
  <1> HIDE DEF n
  <1>2. PICK s : /\ Becomes(t, k, s) /\ s # <<>> /\ Len(s) = Len(req[t][k])
                 /\ Top(s).at = "answered" /\ Top(s).cookies = c /\ Top(s).status = st
                 /\ Top(s).refresh = Top(req[t][k]).refresh
                 /\ Top(s).rotation = Top(req[t][k]).rotation /\ Top(s).pair = Top(req[t][k]).pair
    BY <1>1, AnsweredStack
  <1>3. req'[t][k] = s /\ \A u \in Tabs, j \in Kind : u # t \/ j # k => req'[u][j] = req[u][j]
    BY <1>2 DEF Becomes, TypeInv, StacksInv
  <1> QED
    BY <1>2, <1>3

-----------------------------------------------------------------------------
(* The requests of an undisturbed tab *)

LEMMA RotationTop ==
  ASSUME TypeInv, NEW t \in Tabs, NEW s, Stack(newest, s), s # <<>>
  PROVE  LET z == TakeRotationBranch(t, s) IN
         /\ z # <<>>
         /\ pending[t] => /\ Top(z).at = "rotating" /\ Top(z).rotation
                          /\ Top(z).refresh = Top(s).refresh /\ Top(z).status = Top(s).status
         /\ ~pending[t] => Top(z) = Send(Top(s).refresh, TRUE, jar) /\ Len(z) = Len(s) + 1
  <1>1. newest \in Nat /\ jar \in 0..newest /\ Top(s) \in FrameUpTo(newest) /\ s \in Seq(FrameUpTo(newest))
    BY TypesHere, TopOk DEF Stack
  <1> DEFINE a == IF pending[t] THEN "rotating" ELSE "again"
             f == RotatedFrame(Top(s), a)
             g == Send(Top(s).refresh, TRUE, jar)
  <1>2. a \in At
    BY DEF At
  <1>3. pending[t] => a = "rotating"
    OBVIOUS
  <1> HIDE DEF a
  <1>4. /\ f \in FrameUpTo(newest) /\ f.at = a /\ f.refresh = Top(s).refresh /\ f.rotation
        /\ f.status = Top(s).status
    BY <1>1, <1>2, FrameRotates
  <1>5. g \in FrameUpTo(newest)
    BY <1>1, FrameFields
  <1>6. TakeRotationBranch(t, s) = IF pending[t] THEN WithTop(s, f) ELSE Sending(s, f, g)
    <2>1. f.refresh = Top(s).refresh
      BY <1>4
    <2> QED
      BY <2>1 DEF TakeRotationBranch, RotatedFrame, a
  <1> HIDE DEF f, g
  <1>7. WithTop(s, f) # <<>> /\ Top(WithTop(s, f)) = f
    BY <1>1, <1>4, WithTopFacts
  <1>8. Sending(s, f, g) # <<>> /\ Top(Sending(s, f, g)) = g /\ Len(Sending(s, f, g)) = Len(s) + 1
    BY <1>1, <1>4, <1>5, SendingFacts
  <1> QED
    BY <1>3, <1>4, <1>6, <1>7, <1>8 DEF g

LEMMA ReceiveOutcomes ==
  ASSUME NEW t \in Tabs, NEW k \in Kind, Receive(t, k)
  PROVE  LET s == req[t][k]
             f == Top(s)
             denied == f.status = "unauthorized"
             starts == denied /\ k # "refresh" /\ ~f.refresh
             waits  == denied /\ ~starts /\ MayWaitForRotation(t, f)
         IN  \/ /\ starts /\ Becomes(t, k, WithTop(s, [f EXCEPT !.at = "refreshing"]))
                /\ \/ UNCHANGED <<phase, before>>
                   \/ /\ phase[t] = "none" /\ before' = [before EXCEPT ![t] = result.epoch]
                      /\ phase' = [phase EXCEPT ![t] = IF locks THEN "queued" ELSE "read"]
                /\ UNCHANGED <<storage, guard, signedIn>>
             \/ /\ waits /\ Becomes(t, k, TakeRotationBranch(t, s))
                /\ UNCHANGED <<phase, before, storage, guard, signedIn>>
             \/ ~starts /\ ~waits /\ f.status = "ok" /\ Settle(t, k, <<>>, TRUE) /\ UNCHANGED signedIn
             \/ /\ ~starts /\ ~waits /\ f.status # "ok" /\ Settle(t, k, Unwound(t, s), FALSE)
                /\ SignOut(t, SignsOut(t, s, denied))
  <1> DEFINE s == req[t][k]
             f == Top(s)
             denied == f.status = "unauthorized"
             starts == denied /\ isEligibleForRefresh(k) /\ ~f.refresh
             waits  == denied /\ ~starts /\ MayWaitForRotation(t, f)
  <1>1. isEligibleForRefresh(k) <=> k # "refresh"
    BY DEF isEligibleForRefresh
  <1>2. CASE starts
    BY <1>1, <1>2 DEF Receive
  <1>3. CASE waits
    BY <1>1, <1>3 DEF Receive
  <1>4. CASE ~starts /\ ~waits /\ f.status = "ok"
    BY <1>1, <1>4 DEF Receive
  <1>5. CASE ~starts /\ ~waits /\ f.status # "ok"
    BY <1>1, <1>5 DEF Receive
  <1> QED
    BY <1>2, <1>3, <1>4, <1>5

\* What a settled request leaves alone.
LEMMA SettleKeeps ==
  ASSUME TypeInv, NEW t \in Tabs, NEW k \in Kind, NEW ok \in BOOLEAN, NEW s, Settle(t, k, s, ok)
  PROVE  /\ \A u \in Tabs : /\ RotationMayExplain(u) => RotationMayExplain(u)'
                            /\ u # t => req'[u] = req[u] /\ pending'[u] = pending[u]
                            /\ pending'[t] = pending[t] \/ (k = "change" /\ req'[t]["change"] = <<>>)
  <1>1. /\ pending \in [Tabs -> BOOLEAN] /\ recent \in [Tabs -> BOOLEAN]
        /\ req \in [Tabs -> [Kind -> Seq(FrameUpTo(newest))]]
    BY DEF TypeInv, TypeOK, StacksInv
  <1>2. \A u \in Tabs : u # t => req'[u] = req[u]
    BY <1>1 DEF Settle, Becomes
  <1>3. CASE s = <<>> /\ k = "change"
    <2>1. req' = [req EXCEPT ![t] = Wake(t, k, ok)] /\ Wake(t, k, ok)[k] = <<>>
      BY <1>3, WokenStacks DEF Settle
    <2>2. req'[t]["change"] = <<>>
      BY <1>1, <1>3, <2>1
    <2>3. pending' = [pending EXCEPT ![t] = FALSE] /\ recent' = [recent EXCEPT ![t] = TRUE]
      BY <1>3 DEF Settle, SettleChange
    <2> QED
      BY <1>1, <1>2, <1>3, <2>2, <2>3 DEF RotationMayExplain
  <1>4. CASE ~(s = <<>> /\ k = "change")
    <2>1. pending' = pending /\ recent' = recent
      BY <1>4 DEF Settle, guard
    <2> QED
      BY <1>2, <2>1 DEF RotationMayExplain
  <1> QED
    BY <1>3, <1>4

\* How a step of tab t leaves the other tabs, and what it must keep.
LEMMA CalmActionGuard ==
  ASSUME TypeInv, NEW t \in Tabs, NEW k \in Kind, CalmAction(t, k)
  PROVE  /\ \A u \in Tabs : /\ RotationMayExplain(u) => RotationMayExplain(u)'
                            /\ u # t => /\ req'[u] = req[u] /\ signedIn'[u] = signedIn[u]
                                        /\ refused'[u] = refused[u] /\ pending'[u] = pending[u]
                            /\ refused[u] => refused'[u]
         /\ req'[t]["change"] # <<>> =>
              (req[t]["change"] # <<>> /\ pending'[t] = pending[t]) \/ pending'[t]
  <1>1. /\ pending \in [Tabs -> BOOLEAN] /\ signedIn \in [Tabs -> BOOLEAN]
        /\ refused \in [Tabs -> BOOLEAN] /\ req \in [Tabs -> [Kind -> Seq(FrameUpTo(newest))]]
    BY DEF TypeInv, TypeOK, StacksInv
  <1>2. CASE Issue(t, k)
    <2>1. /\ req' = [req EXCEPT ![t][k] = <<Send(FALSE, FALSE, jar)>>] /\ recent' = recent
          /\ pending' = (IF k = "change" THEN [pending EXCEPT ![t] = TRUE] ELSE pending)
          /\ UNCHANGED <<signedIn, refused>>
      BY <1>2 DEF Issue, Becomes
    <2>2. "change" \in Kind
      BY DEF Kind
    <2> QED
      BY <1>1, <2>1, <2>2 DEF RotationMayExplain
  <1>3. CASE ServerAnswersCall(t, k) \/ RetryAfterRefresh(t, k) \/ RetryAfterRotation(t, k)
    <2>1. /\ UNCHANGED <<guard, signedIn, refused>> /\ ~Idle(t, k)
          /\ \E s : Becomes(t, k, s)
      BY <1>3 DEF ServerAnswersCall, RetryAfterRefresh, RetryAfterRotation, Answer, Sent
    <2>2. "change" \in Kind
      BY DEF Kind
    <2> QED
      BY <1>1, <2>1, <2>2 DEF RotationMayExplain, guard, Becomes, Idle
  <1>4. CASE RefreshFailed(t, k) \/ Receive(t, k)
    <2>1. /\ ~Idle(t, k) /\ "change" \in Kind
          /\ refused' = refused \/ refused' = [refused EXCEPT ![t] = TRUE]
      <3>1. "change" \in Kind
        BY DEF Kind
      <3>2. CASE RefreshFailed(t, k)
        BY <3>1, <3>2 DEF RefreshFailed
      <3>3. CASE Receive(t, k)
        BY <3>1, <3>3 DEF Receive
      <3> QED
        BY <1>4, <3>2, <3>3
    <2>2. \A u \in Tabs : (u # t => refused'[u] = refused[u]) /\ (refused[u] => refused'[u])
      BY <1>1, <2>1
    <2> DEFINE G ==
          /\ \A u \in Tabs : /\ RotationMayExplain(u) => RotationMayExplain(u)'
                             /\ u # t => /\ req'[u] = req[u] /\ signedIn'[u] = signedIn[u]
                                         /\ pending'[u] = pending[u]
          /\ req'[t]["change"] # <<>> => req[t]["change"] # <<>> /\ pending'[t] = pending[t]
    <2>3. ASSUME NEW s, Becomes(t, k, s), UNCHANGED <<guard, signedIn>>
          PROVE  G
      BY <1>1, <2>1, <2>3 DEF RotationMayExplain, guard, Becomes, Idle
    <2>4. ASSUME NEW s, NEW ok \in BOOLEAN, Settle(t, k, s, ok),
                 \A u \in Tabs : u # t => signedIn'[u] = signedIn[u]
          PROVE  G
      <3>1. req'[t]["change"] # <<>> => req[t]["change"] # <<>>
        <4>1. CASE s = <<>>
          <5>1. req' = [req EXCEPT ![t] = Wake(t, k, ok)]
            BY <2>4, <4>1 DEF Settle
          <5>2. req'[t]["change"] = Wake(t, k, ok)["change"]
            BY <1>1, <5>1
          <5>3. Wake(t, k, ok)["change"] # <<>> => req[t]["change"] # <<>>
            BY <2>1, WokenStacks
          <5> QED
            BY <5>2, <5>3
        <4>2. CASE s # <<>>
          BY <1>1, <2>1, <2>4, <4>2 DEF Settle, Becomes, Idle
        <4> QED
          BY <4>1, <4>2
      <3> QED
        BY <2>4, <3>1, SettleKeeps
    <2>5. \A out : SignOut(t, out) => \A u \in Tabs : u # t => signedIn'[u] = signedIn[u]
      BY <1>1 DEF SignOut
    <2> HIDE DEF G
    <2>6. ASSUME RefreshFailed(t, k) PROVE G
      <3>1. \/ Becomes(t, k, TakeRotationBranch(t, req[t][k])) /\ UNCHANGED <<guard, signedIn>>
            \/ Settle(t, k, Unwound(t, req[t][k]), FALSE) /\ SignOut(t, TRUE)
        BY <2>6 DEF RefreshFailed
      <3>2. CASE Becomes(t, k, TakeRotationBranch(t, req[t][k])) /\ UNCHANGED <<guard, signedIn>>
        BY <2>3, <3>2
      <3>3. CASE Settle(t, k, Unwound(t, req[t][k]), FALSE) /\ SignOut(t, TRUE)
        <4>1. \A u \in Tabs : u # t => signedIn'[u] = signedIn[u]
          BY <2>5, <3>3
        <4> QED
          BY <2>4, <3>3, <4>1
      <3> QED
        BY <3>1, <3>2, <3>3
    <2>7. ASSUME Receive(t, k) PROVE G
      <3> DEFINE o == req[t][k]
                 f == Top(o)
      <3>1. \/ Becomes(t, k, WithTop(o, [f EXCEPT !.at = "refreshing"])) /\ UNCHANGED <<guard, signedIn>>
            \/ Becomes(t, k, TakeRotationBranch(t, o)) /\ UNCHANGED <<guard, signedIn>>
            \/ Settle(t, k, <<>>, TRUE) /\ UNCHANGED signedIn
            \/ Settle(t, k, Unwound(t, o), FALSE) /\ SignOut(t, SignsOut(t, o, f.status = "unauthorized"))
        BY <2>7, ReceiveOutcomes
      <3> HIDE DEF f, o
      <3>2. CASE \/ Becomes(t, k, WithTop(o, [f EXCEPT !.at = "refreshing"])) /\ UNCHANGED <<guard, signedIn>>
                 \/ Becomes(t, k, TakeRotationBranch(t, o)) /\ UNCHANGED <<guard, signedIn>>
        BY <2>3, <3>2
      <3>3. CASE Settle(t, k, <<>>, TRUE) /\ UNCHANGED signedIn
        BY <2>4, <3>3
      <3>4. CASE Settle(t, k, Unwound(t, o), FALSE) /\ SignOut(t, SignsOut(t, o, f.status = "unauthorized"))
        <4>1. \A u \in Tabs : u # t => signedIn'[u] = signedIn[u]
          BY <2>5, <3>4
        <4> QED
          BY <2>4, <3>4, <4>1
      <3> QED
        BY <3>1, <3>2, <3>3, <3>4
    <2>8. G
      BY <1>4, <2>6, <2>7
    <2> QED
      BY <2>2, <2>8 DEF G
  <1> QED
    BY <1>2, <1>3, <1>4 DEF CalmAction

LEMMA CalmActionFacts ==
  ASSUME TypeInv, AnswersCarry, NEW t \in Tabs, NEW k \in Kind, CalmAction(t, k)
  PROVE  /\ CalmStep /\ JarStep /\ JarGood
         /\ UNCHANGED <<locks, faults, open, newest, minPair, stale, alive, changed, replayed>>
         /\ \A u \in Tabs : ChangeUnderWay(u)' => ChangeUnderWay(u)
  <1>1. CalmStep /\ JarStep /\ JarGood
    BY CalmActions, CalmActionJar, JarGets DEF Calm
  <1>2. UNCHANGED <<locks, faults, open, newest, minPair, stale, alive, changed, replayed>>
    BY DEF CalmAction, Issue, ServerAnswersCall, Receive, RetryAfterRefresh, RefreshFailed,
       RetryAfterRotation, server
  <1> QED
    BY <1>1, <1>2, QuietAnswers

LEMMA IdleFits ==
  ASSUME NEW t \in Tabs, NEW k \in Kind, req'[t][k] = <<>>
  PROVE  Fits(t, k)'
  BY DEF Fits, FlagsFit, JarServes, PairsServe, RefusalsExplained, Idle, Answered

LEMMA BecomesHere ==
  ASSUME TypeInv, NEW t \in Tabs, NEW k \in Kind, NEW s, Becomes(t, k, s)
  PROVE  req'[t][k] = s /\ \A j \in Kind : j # k => req'[t][j] = req[t][j]
  <1>1. req \in [Tabs -> [Kind -> Seq(FrameUpTo(newest))]]
    BY DEF TypeInv, StacksInv
  <1> QED
    BY <1>1 DEF Becomes

LEMMA IssueFits ==
  ASSUME TypeInv, AnswersCarry, ChangesArePending, NEW t \in Tabs, NEW k \in Kind, Undisturbed(t),
         Issue(t, k)
  PROVE  Fits(t, k)' /\ \A j \in Kind : j # k => req'[t][j] = req[t][j]
  <1>1. /\ Becomes(t, k, <<Send(FALSE, FALSE, jar)>>) /\ jar' = jar /\ minPair' = minPair /\ CalmAction(t, k)
    BY DEF Issue, server, CalmAction
  <1>2. req'[t][k] = <<Send(FALSE, FALSE, jar)>> /\ \A j \in Kind : j # k => req'[t][j] = req[t][j]
    BY <1>1, BecomesHere
  <1>3. req'[t][k] # <<>> /\ Top(req'[t][k]) = Send(FALSE, FALSE, jar')
    BY <1>1, <1>2 DEF Top
  <1>4. jar' # 0
    BY <1>1 DEF TypeInv, TypeOK
  <1>5. jar' < minPair' => RotationMayExplain(t)'
    <2>1. jar < minPair => RotationMayExplain(t)
      BY BehindIsPending DEF RotationMayExplain
    <2> QED
      BY <1>1, <2>1, CalmActionGuard
  <1>6. FALSE \in BOOLEAN
    OBVIOUS
  <1> QED
    BY <1>2, <1>3, <1>4, <1>5, <1>6, SentFits

\* An answer fits where its request did.
LEMMA AnsweredFits ==
  ASSUME NEW t \in Tabs, NEW k \in Kind, NEW st, Fits(t, k),
         req[t][k] # <<>>, Top(req[t][k]).at = "sent",
         req'[t][k] # <<>>, Top(req'[t][k]).at = "answered", Top(req'[t][k]).status = st,
         Top(req'[t][k]).refresh = Top(req[t][k]).refresh,
         Top(req'[t][k]).rotation = Top(req[t][k]).rotation,
         Top(req'[t][k]).pair = Top(req[t][k]).pair,
         ~(k = "refresh" /\ st = "error"), st # "none",
         st = "unauthorized" => Top(req[t][k]).pair < minPair \/ (k # "refresh" /\ Top(req[t][k]).pair <= stale),
         UNCHANGED <<jar, minPair, stale, changed>>,
         RotationMayExplain(t) => RotationMayExplain(t)'
  PROVE  Fits(t, k)'
  <1>1. FlagsFit(t, k)'
    BY DEF Fits, FlagsFit, Idle
  <1>2. JarServes(t, k)'
    BY DEF Fits, JarServes, Idle
  <1>3. PairsServe(t, k)'
    BY DEF Fits, PairsServe, Idle
  <1>4. RefusalsExplained(t, k)'
    BY DEF RefusalsExplained, Answered
  <1> QED
    BY <1>1, <1>2, <1>3, <1>4 DEF Fits

LEMMA ServerAnswersCallFits ==
  ASSUME TypeInv, AnswersCarry, NEW t \in Tabs, NEW k \in Kind, Undisturbed(t), Fits(t, k),
         ServerAnswersCall(t, k)
  PROVE  Fits(t, k)' /\ \A j \in Kind : j # k => req'[t][j] = req[t][j]
  <1>1. /\ ~Idle(t, k) /\ Top(req[t][k]).at = "sent" /\ k # "refresh" /\ CalmAction(t, k)
        /\ UNCHANGED <<jar, newest, minPair, stale, changed, pending, recent>>
    BY DEF ServerAnswersCall, Sent, server, guard, CalmAction
  <1>2. /\ newest' \in Nat /\ newest' >= newest /\ 0 \in 0..newest' /\ alive
        /\ minPair \in Nat /\ stale \in Nat
        /\ "error" \in Status /\ "unauthorized" \in Status /\ "error" # "ok" /\ "unauthorized" # "ok"
    BY <1>1, TypesHere DEF Status, Undisturbed, TypeInv, TypeOK
  <1>3. ASSUME NEW st \in {"error", "unauthorized"}, Answer(t, k, st, 0),
               st = "unauthorized" => ~AccessOk(Top(req[t][k]).pair)
        PROVE  Fits(t, k)' /\ \A j \in Kind : j # k => req'[t][j] = req[t][j]
    <2>1. /\ req'[t][k] # <<>> /\ req[t][k] # <<>> /\ Top(req'[t][k]).at = "answered"
          /\ Top(req'[t][k]).status = st /\ Top(req'[t][k]).refresh = Top(req[t][k]).refresh
          /\ Top(req'[t][k]).rotation = Top(req[t][k]).rotation
          /\ Top(req'[t][k]).pair = Top(req[t][k]).pair
          /\ \A u \in Tabs, j \in Kind : u # t \/ j # k => req'[u][j] = req[u][j]
      BY <1>1, <1>2, <1>3, AnsweredTop DEF Idle
    <2>2. Top(req[t][k]).pair \in Nat
      BY <1>1, TopHere
    <2>3. st = "unauthorized" => Top(req[t][k]).pair < minPair \/ Top(req[t][k]).pair <= stale
      BY <1>2, <1>3, <2>2 DEF AccessOk
    <2>4. UNCHANGED <<jar, minPair, stale, changed>> /\ ~(k = "refresh" /\ st = "error") /\ st # "none"
          /\ (RotationMayExplain(t) => RotationMayExplain(t)')
      BY <1>1, <1>3, CalmActionFacts, CalmActionGuard
    <2>5. st = "unauthorized" => Top(req[t][k]).pair < minPair \/ (k # "refresh" /\ Top(req[t][k]).pair <= stale)
      BY <1>1, <2>3
    <2> QED
      BY <1>1, <2>1, <2>4, <2>5, AnsweredFits
  <1>4. CASE Answer(t, k, "error", 0)
    BY <1>3, <1>4
  <1>5. CASE Answer(t, k, "unauthorized", 0) /\ ~AccessOk(Top(req[t][k]).pair)
    BY <1>3, <1>5
  <1>6. CASE Becomes(t, k, <<>>)
    <2>1. req'[t][k] = <<>> /\ \A j \in Kind : j # k => req'[t][j] = req[t][j]
      BY <1>6 DEF Becomes, TypeInv, StacksInv
    <2> QED
      BY <2>1, IdleFits
  <1> QED
    BY <1>4, <1>5, <1>6 DEF ServerAnswersCall

LEMMA RetryAfterRefreshFits ==
  ASSUME TypeInv, AnswersCarry, ChangesArePending, NEW t \in Tabs, NEW k \in Kind, Undisturbed(t),
         Fits(t, k), RetryAfterRefresh(t, k)
  PROVE  Fits(t, k)' /\ \A j \in Kind : j # k => req'[t][j] = req[t][j]
  <1> DEFINE o == req[t][k]
             f == [Top(o) EXCEPT !.at = "retrying", !.refresh = TRUE]
             g == Send(TRUE, Top(o).rotation, jar)
             s == Sending(o, f, g)
  <1>1. /\ ~Idle(t, k) /\ Top(o).at = "refreshed" /\ Becomes(t, k, s) /\ CalmAction(t, k)
        /\ UNCHANGED <<jar, newest, minPair, stale, changed, pending, recent>>
    BY DEF RetryAfterRefresh, server, guard, CalmAction
  <1>2. /\ newest \in Nat /\ jar \in 0..newest /\ o \in Seq(FrameUpTo(newest)) /\ o # <<>>
        /\ Len(o) \in Nat \ {0}
        /\ Top(o) \in FrameUpTo(newest) /\ FrameOk(Top(o), Len(o)) /\ Top(o).rotation \in BOOLEAN
    BY <1>1, TopHere DEF Stack
  <1>3. k # "refresh" /\ ~Top(o).rotation /\ jar > stale
    <2>1. k # "refresh" /\ ~Top(o).refresh
      BY <1>1, <1>2 DEF Fits, FlagsFit, FrameOk
    <2> QED
      BY <1>1, <2>1 DEF Fits, FlagsFit, JarServes
  <1>4. f \in FrameUpTo(newest) /\ g \in FrameUpTo(newest)
    BY <1>2, FrameRetries, FrameFields
  <1>5. s # <<>> /\ Top(s) = g /\ Len(s) = Len(o) + 1
    <2> HIDE DEF f, g, o
    <2> QED
      BY <1>2, <1>4, SendingFacts
  <1>6. g = Send(TRUE, FALSE, jar')
    BY <1>1, <1>2, <1>3
  <1> HIDE DEF s, g, f
  <1>7. req'[t][k] = s /\ \A j \in Kind : j # k => req'[t][j] = req[t][j]
    BY <1>1, BecomesHere
  <1>8. Len(req'[t][k]) # 1 /\ jar' # 0 /\ jar' > stale'
    <2>1. jar \in 1..newest
      BY DEF TypeInv, TypeOK
    <2>2. Len(req'[t][k]) # 1
      <3> HIDE DEF o
      <3>1. Len(o) \in Nat /\ Len(o) # 0 /\ Len(s) = Len(o) + 1
        BY <1>2, <1>5
      <3>2. Len(s) # 1
        BY <3>1
      <3> QED
        BY <1>7, <3>2
    <2> QED
      BY <1>1, <1>3, <2>1, <2>2
  <1>9. jar' < minPair' => RotationMayExplain(t)'
    BY <1>1, BehindIsPending DEF RotationMayExplain
  <1>10. req'[t][k] # <<>> /\ Top(req'[t][k]) = Send(TRUE, FALSE, jar') /\ TRUE \in BOOLEAN /\ FALSE \in BOOLEAN
    BY <1>5, <1>6, <1>7
  <1> QED
    BY <1>7, <1>8, <1>9, <1>10, SentFits

LEMMA RetryAfterRotationFits ==
  ASSUME TypeInv, AnswersCarry, ChangesArePending, NEW t \in Tabs, NEW k \in Kind, Undisturbed(t),
         Fits(t, k), RetryAfterRotation(t, k)
  PROVE  Fits(t, k)' /\ \A j \in Kind : j # k => req'[t][j] = req[t][j]
  <1> DEFINE o == req[t][k]
             f == [Top(o) EXCEPT !.at = "again"]
             r == Top(o).refresh
             g == Send(r, TRUE, jar)
             s == Sending(o, f, g)
  <1>1. /\ ~Idle(t, k) /\ Top(o).at = "rotated" /\ Becomes(t, k, s) /\ CalmAction(t, k)
        /\ UNCHANGED <<jar, newest, minPair, stale, changed, pending, recent>>
    BY DEF RetryAfterRotation, server, guard, CalmAction
  <1>2. /\ newest \in Nat /\ jar \in 0..newest /\ o \in Seq(FrameUpTo(newest)) /\ o # <<>>
        /\ Len(o) \in Nat \ {0}
        /\ Top(o) \in FrameUpTo(newest) /\ FrameOk(Top(o), Len(o)) /\ r \in BOOLEAN
    BY <1>1, TopHere DEF Stack
  <1>3. changed # {} /\ (k = "refresh" \/ r) /\ ~(jar < minPair) /\ (r /\ k # "refresh" => jar > stale)
    <2>1. Top(o).rotation /\ ~ChangeUnderWay(t)
      BY <1>1, <1>2 DEF Fits, FlagsFit, FrameOk
    <2> QED
      BY <1>1, <2>1, BehindIsPending DEF Fits, FlagsFit, JarServes
  <1>4. f \in FrameUpTo(newest) /\ g \in FrameUpTo(newest)
    <2>1. "again" \in At
      BY DEF At
    <2> HIDE DEF o
    <2> QED
      BY <1>2, <2>1, FrameMoves, FrameFields
  <1>5. s # <<>> /\ Top(s) = g /\ Len(s) = Len(o) + 1
    <2> HIDE DEF f, g, o
    <2> QED
      BY <1>2, <1>4, SendingFacts
  <1>6. g = Send(r, TRUE, jar')
    BY <1>1
  <1> HIDE DEF s, g, f
  <1>7. req'[t][k] = s /\ \A j \in Kind : j # k => req'[t][j] = req[t][j]
    BY <1>1, BecomesHere
  <1>8. Len(req'[t][k]) # 1 /\ jar' # 0
    <2>1. jar \in 1..newest
      BY DEF TypeInv, TypeOK
    <2>2. Len(req'[t][k]) # 1
      <3> HIDE DEF o
      <3>1. Len(o) \in Nat /\ Len(o) # 0 /\ Len(s) = Len(o) + 1
        BY <1>2, <1>5
      <3>2. Len(s) # 1
        BY <3>1
      <3> QED
        BY <1>7, <3>2
    <2> QED
      BY <1>1, <2>1, <2>2
  <1>9. req'[t][k] # <<>> /\ Top(req'[t][k]) = Send(r, TRUE, jar') /\ TRUE \in BOOLEAN
    BY <1>5, <1>6, <1>7
  <1> HIDE DEF r
  <1> QED
    BY <1>1, <1>2, <1>3, <1>7, <1>8, <1>9, SentFits

LEMMA StaysBy ==
  ASSUME TypeInv, AnswersCarry, NEW t \in Tabs, NEW k \in Kind, CalmAction(t, k), Stays(t),
         signedIn'[t], Fits(t, k)', \A j \in Kind : j # k => req'[t][j] = req[t][j]
  PROVE  Stays(t)'
  <1>1. ASSUME NEW j \in Kind
        PROVE  Fits(t, j)'
    <2>1. CASE j = k
      BY <2>1
    <2>2. CASE j # k
      <3>1. /\ JarGood /\ UNCHANGED <<minPair, stale, changed>>
            /\ ChangeUnderWay(t)' => ChangeUnderWay(t)
        BY CalmActionFacts
      <3>2. RotationMayExplain(t) => RotationMayExplain(t)'
        BY CalmActionGuard
      <3>3. Fits(t, j) /\ req'[t][j] = req[t][j]
        BY <2>2 DEF Stays
      <3> QED
        BY <3>1, <3>2, <3>3, KeptFits
    <2> QED
      BY <2>1, <2>2
  <1> QED
    BY <1>1 DEF Stays

\* A 401 that is not refreshed has met a pair that the password change outdated.
LEMMA RefusedByChange ==
  ASSUME TypeInv, changed = {} => minPair = 1, NEW t \in Tabs, NEW k \in Kind, Fits(t, k),
         req[t][k] # <<>>, Top(req[t][k]).at = "answered", Top(req[t][k]).status = "unauthorized",
         k = "refresh" \/ Top(req[t][k]).refresh
  PROVE  changed # {} /\ MayWaitForRotation(t, Top(req[t][k]))
  <1> DEFINE f == Top(req[t][k])
  <1>1. f.pair \in Nat /\ stale \in Nat /\ minPair \in Nat
    BY TopHere, TypesHere DEF TypeInv, TypeOK, Idle
  <1>2. /\ f.pair < minPair \/ (k # "refresh" /\ f.pair <= stale)
        /\ f.refresh /\ k # "refresh" => f.pair > stale
        /\ f.pair < minPair => ~f.rotation /\ RotationMayExplain(t)
        /\ f.pair # 0
    BY DEF Fits, RefusalsExplained, PairsServe, Answered, Idle
  <1> HIDE DEF f
  <1>3. f.pair < minPair
    <2>1. k # "refresh" => f.refresh
      BY DEF f
    <2> QED
      BY <1>1, <1>2, <2>1
  <1>4. minPair # 1
    BY <1>1, <1>2, <1>3
  <1> QED
    BY <1>2, <1>3, <1>4 DEF MayWaitForRotation, f

LEMMA ReceiveStays ==
  ASSUME TypeInv, TypeInv', AnswersCarry, ChangesArePending, changed = {} => minPair = 1,
         NEW t \in Tabs, NEW k \in Kind, Undisturbed(t), ~refused'[t], Stays(t), Receive(t, k)
  PROVE  Stays(t)'
  <1> DEFINE o == req[t][k]
             f == Top(o)
             denied == f.status = "unauthorized"
             starts == denied /\ k # "refresh" /\ ~f.refresh
             waits  == denied /\ ~starts /\ MayWaitForRotation(t, f)
  <1>1. /\ CalmAction(t, k) /\ o # <<>> /\ f.at = "answered" /\ newest' = newest
        /\ jar' = IF f.cookies = 0 THEN jar ELSE f.cookies
        /\ refused' = IF f.refresh /\ f.status = "error" THEN [refused EXCEPT ![t] = TRUE] ELSE refused
    BY DEF Receive, Idle, CalmAction, server
  <1>2. /\ newest \in Nat /\ jar \in 0..newest /\ Stack(newest, o) /\ o \in Seq(FrameUpTo(newest))
        /\ Len(o) \in Nat \ {0}
        /\ f \in FrameUpTo(newest) /\ FrameOk(f, Len(o)) /\ f.refresh \in BOOLEAN /\ f.rotation \in BOOLEAN
        /\ jar # 0 /\ f.status \in Status
    <2>1. ~Idle(t, k)
      BY <1>1 DEF Idle
    <2>2. jar # 0
      BY DEF TypeInv, TypeOK
    <2> QED
      BY <2>1, <2>2, TopHere, FrameFields DEF Stack
  <1>3. /\ JarGood /\ UNCHANGED <<minPair, stale, changed>>
        /\ ChangeUnderWay(t)' => ChangeUnderWay(t)
        /\ RotationMayExplain(t) => RotationMayExplain(t)'
    BY <1>1, CalmActionFacts, CalmActionGuard
  <1>4. signedIn[t] /\ Fits(t, k) /\ \A j \in Kind : Fits(t, j)
    BY DEF Stays
  <1>5. f.status # "ok" => jar' = jar
    BY <1>1, <1>2 DEF FrameOk
  \* The request has settled, and whoever awaits it goes on.
  <1>6. ASSUME NEW ok \in BOOLEAN, Settle(t, k, <<>>, ok), signedIn'[t],
               k = "refresh" => ok /\ jar' > stale
        PROVE  Stays(t)'
    <2>1. req' = [req EXCEPT ![t] = Wake(t, k, ok)]
      BY <1>6 DEF Settle
    <2>2. \A j \in Kind : Fits(t, j)'
      BY <1>3, <1>4, <1>6, <2>1, WokenFits
    <2> QED
      BY <1>6, <2>2 DEF Stays
  <1>7. CASE starts /\ Becomes(t, k, WithTop(o, [f EXCEPT !.at = "refreshing"])) /\ signedIn' = signedIn
    <2> DEFINE g == [f EXCEPT !.at = "refreshing"]
               s == WithTop(o, g)
    <2>1. "refreshing" \in At
      BY DEF At
    <2>2. /\ g \in FrameUpTo(newest) /\ g.at = "refreshing" /\ g.refresh = f.refresh
          /\ g.rotation = f.rotation /\ g.status = f.status
      <3> HIDE DEF f
      <3> QED
        BY <1>2, <2>1, FrameMoves
    <2>3. s # <<>> /\ Top(s) = g
      <3> HIDE DEF g, f, o
      <3> QED
        BY <1>1, <1>2, <2>2, WithTopFacts
    <2>4. req'[t][k] = s /\ \A j \in Kind : j # k => req'[t][j] = req[t][j]
      BY <1>7, BecomesHere
    <2>5. k # "refresh" /\ ~f.refresh /\ ~f.rotation
      BY <1>1, <1>4, <1>7 DEF Fits, FlagsFit, Idle
    <2> HIDE DEF s, g, f
    <2>6. /\ req'[t][k] # <<>> /\ Top(req'[t][k]).at = "refreshing"
          /\ ~Top(req'[t][k]).refresh /\ ~Top(req'[t][k]).rotation
      BY <2>2, <2>3, <2>4, <2>5
    <2>7. Fits(t, k)'
      BY <2>5, <2>6 DEF Fits, FlagsFit, JarServes, PairsServe, RefusalsExplained, Answered
    <2> QED
      BY <1>1, <1>4, <1>7, <2>4, <2>7, StaysBy
  <1>8. ASSUME denied, ~starts
        PROVE  changed # {} /\ MayWaitForRotation(t, f) /\ (k = "refresh" \/ f.refresh)
    BY <1>1, <1>2, <1>4, <1>8, RefusedByChange
  <1>9. CASE waits /\ Becomes(t, k, TakeRotationBranch(t, o)) /\ signedIn' = signedIn
    <2> DEFINE z == TakeRotationBranch(t, o)
    <2>1. /\ changed # {} /\ MayWaitForRotation(t, f) /\ (k = "refresh" \/ f.refresh)
          /\ f.status = "unauthorized" /\ jar' = jar
      BY <1>5, <1>8, <1>9
    <2>2. /\ z # <<>>
          /\ pending[t] => /\ Top(z).at = "rotating" /\ Top(z).rotation
                           /\ Top(z).refresh = f.refresh /\ Top(z).status = f.status
          /\ ~pending[t] => Top(z) = Send(f.refresh, TRUE, jar) /\ Len(z) = Len(o) + 1
      BY <1>1, <1>2, RotationTop
    <2> HIDE DEF z
    <2>3. req'[t][k] = z /\ \A j \in Kind : j # k => req'[t][j] = req[t][j]
      BY <1>9, BecomesHere DEF z
    <2>4. f.refresh /\ k # "refresh" => jar > stale
      BY <1>1, <1>4 DEF Fits, JarServes, Idle
    <2>5. CASE pending[t]
      <3>1. /\ req'[t][k] # <<>> /\ Top(req'[t][k]).at = "rotating" /\ Top(req'[t][k]).rotation
            /\ Top(req'[t][k]).refresh = f.refresh /\ Top(req'[t][k]).status = "unauthorized"
        BY <2>1, <2>2, <2>3, <2>5
      <3> HIDE DEF f
      <3>2. FlagsFit(t, k)'
        BY <1>3, <2>1, <3>1 DEF FlagsFit
      <3>3. JarServes(t, k)'
        BY <1>3, <2>1, <2>4, <3>1 DEF JarServes
      <3>4. Fits(t, k)'
        BY <3>1, <3>2, <3>3 DEF Fits, PairsServe, RefusalsExplained, Answered
      <3> QED
        BY <1>1, <1>4, <1>9, <2>3, <3>4, StaysBy
    <2>6. CASE ~pending[t]
      <3>1. ~(jar' < minPair')
        BY <1>3, <2>1, <2>6, BehindIsPending
      <3>2. Len(req'[t][k]) # 1
        <4>1. Len(o) \in Nat /\ Len(o) # 0 /\ Len(z) = Len(o) + 1
          BY <1>2, <2>2, <2>6
        <4>2. Len(z) # 1
          <5> HIDE DEF o
          <5> QED
            BY <4>1
        <4> QED
          BY <2>3, <4>2
      <3>3. req'[t][k] # <<>> /\ Top(req'[t][k]) = Send(f.refresh, TRUE, jar')
        BY <2>1, <2>2, <2>3, <2>6
      <3>4. f.refresh \in BOOLEAN /\ TRUE \in BOOLEAN /\ jar' # 0
        BY <1>2, <2>1
      <3>5. f.refresh /\ k # "refresh" => jar' > stale'
        BY <1>3, <2>1, <2>4
      <3> HIDE DEF f, o
      <3>6. Fits(t, k)'
        BY <1>3, <2>1, <3>1, <3>2, <3>3, <3>4, <3>5, SentFits
      <3> QED
        BY <1>1, <1>4, <1>9, <2>3, <3>6, StaysBy
    <2> QED
      BY <2>5, <2>6
  <1>10. CASE f.status = "ok" /\ Settle(t, k, <<>>, TRUE) /\ UNCHANGED signedIn
    <2>1. f.cookies > stale /\ stale \in Nat
      BY <1>1, <1>10 DEF AnswersCarry, Answered, TypeInv, TypeOK
    <2>2. jar' > stale
      BY <1>1, <2>1
    <2> QED
      BY <1>4, <1>6, <1>10, <2>2
  <1>11. CASE /\ ~starts /\ ~waits /\ f.status # "ok" /\ Settle(t, k, Unwound(t, o), FALSE)
              /\ SignOut(t, SignsOut(t, o, denied))
    <2>1. ~denied
      BY <1>8, <1>11
    <2>2. f.status = "error"
      <3>1. f.status # "none"
        BY <1>1, <1>4 DEF Fits, PairsServe, Idle
      <3> QED
        BY <1>2, <1>11, <2>1, <3>1 DEF Status
    <2>3. k # "refresh" /\ ~f.refresh /\ ~f.rotation
      <3>1. k # "refresh" /\ (f.rotation => f.refresh)
        BY <1>1, <1>4, <2>2 DEF Fits, FlagsFit, Idle
      <3>2. ~f.refresh
        BY <1>1, <2>2 DEF TypeInv, TypeOK
      <3> QED
        BY <3>1, <3>2
    <2>4. Len(o) = 1
      <3>1. Retries(f) = 0
        BY <2>3 DEF Retries
      <3> DEFINE n == Len(o)
      <3>2. n <= 0 + 1
        BY <1>2, <3>1 DEF FrameOk
      <3>3. n \in Nat \ {0}
        BY <1>2
      <3> HIDE DEF n
      <3>4. n = 1
        BY <3>2, <3>3
      <3> QED
        BY <3>4 DEF n
    <2>5. Catchers(t, o) = {}
      BY <2>4 DEF Catchers
    <2>6. Unwound(t, o) = <<>> /\ ~SignsOut(t, o, denied)
      BY <2>1, <2>4, <2>5 DEF Unwound, SignsOut
    <2>7. Settle(t, k, <<>>, FALSE) /\ signedIn' = signedIn
      BY <1>11, <2>6 DEF SignOut
    <2> QED
      BY <1>4, <1>6, <2>3, <2>7
  <1> QED
    BY <1>7, <1>9, <1>10, <1>11, ReceiveOutcomes

LEMMA CalmActionStays ==
  ASSUME TypeInv, TypeInv', AnswersCarry, ChangesArePending, changed = {} => minPair = 1,
         NEW t \in Tabs, NEW k \in Kind, Undisturbed(t), ~refused'[t], Stays(t), CalmAction(t, k)
  PROVE  Stays(t)'
  <1>1. Fits(t, k) /\ signedIn[t]
    BY DEF Stays
  <1>2. CASE Issue(t, k) \/ ServerAnswersCall(t, k) \/ RetryAfterRefresh(t, k) \/ RetryAfterRotation(t, k)
    <2>1. signedIn' = signedIn
      BY <1>2 DEF Issue, ServerAnswersCall, RetryAfterRefresh, RetryAfterRotation
    <2>2. Fits(t, k)' /\ \A j \in Kind : j # k => req'[t][j] = req[t][j]
      BY <1>1, <1>2, IssueFits, ServerAnswersCallFits, RetryAfterRefreshFits, RetryAfterRotationFits
    <2> QED
      BY <1>1, <2>1, <2>2, StaysBy
  <1>3. CASE Receive(t, k)
    BY <1>3, ReceiveStays
  <1>4. CASE RefreshFailed(t, k)
    BY <1>1, <1>4 DEF RefreshFailed, Fits, FlagsFit
  <1> QED
    BY <1>2, <1>3, <1>4 DEF CalmAction

\* The step of another tab.
LEMMA OthersStay ==
  ASSUME NEW t \in Tabs, Stays(t), req'[t] = req[t], signedIn'[t] = signedIn[t],
         JarGood, UNCHANGED <<minPair, stale, changed>>,
         RotationMayExplain(t) => RotationMayExplain(t)', ChangeUnderWay(t)' => ChangeUnderWay(t)
  PROVE  Stays(t)'
  <1>1. \A k \in Kind : Fits(t, k)'
    BY KeptFits DEF Stays
  <1> QED
    BY <1>1 DEF Stays

LEMMA CalmActionResults ==
  ASSUME TypeInv, AnswersCarry, ResultsAreTrue, NEW t \in Tabs, NEW k \in Kind, CalmAction(t, k)
  PROVE  ResultsAreTrue'
  <1>1. JarGood /\ stale' = stale
    BY CalmActionFacts
  <1>2. CASE UNCHANGED <<phase, before, storage>>
    BY <1>1, <1>2, ResultsStay DEF storage
  <1>3. ASSUME NEW s, NEW ok \in BOOLEAN, Settle(t, k, s, ok),
               ok /\ k = "refresh" => jar' > stale
        PROVE  ResultsAreTrue'
    <2>1. CASE s = <<>> /\ k = "refresh"
      <3>1. /\ phase' = [phase EXCEPT ![t] = "none"] /\ before' = [before EXCEPT ![t] = 0]
            /\ result' = [epoch |-> result.epoch + 1, success |-> ok]
        BY <1>3, <2>1 DEF Settle, SettleRefresh, publishRotationResult
      <3>2. phase \in [Tabs -> Phase] /\ before \in [Tabs -> Nat]
        BY DEF TypeInv, TypeOK
      <3>3. \A u \in Tabs : phase'[u] # "none" => phase[u] # "none" /\ before'[u] = before[u]
        BY <3>1, <3>2
      <3>4. ~result'.success \/ jar' > stale
        BY <1>3, <2>1, <3>1
      <3> QED
        BY <1>1, <3>3, <3>4, ResultsStay
    <2>2. CASE ~(s = <<>> /\ k = "refresh")
      BY <1>2, <1>3, <2>2 DEF Settle
    <2> QED
      BY <2>1, <2>2
  <1>4. CASE Issue(t, k) \/ ServerAnswersCall(t, k) \/ RetryAfterRefresh(t, k) \/ RetryAfterRotation(t, k)
    BY <1>2, <1>4 DEF Issue, ServerAnswersCall, RetryAfterRefresh, RetryAfterRotation
  <1>5. CASE RefreshFailed(t, k)
    <2>1. UNCHANGED <<phase, before, storage>> \/ Settle(t, k, Unwound(t, req[t][k]), FALSE)
      BY <1>5 DEF RefreshFailed
    <2>2. CASE Settle(t, k, Unwound(t, req[t][k]), FALSE)
      BY <1>3, <2>2
    <2> QED
      BY <1>2, <2>1, <2>2
  <1>6. CASE Receive(t, k)
    <2> DEFINE o == req[t][k]
               f == Top(o)
    <2>1. \/ UNCHANGED <<phase, before, storage>>
          \/ /\ before' = [before EXCEPT ![t] = result.epoch]
             /\ phase' = [phase EXCEPT ![t] = IF locks THEN "queued" ELSE "read"]
             /\ UNCHANGED storage
          \/ f.status = "ok" /\ Settle(t, k, <<>>, TRUE)
          \/ Settle(t, k, Unwound(t, o), FALSE)
      BY <1>6, ReceiveOutcomes
    <2>2. CASE /\ before' = [before EXCEPT ![t] = result.epoch]
               /\ phase' = [phase EXCEPT ![t] = IF locks THEN "queued" ELSE "read"]
               /\ UNCHANGED storage
      <3>1. phase \in [Tabs -> Phase] /\ before \in [Tabs -> Nat] /\ result' = result
        BY <2>2 DEF TypeInv, TypeOK, storage
      <3>2. \A u \in Tabs : u # t => phase'[u] = phase[u] /\ before'[u] = before[u]
        BY <2>2, <3>1
      <3>3. before'[t] = result'.epoch
        BY <2>2, <3>1
      <3> QED
        BY <1>1, <3>1, <3>2, <3>3, ResultsStay
    <2>3. CASE f.status = "ok" /\ Settle(t, k, <<>>, TRUE)
      <3>1. /\ Answered(t, k) /\ stale \in Nat
            /\ jar' = IF f.cookies = 0 THEN jar ELSE f.cookies
        BY <1>6 DEF Receive, Answered, Idle, TypeInv, TypeOK
      <3>2. f.cookies > stale
        BY <2>3, <3>1 DEF AnswersCarry
      <3>3. jar' > stale
        BY <3>1, <3>2
      <3> QED
        BY <1>3, <2>3, <3>3
    <2>4. CASE Settle(t, k, Unwound(t, o), FALSE)
      BY <1>3, <2>4
    <2> QED
      BY <1>2, <2>1, <2>2, <2>3, <2>4
  <1> QED
    BY <1>4, <1>5, <1>6 DEF CalmAction

\* What may disturb a tab stays.
LEMMA UndisturbedBefore ==
  ASSUME NEW t \in Tabs, Undisturbed(t)', locks' = locks, faults' = faults, alive' => alive,
         changed \subseteq changed', refused[t] => refused'[t], Overtaken => Overtaken'
  PROVE  Undisturbed(t)
  BY DEF Undisturbed

LEMMA CalmActionSession ==
  ASSUME TypeInv, TypeInv', LockInv, locks, SessionFacts,
         NEW t \in Tabs, NEW k \in Kind, CalmAction(t, k)
  PROVE  SessionFacts'
  <1>1. /\ CalmStep /\ JarStep /\ JarGood
        /\ UNCHANGED <<locks, faults, open, newest, minPair, stale, alive, changed>>
        /\ \A u \in Tabs : ChangeUnderWay(u)' => ChangeUnderWay(u)
    BY CalmActionFacts DEF SessionFacts
  <1>2. AnswersCarry' /\ OvertakenForGood' /\ (Overtaken => Overtaken')
    BY <1>1, QuietAnswers, QuietOvertaken DEF SessionFacts
  <1>3. ResultsAreTrue'
    BY CalmActionResults DEF SessionFacts
  <1>4. /\ \A u \in Tabs : /\ RotationMayExplain(u) => RotationMayExplain(u)'
                           /\ u # t => /\ req'[u] = req[u] /\ signedIn'[u] = signedIn[u]
                                       /\ refused'[u] = refused[u] /\ pending'[u] = pending[u]
                           /\ refused[u] => refused'[u]
        /\ req'[t]["change"] # <<>> =>
             (req[t]["change"] # <<>> /\ pending'[t] = pending[t]) \/ pending'[t]
    BY CalmActionGuard
  <1>5. ChangesArePending'
    <2> SUFFICES ASSUME NEW u \in Tabs, req'[u]["change"] # <<>> PROVE pending'[u]
      BY DEF ChangesArePending, Idle
    <2>1. req[u]["change"] # <<>> => pending[u]
      BY DEF SessionFacts, ChangesArePending, Idle
    <2> QED
      BY <1>4, <2>1
  <1>6. ASSUME NEW u \in Tabs, Undisturbed(u)'
        PROVE  Stays(u)'
    <2>1. Undisturbed(u)
      BY <1>1, <1>2, <1>4, <1>6, UndisturbedBefore
    <2>2. Stays(u)
      BY <2>1 DEF SessionFacts
    <2>3. CASE u = t
      <3>1. ~refused'[u]
        BY <1>6 DEF Undisturbed
      <3> QED
        BY <2>1, <2>2, <2>3, <3>1, CalmActionStays DEF SessionFacts
    <2>4. CASE u # t
      BY <1>1, <1>4, <2>2, <2>4, OthersStay
    <2> QED
      BY <2>3, <2>4
  <1>7. changed' = {} => minPair' = 1
    BY <1>1 DEF SessionFacts
  <1> QED
    BY <1>2, <1>3, <1>5, <1>6, <1>7 DEF SessionFacts

-----------------------------------------------------------------------------
(* The lock, the server and the environment *)

LEMMA GrantedSession ==
  ASSUME TypeInv, TypeInv', LockInv, locks, SessionFacts, NEW t \in Tabs, LockGranted(t)
  PROVE  SessionFacts'
  <1>1. /\ CalmStep
        /\ UNCHANGED <<locks, jar, newest, minPair, stale, alive, changed, pending, recent, signedIn,
                       faults, refused>>
        /\ phase[t] = "queued" /\ "refresh" \in Kind /\ "change" \in Kind
    BY GrantedLocks DEF LockGranted, server, guard, Kind
  <1>2. JarStep /\ JarGood
    BY <1>1 DEF JarStep, JarGood
  <1>3. /\ AnswersCarry' /\ OvertakenForGood' /\ (Overtaken => Overtaken')
        /\ \A u \in Tabs : ChangeUnderWay(u)' => ChangeUnderWay(u)
    BY <1>1, <1>2, QuietAnswers, QuietOvertaken DEF SessionFacts
  <1>4. \A u \in Tabs : RotationMayExplain(u) => RotationMayExplain(u)'
    BY <1>1 DEF RotationMayExplain
  <1>5. ASSUME NEW u \in Tabs, Undisturbed(u)'
        PROVE  Undisturbed(u) /\ Stays(u)
    <2>1. Undisturbed(u)
      BY <1>1, <1>3, <1>5, UndisturbedBefore
    <2> QED
      BY <2>1 DEF SessionFacts
  <1>6. phase \in [Tabs -> Phase] /\ before \in [Tabs -> Nat] /\ req \in [Tabs -> [Kind -> Seq(FrameUpTo(newest))]]
    BY DEF TypeInv, TypeOK, StacksInv
  <1>7. changed' = {} => minPair' = 1
    BY <1>1 DEF SessionFacts
  <1>8. CASE rotationCompletedAfter(t)
    <2>1. /\ req' = [req EXCEPT ![t] = Wake(t, "refresh", TRUE)] /\ result' = result
          /\ phase' = [phase EXCEPT ![t] = "none"] /\ before' = [before EXCEPT ![t] = 0]
      BY <1>8 DEF LockGranted, alreadyRotatedResponse, SettleRefresh
    <2>2. jar > stale
      BY <1>1, <1>8 DEF SessionFacts, ResultsAreTrue
    <2>3. ResultsAreTrue'
      <3>1. \A u \in Tabs : phase'[u] # "none" => phase[u] # "none" /\ before'[u] = before[u]
        BY <1>6, <2>1
      <3> QED
        BY <1>1, <1>2, <2>1, <3>1, ResultsStay DEF SessionFacts
    <2>4. ChangesArePending'
      <3> SUFFICES ASSUME NEW u \in Tabs, req'[u]["change"] # <<>> PROVE pending[u]
        BY <1>1 DEF ChangesArePending, Idle
      <3>1. CASE u = t
        <4>1. TRUE \in BOOLEAN /\ req'[t]["change"] = Wake(t, "refresh", TRUE)["change"]
          BY <1>6, <2>1
        <4>2. Wake(t, "refresh", TRUE)["change"] # <<>> => req[t]["change"] # <<>>
          BY <1>1, <4>1, WokenStacks
        <4> QED
          BY <3>1, <4>1, <4>2 DEF SessionFacts, ChangesArePending, Idle
      <3>2. CASE u # t
        BY <1>6, <2>1, <3>2 DEF SessionFacts, ChangesArePending, Idle
      <3> QED
        BY <3>1, <3>2
    <2>5. ASSUME NEW u \in Tabs, Undisturbed(u)'
          PROVE  Stays(u)'
      <3>1. CASE u = t
        <4>1. jar' > stale /\ TRUE \in BOOLEAN
          BY <1>1, <2>2
        <4>2. ASSUME NEW j \in Kind
              PROVE  Fits(t, j)'
          <5>1. Fits(t, j)
            BY <1>5, <2>5, <3>1 DEF Stays
          <5> QED
            BY <1>1, <1>2, <1>3, <1>4, <2>1, <4>1, <5>1, WokenFits
        <4> QED
          BY <1>1, <1>5, <2>5, <3>1, <4>2 DEF Stays
      <3>2. CASE u # t
        <4>1. req'[u] = req[u]
          BY <1>6, <2>1, <3>2
        <4> QED
          BY <1>1, <1>2, <1>3, <1>4, <1>5, <2>5, <4>1, OthersStay
      <3> QED
        BY <3>1, <3>2
    <2> QED
      BY <1>3, <1>7, <2>3, <2>4, <2>5 DEF SessionFacts
  <1>9. CASE ~rotationCompletedAfter(t)
    <2>1. /\ Becomes(t, "refresh", <<Send(FALSE, FALSE, jar)>>) /\ result' = result
          /\ phase' = [phase EXCEPT ![t] = "running"] /\ before' = before
      BY <1>9 DEF LockGranted, StartRequest
    <2>2. /\ req'[t]["refresh"] = <<Send(FALSE, FALSE, jar)>>
          /\ \A j \in Kind : j # "refresh" => req'[t][j] = req[t][j]
      BY <1>1, <2>1, BecomesHere
    <2>3. \A u \in Tabs : u # t => req'[u] = req[u]
      BY <1>6, <2>1 DEF Becomes
    <2>4. ResultsAreTrue'
      <3>1. \A u \in Tabs : phase'[u] # "none" => phase[u] # "none" /\ before'[u] = before[u]
        BY <1>1, <1>6, <2>1
      <3> QED
        BY <1>1, <1>2, <2>1, <3>1, ResultsStay DEF SessionFacts
    <2>5. ChangesArePending'
      <3> SUFFICES ASSUME NEW u \in Tabs, req'[u]["change"] # <<>> PROVE pending[u]
        BY <1>1 DEF ChangesArePending, Idle
      <3>1. req'[u]["change"] = req[u]["change"]
        BY <1>1, <2>2, <2>3
      <3> QED
        BY <3>1 DEF SessionFacts, ChangesArePending, Idle
    <2>6. ASSUME NEW u \in Tabs, Undisturbed(u)'
          PROVE  Stays(u)'
      <3>1. CASE u = t
        <4>1. Fits(t, "refresh")'
          <5>1. jar < minPair => RotationMayExplain(t)
            BY <1>5, <2>6, <3>1, BehindIsPending DEF RotationMayExplain, SessionFacts
          <5>2. jar' < minPair' => RotationMayExplain(t)'
            BY <1>1, <1>4, <5>1
          <5>3. req'[t]["refresh"] # <<>> /\ Top(req'[t]["refresh"]) = Send(FALSE, FALSE, jar')
            BY <1>1, <2>2 DEF Top
          <5>4. jar' # 0 /\ FALSE \in BOOLEAN
            BY <1>1 DEF TypeInv, TypeOK
          <5> QED
            BY <1>1, <5>2, <5>3, <5>4, SentFits
        <4>2. ASSUME NEW j \in Kind, j # "refresh"
              PROVE  Fits(t, j)'
          <5>1. Fits(t, j) /\ req'[t][j] = req[t][j]
            BY <1>5, <2>2, <2>6, <3>1, <4>2 DEF Stays
          <5> QED
            BY <1>1, <1>2, <1>3, <1>4, <5>1, KeptFits
        <4> QED
          BY <1>1, <1>5, <2>6, <3>1, <4>1, <4>2 DEF Stays
      <3>2. CASE u # t
        BY <1>1, <1>2, <1>3, <1>4, <1>5, <2>3, <2>6, <3>2, OthersStay
      <3> QED
        BY <3>1, <3>2
    <2> QED
      BY <1>3, <1>7, <2>4, <2>5, <2>6 DEF SessionFacts
  <1> QED
    BY <1>8, <1>9

\* What the server does to a refresh, granted or refused.
LEMMA RefreshedFits ==
  ASSUME TypeInv, TypeInv', NEW t \in Tabs, Undisturbed(t), Stays(t), CookieInv, ServerRefreshes(t)
  PROVE  Stays(t)'
  <1>1. /\ "refresh" \in Kind /\ ~Idle(t, "refresh") /\ Top(req[t]["refresh"]).at = "sent"
        /\ UNCHANGED <<jar, minPair, stale, alive, changed, pending, recent, signedIn>> /\ alive
    BY DEF ServerRefreshes, Sent, guard, Kind, Undisturbed
  <1> DEFINE p == Top(req[t]["refresh"]).pair
  <1>2. newest \in Nat /\ minPair \in Nat /\ p \in Nat
    BY <1>1, TopHere, TypesHere
  <1>3. \E st \in {"ok", "unauthorized"}, c \in 0..newest' :
           /\ Answer(t, "refresh", st, c) /\ (st # "ok" => c = 0) /\ (st = "unauthorized" => p < minPair)
           /\ newest' >= newest /\ newest' \in Nat
    <2>1. CASE RefreshOk(p)
      <3>1. Answer(t, "refresh", "ok", newest + 1) /\ newest' = newest + 1
        BY <2>1 DEF ServerRefreshes
      <3> QED
        BY <1>2, <3>1
    <2>2. CASE ~RefreshOk(p)
      <3>1. Answer(t, "refresh", "unauthorized", 0) /\ newest' = newest
        BY <2>2 DEF ServerRefreshes
      <3>2. p = newest \/ p < minPair
        BY <1>1 DEF CookieInv, PresentedAreFresh, Presents, Fresh, Idle
      <3>3. p < minPair
        BY <1>1, <1>2, <2>2, <3>2 DEF RefreshOk
      <3> QED
        BY <1>2, <3>1, <3>3
    <2> QED
      BY <2>1, <2>2
  <1>4. PICK st \in {"ok", "unauthorized"}, c \in 0..newest' :
           /\ Answer(t, "refresh", st, c) /\ (st # "ok" => c = 0) /\ (st = "unauthorized" => p < minPair)
           /\ newest' >= newest /\ newest' \in Nat
    BY <1>3
  <1>5. st \in Status
    BY DEF Status
  <1>6. /\ req'[t]["refresh"] # <<>> /\ Top(req'[t]["refresh"]).at = "answered"
        /\ Top(req'[t]["refresh"]).status = st
        /\ Top(req'[t]["refresh"]).refresh = Top(req[t]["refresh"]).refresh
        /\ Top(req'[t]["refresh"]).rotation = Top(req[t]["refresh"]).rotation
        /\ Top(req'[t]["refresh"]).pair = Top(req[t]["refresh"]).pair
        /\ \A u \in Tabs, j \in Kind : u # t \/ j # "refresh" => req'[u][j] = req[u][j]
    BY <1>1, <1>4, <1>5, AnsweredTop
  <1>7. RotationMayExplain(t) => RotationMayExplain(t)'
    BY <1>1 DEF RotationMayExplain
  <1>8. ChangeUnderWay(t)' => ChangeUnderWay(t)
    BY <1>6 DEF ChangeUnderWay, Idle, Kind
  <1>9. Fits(t, "refresh")'
    <2>1. Fits(t, "refresh") /\ req[t]["refresh"] # <<>>
      BY <1>1 DEF Stays, Idle
    <2> QED
      BY <1>1, <1>4, <1>6, <1>7, <2>1, AnsweredFits
  <1>10. ASSUME NEW j \in Kind, j # "refresh"
         PROVE  Fits(t, j)'
    <2>1. Fits(t, j) /\ req'[t][j] = req[t][j] /\ JarGood
      BY <1>1, <1>6, <1>10 DEF Stays, JarGood
    <2> QED
      BY <1>1, <1>7, <1>8, <2>1, KeptFits
  <1> QED
    BY <1>1, <1>9, <1>10 DEF Stays

LEMMA RefreshSession ==
  ASSUME TypeInv, TypeInv', LockInv, locks, CookieInv, SessionFacts, NEW t \in Tabs, ServerRefreshes(t)
  PROVE  SessionFacts'
  <1>1. /\ "refresh" \in Kind /\ "change" \in Kind
        /\ ~Idle(t, "refresh") /\ Top(req[t]["refresh"]).at = "sent"
        /\ UNCHANGED <<locks, jar, minPair, stale, alive, changed, phase, before, result, pending, recent,
                       signedIn, faults, refused>>
    BY DEF ServerRefreshes, Sent, guard, storage, Kind
  <1>2. JarGood /\ JarStep
    BY <1>1 DEF JarGood, JarStep
  \* Either the server refuses, or it issues the pair newest + 1.
  <1>3. /\ \A u \in Tabs, j \in Kind : u # t \/ j # "refresh" => req'[u][j] = req[u][j]
        /\ req'[t]["refresh"] # <<>>
        /\ AnswersCarry' /\ OvertakenForGood' /\ (Overtaken => Overtaken')
        /\ \A u \in Tabs : ChangeUnderWay(u)' => ChangeUnderWay(u)
    <2>1. CASE RefreshOk(Top(req[t]["refresh"]).pair)
      <3>1. newest' = newest + 1 /\ Answer(t, "refresh", "ok", newest + 1)
        BY <2>1 DEF ServerRefreshes
      <3>2. /\ req'[t]["refresh"] # <<>> /\ Top(req'[t]["refresh"]).at = "answered"
            /\ Top(req'[t]["refresh"]).cookies = newest'
            /\ \A u \in Tabs, j \in Kind : u # t \/ j # "refresh" => req'[u][j] = req[u][j]
        BY <1>1, <3>1, IssuesStacks
      <3>3. newest' > stale
        BY <3>1 DEF TypeInv, TypeOK
      <3>4. AnswersCarry'
        <4> SUFFICES ASSUME NEW u \in Tabs, NEW j \in Kind, Answered(u, j)'
                     PROVE  /\ Top(req'[u][j]).status = "ok" => Top(req'[u][j]).cookies > stale
                            /\ Top(req'[u][j]).cookies # 0 =>
                                 \/ j = "refresh"
                                 \/ j = "change" /\ u \in changed /\ Top(req'[u][j]).cookies = minPair
          BY <1>1 DEF AnswersCarry
        <4>1. CASE u = t /\ j = "refresh"
          BY <3>2, <3>3, <4>1
        <4>2. CASE u # t \/ j # "refresh"
          BY <3>2, <4>2 DEF SessionFacts, AnswersCarry, Answered
        <4> QED
          BY <4>1, <4>2
      <3>5. \A u \in Tabs : ChangeUnderWay(u)' <=> ChangeUnderWay(u)
        BY <1>1, <3>2 DEF ChangeUnderWay, Idle
      <3>6. Overtaken' <=> Overtaken
        BY <1>1, <3>5 DEF Overtaken
      <3>7. ~Overtaken
        <4>1. Presents(t) /\ Top(req[t]["refresh"]).pair >= minPair
          BY <1>1, <2>1 DEF Presents, Idle, RefreshOk
        <4>2. Top(req[t]["refresh"]).pair \in Nat /\ minPair \in Nat
          BY <1>1, TopHere, TypesHere
        <4> QED
          BY <4>1, <4>2 DEF SessionFacts, OvertakenForGood
      <3> QED
        BY <3>2, <3>4, <3>5, <3>6, <3>7 DEF OvertakenForGood
    <2>2. CASE ~RefreshOk(Top(req[t]["refresh"]).pair)
      <3>1. CalmStep
        BY <2>2, ServerRefusesCalm DEF Calm
      <3>2. /\ AnswersCarry' /\ OvertakenForGood' /\ (Overtaken => Overtaken')
            /\ \A u \in Tabs : ChangeUnderWay(u)' => ChangeUnderWay(u)
        BY <1>1, <1>2, <3>1, QuietAnswers, QuietOvertaken DEF SessionFacts
      <3>3. /\ Answer(t, "refresh", "unauthorized", 0) /\ newest' = newest /\ newest' \in Nat
            /\ newest' >= newest /\ 0 \in 0..newest' /\ "unauthorized" \in Status
        BY <2>2, TypesHere DEF ServerRefreshes, Status
      <3>4. /\ req'[t]["refresh"] # <<>>
            /\ \A u \in Tabs, j \in Kind : u # t \/ j # "refresh" => req'[u][j] = req[u][j]
        BY <1>1, <3>3, AnsweredTop
      <3> QED
        BY <3>2, <3>4
    <2> QED
      BY <2>1, <2>2
  <1>4. ResultsAreTrue'
    BY <1>1 DEF SessionFacts, ResultsAreTrue, rotationCompletedAfter
  <1>5. ChangesArePending'
    BY <1>1, <1>3 DEF SessionFacts, ChangesArePending, Idle
  <1>6. changed' = {} => minPair' = 1
    BY <1>1 DEF SessionFacts
  <1>7. ASSUME NEW u \in Tabs, Undisturbed(u)'
        PROVE  Stays(u)'
    <2>1. Undisturbed(u)
      BY <1>1, <1>3, <1>7, UndisturbedBefore
    <2>2. Stays(u)
      BY <2>1 DEF SessionFacts
    <2>3. CASE u = t
      BY <2>1, <2>2, <2>3, RefreshedFits
    <2>4. CASE u # t
      <3>1. \A j \in Kind : req'[u][j] = req[u][j]
        BY <1>3, <2>4
      <3>2. RotationMayExplain(u) => RotationMayExplain(u)'
        BY <1>1 DEF RotationMayExplain
      <3>3. \A j \in Kind : Fits(u, j)'
        BY <1>1, <1>2, <1>3, <2>2, <3>1, <3>2, KeptFits DEF Stays
      <3> QED
        BY <1>1, <2>2, <3>3 DEF Stays
    <2> QED
      BY <2>3, <2>4
  <1> QED
    BY <1>3, <1>4, <1>5, <1>6, <1>7 DEF SessionFacts

\* The password change finds no retry under way, and outdates every pair that
\* is out; the tab that made it knows.
LEMMA PasswordSession ==
  ASSUME TypeInv, TypeInv', locks, SessionFacts, NEW t \in Tabs, ServerChangesPassword(t)
  PROVE  SessionFacts'
  <1>1. /\ "change" \in Kind /\ ~Idle(t, "change") /\ Top(req[t]["change"]).at = "sent"
        /\ newest' = newest + 1 /\ minPair' = newest + 1 /\ changed = {} /\ changed' = {t}
        /\ Answer(t, "change", "ok", newest + 1)
        /\ UNCHANGED <<locks, jar, stale, alive, phase, before, result, pending, recent,
                       signedIn, faults, refused>>
    BY DEF ServerChangesPassword, Sent, guard, storage, Kind
  <1>2. /\ newest \in Nat /\ stale \in 0..newest /\ jar \in 1..newest
        /\ newest' \in Nat /\ newest' >= newest /\ newest + 1 \in 0..newest' /\ "ok" \in Status
    BY <1>1, TypesHere DEF TypeInv, TypeOK, Status
  <1>3. /\ req'[t]["change"] # <<>> /\ Top(req'[t]["change"]).at = "answered"
        /\ Top(req'[t]["change"]).cookies = newest + 1 /\ Top(req'[t]["change"]).status = "ok"
        /\ Top(req'[t]["change"]).refresh = Top(req[t]["change"]).refresh
        /\ Top(req'[t]["change"]).rotation = Top(req[t]["change"]).rotation
        /\ Top(req'[t]["change"]).pair = Top(req[t]["change"]).pair
        /\ \A u \in Tabs, j \in Kind : u # t \/ j # "change" => req'[u][j] = req[u][j]
    BY <1>1, <1>2, AnsweredTop
  <1>4. AnswersCarry'
    <2> SUFFICES ASSUME NEW u \in Tabs, NEW j \in Kind, Answered(u, j)'
                 PROVE  /\ Top(req'[u][j]).status = "ok" => Top(req'[u][j]).cookies > stale
                        /\ Top(req'[u][j]).cookies # 0 =>
                             \/ j = "refresh"
                             \/ j = "change" /\ u \in changed' /\ Top(req'[u][j]).cookies = minPair'
      BY <1>1 DEF AnswersCarry
    <2>1. CASE u = t /\ j = "change"
      BY <1>1, <1>2, <1>3, <2>1
    <2>2. CASE u # t \/ j # "change"
      BY <1>1, <1>3, <2>2 DEF SessionFacts, AnswersCarry, Answered
    <2> QED
      BY <2>1, <2>2
  <1>5. ResultsAreTrue'
    BY <1>1 DEF SessionFacts, ResultsAreTrue, rotationCompletedAfter
  <1>6. ChangesArePending' /\ pending'[t]
    BY <1>1, <1>3 DEF SessionFacts, ChangesArePending, Idle
  <1>7. ChangeUnderWay(t)' /\ ~Overtaken'
    <2>1. ChangeUnderWay(t)'
      BY <1>2, <1>3 DEF ChangeUnderWay, Idle
    <2> QED
      BY <2>1 DEF Overtaken
  <1>8. ASSUME NEW u \in Tabs, Undisturbed(u)'
        PROVE  Stays(u)'
    <2>1. u = t
      BY <1>1, <1>8 DEF Undisturbed
    <2>2. Stays(t)
      <3>1. minPair = 1 /\ ~(jar < minPair)
        BY <1>1, <1>2 DEF SessionFacts
      <3>2. Undisturbed(t)
        BY <1>1, <1>8, <2>1, <3>1 DEF Undisturbed, Overtaken
      <3> QED
        BY <3>2 DEF SessionFacts
    <2>3. ASSUME NEW k \in Kind
          PROVE  Fits(t, k)'
      <3> SUFFICES ASSUME req'[t][k] # <<>> PROVE Fits(t, k)'
        BY IdleFits
      <3>1. /\ req[t][k] # <<>> /\ Fits(t, k)
            /\ Top(req'[t][k]).refresh = Top(req[t][k]).refresh
            /\ Top(req'[t][k]).rotation = Top(req[t][k]).rotation
            /\ Top(req'[t][k]).pair = Top(req[t][k]).pair
            /\ \/ /\ k = "change" /\ Top(req'[t][k]).at = "answered" /\ Top(req'[t][k]).status = "ok"
                  /\ Top(req[t][k]).at = "sent"
               \/ req'[t][k] = req[t][k]
        BY <1>1, <1>3, <2>2 DEF Stays, Idle
      <3>2. Top(req[t][k]).pair \in 0..newest /\ FrameOk(Top(req[t][k]), Len(req[t][k]))
        BY <3>1, TopHere DEF Idle
      <3>3. ~Top(req[t][k]).rotation /\ Top(req[t][k]).at # "rotated"
        BY <1>1, <3>1, <3>2 DEF Fits, FlagsFit, FrameOk, Idle
      <3>4. Top(req[t][k]).pair < minPair'
        BY <1>1, <1>2, <3>2
      <3>5. RotationMayExplain(t)'
        BY <1>6 DEF RotationMayExplain
      <3>6. FlagsFit(t, k)'
        BY <3>1, <3>3 DEF Fits, FlagsFit, Idle
      <3>7. JarServes(t, k)'
        BY <1>1, <3>1 DEF Fits, JarServes, Idle
      <3>8. PairsServe(t, k)'
        BY <1>1, <3>1, <3>3, <3>5 DEF Fits, PairsServe, Idle
      <3>9. RefusalsExplained(t, k)'
        BY <3>1, <3>4 DEF RefusalsExplained, Answered
      <3> QED
        BY <3>6, <3>7, <3>8, <3>9 DEF Fits
    <2> QED
      BY <1>1, <2>1, <2>2, <2>3 DEF Stays
  <1>9. changed' # {}
    BY <1>1
  <1> QED
    BY <1>4, <1>5, <1>6, <1>7, <1>8, <1>9 DEF SessionFacts, OvertakenForGood

\* Steps that leave the requests, the jar and the pairs alone.
LEMMA QuietSession ==
  ASSUME SessionFacts,
         UNCHANGED <<locks, jar, minPair, stale, changed, req, phase, before, result, pending, signedIn,
                     refused>>,
         alive' => alive, faults' = faults, NEW T \in SUBSET Tabs,
         \A u \in Tabs \ T : recent'[u] = recent[u],
         \A u \in T : Undisturbed(u) /\ Stays(u) => Stays(u)'
  PROVE  SessionFacts'
  <1>1. AnswersCarry' /\ (changed' = {} => minPair' = 1)
    BY DEF SessionFacts, AnswersCarry, Answered
  <1>2. ResultsAreTrue'
    BY DEF SessionFacts, ResultsAreTrue, rotationCompletedAfter
  <1>3. ChangesArePending'
    BY DEF SessionFacts, ChangesArePending, Idle
  <1>4. (Overtaken' <=> Overtaken) /\ \A u \in Tabs : ChangeUnderWay(u)' <=> ChangeUnderWay(u)
    BY DEF Overtaken, ChangeUnderWay, Idle
  <1>5. OvertakenForGood'
    BY <1>4 DEF SessionFacts, OvertakenForGood, Presents, Answered
  <1>6. ASSUME NEW u \in Tabs, Undisturbed(u)'
        PROVE  Stays(u)'
    <2>1. Undisturbed(u)
      BY <1>4, <1>6, UndisturbedBefore
    <2>2. Stays(u)
      BY <2>1 DEF SessionFacts
    <2>3. CASE u \in T
      BY <2>1, <2>2, <2>3
    <2>4. CASE u \notin T
      <3>1. JarGood /\ (RotationMayExplain(u) => RotationMayExplain(u)')
        BY <2>4 DEF JarGood, RotationMayExplain
      <3> QED
        BY <1>4, <2>2, <3>1, OthersStay
    <2> QED
      BY <2>3, <2>4
  <1> QED
    BY <1>1, <1>2, <1>3, <1>5, <1>6 DEF SessionFacts

\* The grace window ends when nothing needs it any more.
LEMMA GraceSession ==
  ASSUME TypeInv, SessionFacts, NEW t \in Tabs, GraceEnds(t), faults' = 0, faults = 0
  PROVE  SessionFacts'
  <1>1. ~Straggler(t)
    BY DEF GraceEnds
  <1>2. /\ UNCHANGED <<locks, jar, minPair, stale, alive, changed, req, phase, before, result, pending,
                       signedIn, refused>>
        /\ \A u \in Tabs \ {t} : recent'[u] = recent[u]
    BY DEF GraceEnds, server, storage, TypeInv, TypeOK
  <1>3. ASSUME Stays(t)
        PROVE  Stays(t)'
    <2>1. ASSUME NEW k \in Kind
          PROVE  Fits(t, k)'
      <3>1. Fits(t, k)
        BY <1>3 DEF Stays
      <3>2. FlagsFit(t, k)'
        BY <1>2, <3>1 DEF Fits, FlagsFit, Idle, ChangeUnderWay
      <3>3. JarServes(t, k)' /\ RefusalsExplained(t, k)'
        BY <1>2, <3>1 DEF Fits, JarServes, RefusalsExplained, Idle, Answered
      <3>4. PairsServe(t, k)'
        BY <1>1, <1>2, <3>1 DEF Fits, PairsServe, Straggler, Idle
      <3> QED
        BY <3>2, <3>3, <3>4 DEF Fits
    <2> QED
      BY <1>2, <1>3, <2>1 DEF Stays
  <1>4. {t} \in SUBSET Tabs /\ faults' = faults /\ (alive' => alive)
    BY <1>2
  <1>5. \A u \in {t} : Undisturbed(u) /\ Stays(u) => Stays(u)'
    BY <1>3
  <1>6. UNCHANGED <<locks, jar, minPair, stale, changed, req, phase, before, result, pending, signedIn,
                    refused>>
    BY <1>2
  <1>7. \A u \in Tabs \ {t} : recent'[u] = recent[u]
    BY <1>2
  <1> QED
    BY <1>4, <1>5, <1>6, <1>7, QuietSession

\* An access token expires while every request is in its first try.
LEMMA ExpirySession ==
  ASSUME TypeInv, SessionFacts, AccessExpires
  PROVE  SessionFacts'
  <1>1. /\ UNCHANGED <<locks, jar, minPair, alive, changed, req, phase, before, result, pending, recent,
                       signedIn, refused, faults>>
        /\ \A t \in Tabs : phase[t] = "none"
        /\ \A t \in Tabs, k \in Kind :
              req[t][k] # <<>> => Top(req[t][k]).at = "sent" /\ Len(req[t][k]) = 1
    BY DEF AccessExpires, storage, guard, Idle
  <1>2. AnswersCarry' /\ (changed' = {} => minPair' = 1)
    BY <1>1 DEF SessionFacts, AnswersCarry, Answered
  <1>3. ResultsAreTrue' /\ ChangesArePending'
    BY <1>1 DEF SessionFacts, ResultsAreTrue, ChangesArePending, Idle
  <1>4. (Overtaken' <=> Overtaken) /\ \A u \in Tabs : ChangeUnderWay(u)' <=> ChangeUnderWay(u)
    BY <1>1 DEF Overtaken, ChangeUnderWay, Idle
  <1>5. OvertakenForGood'
    BY <1>1, <1>4 DEF SessionFacts, OvertakenForGood, Presents, Answered
  <1>6. ASSUME NEW u \in Tabs, Undisturbed(u)'
        PROVE  Stays(u)'
    <2>1. Undisturbed(u)
      BY <1>1, <1>4, <1>6, UndisturbedBefore
    <2>2. Stays(u)
      BY <2>1 DEF SessionFacts
    <2>3. ASSUME NEW k \in Kind, req[u][k] # <<>>
          PROVE  Fits(u, k)'
      <3>1. Fits(u, k) /\ Top(req[u][k]).at = "sent" /\ Len(req[u][k]) = 1
        BY <1>1, <2>2, <2>3 DEF Stays
      <3>2. k # "refresh" => ~Top(req[u][k]).refresh
        BY <2>3, <3>1 DEF Fits, PairsServe, Idle
      <3>3. FlagsFit(u, k)'
        BY <1>1, <3>1 DEF Fits, FlagsFit, Idle
      <3>4. JarServes(u, k)'
        BY <1>1, <3>1, <3>2 DEF JarServes
      <3>5. PairsServe(u, k)'
        BY <1>1, <3>1, <3>2 DEF Fits, PairsServe, Idle, RotationMayExplain
      <3>6. RefusalsExplained(u, k)'
        BY <1>1, <3>1 DEF RefusalsExplained, Answered
      <3> QED
        BY <3>3, <3>4, <3>5, <3>6 DEF Fits
    <2>4. \A k \in Kind : Fits(u, k)'
      BY <1>1, <2>3, IdleFits
    <2> QED
      BY <1>1, <2>2, <2>4 DEF Stays
  <1> QED
    BY <1>2, <1>3, <1>5, <1>6 DEF SessionFacts

LEMMA InitSessionInv == Init => SessionInv
  <1> SUFFICES ASSUME Init PROVE SessionFacts
    BY DEF SessionInv
  <1>1. /\ \A t \in Tabs, k \in Kind : req[t][k] = <<>>
        /\ \A t \in Tabs : phase[t] = "none" /\ signedIn[t]
        /\ minPair = 1 /\ jar = 1
    BY DEF Init
  <1>2. AnswersCarry /\ ResultsAreTrue /\ ChangesArePending
    BY <1>1 DEF AnswersCarry, ResultsAreTrue, ChangesArePending, Answered, Idle, Kind
  <1>3. ~Overtaken
    BY <1>1 DEF Overtaken
  <1>4. \A t \in Tabs : Stays(t)
    BY <1>1 DEF Stays, Fits, FlagsFit, JarServes, PairsServe, RefusalsExplained, Idle, Answered
  <1> QED
    BY <1>1, <1>2, <1>3, <1>4 DEF SessionFacts, OvertakenForGood

LEMMA NextSessionInv == TypeInv /\ ReplayInv /\ SessionInv /\ [Next]_vars => SessionInv'
  <1> SUFFICES ASSUME TypeInv, ReplayInv, SessionInv, [Next]_vars, locks', faults' = 0
               PROVE  SessionFacts'
    BY DEF SessionInv
  <1>1. TypeInv' /\ LockInv /\ faults \in Nat
    BY NextTypeInv DEF ReplayInv, TypeInv, TypeOK
  <1>2. ASSUME locks, faults = 0
        PROVE  SessionFacts /\ CookieInv
    BY <1>2 DEF SessionInv, ReplayInv
  <1>3. ASSUME NEW t \in Tabs, NEW k \in Kind, CalmAction(t, k)
        PROVE  SessionFacts'
    <2>1. locks' = locks /\ faults' = faults
      BY <1>3 DEF CalmAction, Issue, ServerAnswersCall, Receive, RetryAfterRefresh, RefreshFailed,
         RetryAfterRotation
    <2> QED
      BY <1>1, <1>2, <1>3, <2>1, CalmActionSession
  <1>4. ASSUME NEW t \in Tabs, ServerChangesPassword(t)
        PROVE  SessionFacts'
    <2>1. locks' = locks /\ faults' = faults
      BY <1>4 DEF ServerChangesPassword
    <2> QED
      BY <1>1, <1>2, <1>4, <2>1, PasswordSession
  <1>5. ASSUME NEW t \in Tabs, ServerRefreshes(t)
        PROVE  SessionFacts'
    <2>1. locks' = locks /\ faults' = faults
      BY <1>5 DEF ServerRefreshes
    <2> QED
      BY <1>1, <1>2, <1>5, <2>1, RefreshSession
  <1>6. ASSUME NEW t \in Tabs, LockGranted(t)
        PROVE  SessionFacts'
    <2>1. locks' = locks /\ faults' = faults
      BY <1>6 DEF LockGranted
    <2> QED
      BY <1>1, <1>2, <1>6, <2>1, GrantedSession
  <1>7. ASSUME NEW t \in Tabs, readLease(t) \/ waitForAnotherTab(t) \/ writeLease(t) \/ verifyLease(t)
        PROVE  FALSE
    <2>1. locks' = locks /\ ~locks
      BY <1>1, <1>7, LeaseLocks DEF readLease, waitForAnotherTab, writeLease, verifyLease
    <2> QED
      BY <2>1
  <1>8. ASSUME NEW t \in Tabs, TabDies(t) \/ (\E k \in Kind : AnswerLost(t, k)) \/ HeartbeatLate(t)
        PROVE  FALSE
    <2>1. faults' = faults + 1
      BY <1>8 DEF TabDies, AnswerLost, HeartbeatLate
    <2> QED
      BY <1>1, <2>1
  <1>9. ASSUME NEW t \in Tabs, GraceEnds(t)
        PROVE  SessionFacts'
    <2>1. locks' = locks /\ (faults' = faults \/ faults' = faults + 1)
      BY <1>9 DEF GraceEnds
    <2>2. faults = 0
      BY <1>1, <2>1
    <2> QED
      BY <1>1, <1>2, <1>9, <2>1, <2>2, GraceSession
  <1>10. CASE AccessExpires
    <2>1. locks' = locks /\ faults' = faults
      BY <1>10 DEF AccessExpires
    <2> QED
      BY <1>1, <1>2, <1>10, <2>1, ExpirySession
  <1>11. ASSUME UNCHANGED <<locks, jar, minPair, stale, changed, req, phase, before, result, pending, recent,
                            signedIn, refused, faults>>,
                alive' => alive
         PROVE  SessionFacts'
    <2>1. {} \in SUBSET Tabs /\ locks /\ faults = 0
      BY <1>11
    <2>2. SessionFacts
      BY <1>2, <2>1
    <2>3. \A u \in Tabs \ {} : recent'[u] = recent[u]
      BY <1>11
    <2> QED
      BY <1>11, <2>1, <2>2, <2>3, QuietSession
  <1>12. CASE Next
    <2>1. ASSUME NEW t \in Tabs, RefreshStep(t)
          PROVE  SessionFacts'
      BY <2>1, <1>5, <1>6, <1>7 DEF RefreshStep
    <2>2. ASSUME NEW t \in Tabs, Heartbeat(t)
          PROVE  SessionFacts'
      BY <2>2, <1>11 DEF Heartbeat, server, guard
    <2>3. ASSUME NEW t \in Tabs, NEW k \in Kind, Issue(t, k) \/ Step(t, k) \/ AnswerLost(t, k)
          PROVE  SessionFacts'
      BY <2>3, <1>3, <1>8 DEF Step, CalmAction
    <2>4. CASE RevokedElsewhere \/ LeaseExpires
      <3>1. UNCHANGED <<locks, jar, minPair, stale, changed, req, phase, before, result, pending, recent,
                        signedIn, refused, faults>>
        BY <2>4 DEF RevokedElsewhere, LeaseExpires, server, storage, guard
      <3>2. alive' => alive
        BY <2>4 DEF RevokedElsewhere, LeaseExpires, server
      <3> QED
        BY <1>11, <3>1, <3>2
    <2> QED
      BY <1>4, <1>8, <1>9, <1>10, <1>12, <2>1, <2>2, <2>3, <2>4 DEF Next
  <1>13. CASE UNCHANGED vars
    BY <1>11, <1>13 DEF vars, server, storage, guard
  <1> QED
    BY <1>12, <1>13

\* However many tabs there are, and however their requests, retries, refreshes
\* and one password change interleave: where the browser has Web Locks and nothing
\* is lost, a tab shows the session as expired only when it is over, when its retry
\* met an error other than 401, when another tab changed the password, or when the
\* cookies of its own change were overtaken (setupAuthInterceptor).
THEOREM TabsStaySignedIn == Spec => []SignedOutOnlyWhenOver
  <1>1. TypeInv /\ SessionInv => SignedOutOnlyWhenOver
    <2> SUFFICES ASSUME TypeInv, SessionInv, locks, faults = 0, alive, NEW t \in open,
                        ~refused[t], ~(changed \ {t} # {}), ~Overtaken
                 PROVE  signedIn[t]
      BY DEF SignedOutOnlyWhenOver
    <2>1. t \in Tabs /\ Undisturbed(t)
      BY DEF TypeInv, TypeOK, Undisturbed
    <2> QED
      BY <2>1 DEF SessionInv, SessionFacts, Stays
  <1> QED
    BY <1>1, InitTypeInv, NextTypeInv, InitReplayInv, NextReplayInv, InitSessionInv, NextSessionInv,
       PTL DEF Spec
=============================================================================
