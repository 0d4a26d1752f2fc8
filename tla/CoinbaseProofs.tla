--------------------------- MODULE CoinbaseProofs ---------------------------
(***************************************************************************)
(* From a reward to a coinbase, for every reward, leaderboard, number of   *)
(* slots, percentages, tags, scripts, templates and types of firmware: the *)
(* reward is divided exactly, everybody is paid his share, the coinbase    *)
(* input is valid, the coinbases are transactions that pay the block's     *)
(* value and keep their size; and for any number of calls and of ends of   *)
(* the service, whoever gives up and when: no message counts twice, and no *)
(* answer is given for one that was not dealt with.                        *)
(***************************************************************************)
EXTENDS Coinbase, FiniteSetTheorems, SequenceTheorems, NaturalsInduction,
        WellFoundedInduction, TLAPS

-----------------------------------------------------------------------------
(* The socket *)

\* A call has one line, and the line is in one place: not yet written, unread, in a
\* handler's hands, or dealt with; it is dealt with before an answer is written, read and
\* returned.
InOnePlace(c) ==
    /\ call[c] \in {"none", "connected"} =>
          /\ lines[c] = 0 /\ handled[c] = 0 /\ c \notin tasks
          /\ server[c] \notin {"handling", "ok", "error"}
    /\ lines[c] > 0 => /\ handled[c] = 0 /\ c \notin tasks
                       /\ server[c] \notin {"handling", "ok", "error"}
    /\ server[c] = "handling" => handled[c] = 0 /\ c \notin tasks
    /\ c \in tasks => handled[c] = 0 /\ server[c] \notin {"handling", "ok", "error"}
    /\ server[c] \in {"ok", "error"} => handled[c] > 0
    /\ reply[c] # "none" => handled[c] > 0
    /\ answer[c] # "none" => handled[c] > 0
    /\ handled[c] <= 1

\* The inductive invariant.
SocketInv == TypeOK /\ \A c \in Calls : InOnePlace(c)

\* Initially no call is made.
LEMMA Initially == Init => SocketInv
  BY CallsAssumption DEF Init, SocketInv, TypeOK, InOnePlace, Replies

\* Every step of the gateway keeps the invariant.
LEMMA GatewayStep ==
    ASSUME SocketInv, NEW c \in Calls, Gateway(c)
    PROVE  SocketInv'
<1>1. TypeOK /\ \A d \in Calls : InOnePlace(d)
  BY DEF SocketInv
<1>2. TypeOK'
  <2>1. CASE Connect(c) BY <1>1, <2>1 DEF TypeOK, Connect, Replies
  <2>2. CASE NotConnected(c) BY <1>1, <2>2 DEF TypeOK, NotConnected, Return, serverVars, Replies
  <2>3. CASE Send(c)
    <3>1. lines[c] = 0 BY <1>1, <2>3 DEF InOnePlace, Send
    <3>2. lines' \in [Calls -> 0 .. 1] BY <1>1, <2>3, <3>1 DEF TypeOK, Send
    <3>3. QED BY <1>1, <2>3, <3>2 DEF TypeOK, Send, serverVars, Replies
  <2>4. CASE NotSent(c) BY <1>1, <2>4 DEF TypeOK, NotSent, Return, serverVars, Replies
  <2>5. CASE Receive(c) BY <1>1, <2>5 DEF TypeOK, Receive, Return, serverVars, Replies
  <2>6. CASE NoAnswer(c) BY <1>1, <2>6 DEF TypeOK, NoAnswer, Return, serverVars, Replies
  <2>7. QED BY <2>1, <2>2, <2>3, <2>4, <2>5, <2>6 DEF Gateway
<1>3. ASSUME NEW d \in Calls PROVE InOnePlace(d)'
  <2>1. CASE Connect(c) BY <1>1, <2>1 DEF TypeOK, InOnePlace, Connect
  <2>2. CASE NotConnected(c) BY <1>1, <2>2 DEF TypeOK, InOnePlace, NotConnected, Return, serverVars
  <2>3. CASE Send(c) BY <1>1, <2>3 DEF TypeOK, InOnePlace, Send, serverVars
  <2>4. CASE NotSent(c) BY <1>1, <2>4 DEF TypeOK, InOnePlace, NotSent, Return, serverVars
  <2>5. CASE Receive(c) BY <1>1, <2>5 DEF TypeOK, InOnePlace, Receive, Return, serverVars
  <2>6. CASE NoAnswer(c) BY <1>1, <2>6 DEF TypeOK, InOnePlace, NoAnswer, Return, serverVars
  <2>7. QED BY <2>1, <2>2, <2>3, <2>4, <2>5, <2>6 DEF Gateway
<1>4. QED BY <1>2, <1>3 DEF SocketInv

\* Every step of a connection's goroutine, and of a share's, keeps the invariant.
LEMMA ServiceStep ==
    ASSUME SocketInv, NEW c \in Calls, Service(c)
    PROVE  SocketInv'
<1>1. TypeOK /\ \A d \in Calls : InOnePlace(d)
  BY DEF SocketInv
<1>2. TypeOK'
  <2>1. CASE Accept(c) BY <1>1, <2>1 DEF TypeOK, Accept, Goes, gatewayVars, Replies
  <2>2. CASE ScanLine(c) BY <1>1, <2>2 DEF TypeOK, ScanLine, Goes, gatewayVars, Replies
  <2>3. CASE EndOfScan(c) BY <1>1, <2>3 DEF TypeOK, EndOfScan, Goes, gatewayVars, Replies
  <2>4. CASE RecordShare(c) BY <1>1, <2>4 DEF TypeOK, RecordShare, gatewayVars, Replies
  <2>5. CASE Handle(c) BY <1>1, <2>5 DEF TypeOK, Handle, Goes, gatewayVars, Replies
  <2>6. CASE Answer(c) BY <1>1, <2>6 DEF TypeOK, Answer, Goes, gatewayVars, Replies
  <2>7. CASE NotAnswered(c) BY <1>1, <2>7 DEF TypeOK, NotAnswered, Goes, gatewayVars, Replies
  <2>8. QED BY <2>1, <2>2, <2>3, <2>4, <2>5, <2>6, <2>7 DEF Service
<1>3. ASSUME NEW d \in Calls PROVE InOnePlace(d)'
  <2>1. CASE Accept(c) BY <1>1, <2>1 DEF TypeOK, InOnePlace, Accept, Goes, gatewayVars
  <2>2. CASE ScanLine(c) BY <1>1, <2>2 DEF TypeOK, InOnePlace, ScanLine, Goes, gatewayVars
  <2>3. CASE EndOfScan(c) BY <1>1, <2>3 DEF TypeOK, InOnePlace, EndOfScan, Goes, gatewayVars
  <2>4. CASE RecordShare(c) BY <1>1, <2>4 DEF TypeOK, InOnePlace, RecordShare, gatewayVars
  <2>5. CASE Handle(c) BY <1>1, <2>5 DEF TypeOK, InOnePlace, Handle, Goes, gatewayVars
  <2>6. CASE Answer(c) BY <1>1, <2>6 DEF TypeOK, InOnePlace, Answer, Goes, gatewayVars
  <2>7. CASE NotAnswered(c) BY <1>1, <2>7 DEF TypeOK, InOnePlace, NotAnswered, Goes, gatewayVars
  <2>8. QED BY <2>1, <2>2, <2>3, <2>4, <2>5, <2>6, <2>7 DEF Service
<1>4. QED BY <1>2, <1>3 DEF SocketInv

\* The end and the start of the service's process keep the invariant.
LEMMA ProcessStep ==
    ASSUME SocketInv, Die \/ Start
    PROVE  SocketInv'
<1>1. CASE Die
  <2>1. TypeOK'
    <3>1. up' \in BOOLEAN BY <1>1 DEF Die
    <3>2. stops' \in 0 .. MaxStops
      BY <1>1, CallsAssumption DEF SocketInv, TypeOK, Die
    <3>3. server' \in [Calls -> {"none", "queued", "scanning", "handling", "ok", "error", "closed"}]
      BY <1>1 DEF Die
    <3>4. QED BY <1>1, <3>1, <3>2, <3>3 DEF SocketInv, TypeOK, Die, gatewayVars, Replies
  <2>2. ASSUME NEW d \in Calls PROVE InOnePlace(d)'
    BY <1>1 DEF SocketInv, TypeOK, InOnePlace, Die, gatewayVars
  <2>3. QED BY <2>1, <2>2 DEF SocketInv
<1>2. CASE Start BY <1>2 DEF SocketInv, TypeOK, InOnePlace, Start, gatewayVars, Replies
<1>3. QED BY <1>1, <1>2

\* The invariant is kept by every behaviour of the socket.
THEOREM Invariance == Spec => []SocketInv
<1>1. SocketInv /\ [Next]_vars => SocketInv'
  <2>1. CASE UNCHANGED vars BY <2>1 DEF SocketInv, TypeOK, InOnePlace, vars, Replies
  <2>2. ASSUME SocketInv, Next PROVE SocketInv'
    BY <2>2, GatewayStep, ServiceStep, ProcessStep DEF Next
  <2>3. QED BY <2>1, <2>2
<1>2. QED BY Initially, <1>1, PTL DEF Spec

\* Type correctness of the socket.
THEOREM TypeCorrect == Spec => []TypeOK
<1>1. SocketInv => TypeOK BY DEF SocketInv
<1>2. QED BY Invariance, <1>1, PTL

\* A block's report and a share are acted on at most once.
THEOREM NothingHandledTwice == Spec => []HandledOnce
<1>1. SocketInv => HandledOnce BY DEF SocketInv, InOnePlace, HandledOnce
<1>2. QED BY Invariance, <1>1, PTL

\* An answer means that the handler has finished.
THEOREM AnswersAreEarned == Spec => []AnsweredIsHandled
<1>1. SocketInv => AnsweredIsHandled BY DEF SocketInv, InOnePlace, AnsweredIsHandled
<1>2. QED BY Invariance, <1>1, PTL

-----------------------------------------------------------------------------
(* Sums over finite sets. What a sum is for every set is shown by looking    *)
(* at a smallest set for which it is not so.                                 *)

Below == {p \in Nat \X Nat : p[1] < p[2]}

\* A set of naturals has a least element.
LEMMA LeastNat ==
    ASSUME NEW T \in SUBSET Nat, T # {}
    PROVE  \E n \in T : \A m \in T : n <= m
<1>1. IsWellFoundedOn(Below, Nat)
  BY NatLessThanWellFounded DEF OpToRel, Below
<1>2. PICK n \in T : \A m \in T : <<m, n>> \notin Below
  BY <1>1, WFMin
<1>3. \A m \in T : ~(m < n)
  BY <1>2 DEF Below
<1> QED BY <1>3

\* Among the finite sets of a collection there is one with the fewest elements.
LEMMA SmallestSet ==
    ASSUME NEW C, \A S \in C : IsFiniteSet(S), C # {}
    PROVE  \E S \in C : /\ \A U \in C : Cardinality(S) <= Cardinality(U)
                        /\ \A x \in S : S \ {x} \notin C
<1> DEFINE N == {Cardinality(S) : S \in C}
<1>1. N \in SUBSET Nat /\ N # {}
  BY FS_CardinalityType
<1>2. PICK n \in N : \A m \in N : n <= m
  BY <1>1, LeastNat
<1>3. PICK S \in C : n = Cardinality(S)
  BY <1>2
<1>4. \A U \in C : Cardinality(S) <= Cardinality(U)
  BY <1>2, <1>3
<1>5. ASSUME NEW x \in S, S \ {x} \in C PROVE FALSE
  <2>1. Cardinality(S \ {x}) = Cardinality(S) - 1 /\ Cardinality(S) \in Nat
    BY FS_RemoveElement, FS_CardinalityType
  <2>2. Cardinality(S) <= Cardinality(S \ {x})
    BY <1>4, <1>5
  <2> QED BY <2>1, <2>2
<1> QED BY <1>4, <1>5

\* g holds the sums of f over the subsets of D, each from one with an element less.
FirstOf(S) == CHOOSE x \in S : TRUE
IsSums(f, D, g) ==
    g = [s \in SUBSET D |->
            IF s = {} THEN 0 ELSE f[FirstOf(s)] + g[s \ {FirstOf(s)}]]
Sums(f, D) == CHOOSE g : IsSums(f, D, g)

\* A sum is the last of the sums over the subsets.
LEMMA SumsValue ==
    ASSUME NEW f, NEW S
    PROVE  SumFunctionOnSet(f, S) = Sums(f, S)[S]
  BY DEF SumFunctionOnSet, FoldFunctionOnSet, MapThenFoldSet, Sums, IsSums, FirstOf

\* The sum over a subset, from the one over a smaller one.
LEMMA SumsAtSubset ==
    ASSUME NEW f, NEW D, NEW g, IsSums(f, D, g), NEW s \in SUBSET D
    PROVE  g[s] = IF s = {} THEN 0 ELSE f[FirstOf(s)] + g[s \ {FirstOf(s)}]
<1>1. g = [t \in SUBSET D |->
            IF t = {} THEN 0 ELSE f[FirstOf(t)] + g[t \ {FirstOf(t)}]]
  BY DEF IsSums
<1> QED BY <1>1

\* The sum over a set is the same, whichever larger set it was made for.
LEMMA SumsAgree ==
    ASSUME NEW f, NEW D, NEW E, NEW g, NEW h, IsSums(f, D, g), IsSums(f, E, h),
           NEW S \in SUBSET D, S \in SUBSET E, IsFiniteSet(S)
    PROVE  g[S] = h[S]
<1> DEFINE C == {s \in SUBSET (D \cap E) : IsFiniteSet(s) /\ g[s] # h[s]}
<1> SUFFICES ASSUME C # {} PROVE FALSE
  OBVIOUS
<1>1. PICK s \in C : \A x \in s : s \ {x} \notin C
  BY SmallestSet
<1> s \in SUBSET D /\ s \in SUBSET E /\ IsFiniteSet(s) /\ g[s] # h[s]
  BY <1>1
<1>2. CASE s = {}
  <2>1. g[s] = 0 /\ h[s] = 0
    BY <1>2, SumsAtSubset
  <2> QED BY <2>1
<1>3. CASE s # {}
  <2>1. FirstOf(s) \in s
    BY <1>3 DEF FirstOf
  <2>2. IsFiniteSet(s \ {FirstOf(s)})
    BY <2>1, FS_RemoveElement
  <2>3. g[s \ {FirstOf(s)}] = h[s \ {FirstOf(s)}]
    BY <1>1, <2>1, <2>2
  <2> HIDE DEF C
  <2>4. g[s] = f[FirstOf(s)] + g[s \ {FirstOf(s)}]
    BY <1>3, SumsAtSubset
  <2>5. h[s] = f[FirstOf(s)] + h[s \ {FirstOf(s)}]
    BY <1>3, SumsAtSubset
  <2> QED BY <2>3, <2>4, <2>5
<1> QED BY <1>2, <1>3

\* There are such sums for every finite set.
LEMMA SumsExist ==
    ASSUME NEW f, NEW S, IsFiniteSet(S)
    PROVE  IsSums(f, S, Sums(f, S))
<1> DEFINE C == {s \in SUBSET S : ~\E g : IsSums(f, s, g)}
<1> SUFFICES ASSUME C # {} PROVE FALSE
  BY DEF Sums
<1>1. \A s \in SUBSET S : IsFiniteSet(s)
  BY FS_Subset
<1>2. PICK D \in C : \A U \in C : Cardinality(D) <= Cardinality(U)
  BY <1>1, SmallestSet
<1>3. ASSUME NEW s \in SUBSET D, s # D PROVE IsSums(f, s, Sums(f, s))
  <2>1. Cardinality(s) < Cardinality(D)
    BY <1>1, <1>3, FS_Subset, FS_CardinalityType
  <2>2. s \notin C
    BY <1>1, <1>2, <2>1, FS_CardinalityType
  <2> QED BY <2>2 DEF Sums
<1> DEFINE Less(s) == s \ {FirstOf(s)}
           g == [s \in SUBSET D |->
                    IF s = {} THEN 0 ELSE f[FirstOf(s)] + Sums(f, Less(s))[Less(s)]]
<1>4. ASSUME NEW s \in SUBSET D, s # {} PROVE g[Less(s)] = Sums(f, Less(s))[Less(s)]
  <2>1. FirstOf(s) \in s
    BY <1>4 DEF FirstOf
  <2>2. Less(s) \in SUBSET D /\ Less(s) # D
    BY <2>1
  <2>3. IsSums(f, Less(s), Sums(f, Less(s)))
    BY <1>3, <2>2
  <2>4. CASE Less(s) = {}
    <3>1. Sums(f, Less(s))[Less(s)] = 0
      BY <2>3, <2>4, SumsAtSubset
    <3> QED BY <2>2, <2>4, <3>1
  <2>5. CASE Less(s) # {}
    <3> DEFINE t == Less(s)
    <3> HIDE DEF Less
    <3>1. Sums(f, t)[t] = f[FirstOf(t)] + Sums(f, t)[t \ {FirstOf(t)}]
      BY <2>3, <2>5, SumsAtSubset
    <3>2. t \ {FirstOf(t)} \in SUBSET D /\ t \ {FirstOf(t)} # D
      BY <2>2
    <3>3. IsSums(f, t \ {FirstOf(t)}, Sums(f, t \ {FirstOf(t)}))
      BY <1>3, <3>2
    <3>4. Sums(f, t)[t \ {FirstOf(t)}] = Sums(f, t \ {FirstOf(t)})[t \ {FirstOf(t)}]
      BY <1>1, <2>3, <3>2, <3>3, SumsAgree
    <3>5. g[t] = f[FirstOf(t)] + Sums(f, t \ {FirstOf(t)})[t \ {FirstOf(t)}]
      BY <2>2, <2>5 DEF Less
    <3> QED BY <3>1, <3>4, <3>5
  <2> QED BY <2>4, <2>5
<1>5. IsSums(f, D, g)
  BY <1>4 DEF IsSums
<1> QED BY <1>2, <1>5

\* A sum over no element.
LEMMA SumOfNone ==
    ASSUME NEW f
    PROVE  SumFunctionOnSet(f, {}) = 0
  BY SumsValue, SumsExist, SumsAtSubset, FS_EmptySet

\* A sum's first element, whichever that is.
LEMMA SumOfFirst ==
    ASSUME NEW f, NEW S, IsFiniteSet(S), S # {}
    PROVE  SumFunctionOnSet(f, S) = f[FirstOf(S)] + SumFunctionOnSet(f, S \ {FirstOf(S)})
<1> DEFINE R == S \ {FirstOf(S)}
<1>1. IsFiniteSet(R) /\ R \in SUBSET S /\ R \in SUBSET R
  BY FS_Subset
<1>2. Sums(f, S)[R] = Sums(f, R)[R]
  BY <1>1, SumsExist, SumsAgree
<1>3. Sums(f, S)[S] = f[FirstOf(S)] + Sums(f, S)[R]
  BY SumsExist, SumsAtSubset
<1> QED BY <1>2, <1>3, SumsValue

\* A sum of integers is an integer.
LEMMA SumType ==
    ASSUME NEW f, NEW S, IsFiniteSet(S), \A x \in S : f[x] \in Int
    PROVE  SumFunctionOnSet(f, S) \in Int
<1> DEFINE C == {s \in SUBSET S : SumFunctionOnSet(f, s) \notin Int}
<1> SUFFICES ASSUME C # {} PROVE FALSE
  OBVIOUS
<1>1. \A s \in SUBSET S : IsFiniteSet(s)
  BY FS_Subset
<1>2. PICK s \in C : \A x \in s : s \ {x} \notin C
  BY <1>1, SmallestSet
<1>3. s # {}
  BY <1>2, SumOfNone
<1>4. FirstOf(s) \in s
  BY <1>3 DEF FirstOf
<1>5. SumFunctionOnSet(f, s \ {FirstOf(s)}) \in Int
  BY <1>2, <1>4
<1>6. SumFunctionOnSet(f, s) = f[FirstOf(s)] + SumFunctionOnSet(f, s \ {FirstOf(s)})
  BY <1>1, <1>3, SumOfFirst
<1> QED BY <1>2, <1>4, <1>5, <1>6

\* Any element may be taken out of a sum.
LEMMA SumOfOneMore ==
    ASSUME NEW f, NEW S, IsFiniteSet(S), \A x \in S : f[x] \in Int, NEW y \in S
    PROVE  SumFunctionOnSet(f, S) = f[y] + SumFunctionOnSet(f, S \ {y})
<1> DEFINE Total(s) == SumFunctionOnSet(f, s)
           C == {s \in SUBSET S : \E x \in s : Total(s) # f[x] + Total(s \ {x})}
<1> SUFFICES ASSUME C # {} PROVE FALSE
  OBVIOUS
<1>1. \A s \in SUBSET S : IsFiniteSet(s) /\ Total(s) \in Int
  BY FS_Subset, SumType
<1>2. PICK s \in C : \A x \in s : s \ {x} \notin C
  BY <1>1, SmallestSet
<1>3. PICK x \in s : Total(s) # f[x] + Total(s \ {x})
  BY <1>2
<1> DEFINE z == FirstOf(s)
<1>4. z \in s
  BY <1>3 DEF FirstOf
<1>5. Total(s) = f[z] + Total(s \ {z})
  BY <1>1, <1>3, SumOfFirst
<1>6. x # z
  BY <1>3, <1>5
<1> HIDE DEF z, Total
<1>7. Total(s \ {z}) = f[x] + Total((s \ {z}) \ {x})
  BY <1>2, <1>3, <1>4, <1>6
<1>8. Total(s \ {x}) = f[z] + Total((s \ {z}) \ {x})
  <2>1. Total(s \ {x}) = f[z] + Total((s \ {x}) \ {z})
    BY <1>2, <1>3, <1>4, <1>6
  <2>2. (s \ {x}) \ {z} = (s \ {z}) \ {x}
    OBVIOUS
  <2> QED BY <2>1, <2>2
<1>9. f[x] \in Int /\ f[z] \in Int /\ Total((s \ {z}) \ {x}) \in Int
  BY <1>1, <1>3, <1>4
<1>10. f[z] + (f[x] + Total((s \ {z}) \ {x})) = f[x] + (f[z] + Total((s \ {z}) \ {x}))
  BY <1>9
<1> QED BY <1>3, <1>5, <1>7, <1>8, <1>10

\* A sum of equal numbers.
LEMMA SumOfEqual ==
    ASSUME NEW f, NEW S, IsFiniteSet(S), NEW p \in Int, \A x \in S : f[x] = p
    PROVE  SumFunctionOnSet(f, S) = p * Cardinality(S)
<1> DEFINE C == {s \in SUBSET S : SumFunctionOnSet(f, s) # p * Cardinality(s)}
<1> SUFFICES ASSUME C # {} PROVE FALSE
  OBVIOUS
<1>1. \A s \in SUBSET S : IsFiniteSet(s)
  BY FS_Subset
<1>2. PICK s \in C : \A x \in s : s \ {x} \notin C
  BY <1>1, SmallestSet
<1>3. s # {}
  <2>1. SumFunctionOnSet(f, {}) = 0 /\ Cardinality({}) = 0
    BY SumOfNone, FS_EmptySet
  <2>2. p * 0 = 0
    OBVIOUS
  <2> QED BY <1>2, <2>1, <2>2
<1> DEFINE x == FirstOf(s)
           n == Cardinality(s)
<1>4. x \in s
  BY <1>3 DEF FirstOf
<1>5. n \in Nat /\ Cardinality(s \ {x}) = n - 1
  BY <1>1, <1>4, FS_RemoveElement, FS_CardinalityType
<1>6. SumFunctionOnSet(f, s \ {x}) = p * (n - 1)
  BY <1>2, <1>4, <1>5
<1>7. SumFunctionOnSet(f, s) = p + SumFunctionOnSet(f, s \ {x})
  BY <1>1, <1>3, <1>4, SumOfFirst
<1>8. p + p * (n - 1) = p * n
  <2> HIDE DEF n
  <2> QED BY <1>5
<1> QED BY <1>2, <1>6, <1>7, <1>8

\* An element more in a sum.
LEMMA SumOfAdded ==
    ASSUME NEW f, NEW S, IsFiniteSet(S), NEW y, y \notin S, f[y] \in Int,
           \A x \in S : f[x] \in Int
    PROVE  /\ SumFunctionOnSet(f, S \cup {y}) = f[y] + SumFunctionOnSet(f, S)
           /\ SumFunctionOnSet(f, S) \in Int /\ IsFiniteSet(S \cup {y})
<1> DEFINE U == S \cup {y}
<1>1. IsFiniteSet(U) /\ y \in U /\ (\A x \in U : f[x] \in Int) /\ U \ {y} = S
  BY FS_AddElement
<1>2. SumFunctionOnSet(f, U) = f[y] + SumFunctionOnSet(f, U \ {y})
  <2> HIDE DEF U
  <2> QED BY <1>1, SumOfOneMore
<1> QED BY <1>1, <1>2, SumType

\* A sum of one number.
LEMMA SumOfOne ==
    ASSUME NEW f, NEW y, f[y] \in Int
    PROVE  SumFunctionOnSet(f, {y}) = f[y]
<1>1. /\ SumFunctionOnSet(f, {} \cup {y}) = f[y] + SumFunctionOnSet(f, {})
      /\ {} \cup {y} = {y}
  BY SumOfAdded, FS_EmptySet
<1> QED BY <1>1, SumOfNone

\* A sum of two.
LEMMA SumOfTwo ==
    ASSUME NEW f, NEW y, NEW z, y # z, f[y] \in Int, f[z] \in Int
    PROVE  SumFunctionOnSet(f, {y, z}) = f[y] + f[z]
<1>1. /\ SumFunctionOnSet(f, {y} \cup {z}) = f[z] + SumFunctionOnSet(f, {y})
      /\ {y} \cup {z} = {y, z}
  BY SumOfAdded, FS_Singleton
<1>2. SumFunctionOnSet(f, {y}) = f[y]
  BY SumOfOne
<1>3. f[z] + f[y] = f[y] + f[z]
  OBVIOUS
<1> QED BY <1>1, <1>2, <1>3

-----------------------------------------------------------------------------
(* Sequences *)

\* A function on the first numbers is a sequence.
LEMMA ListIsSeq ==
    ASSUME NEW T, NEW n \in Nat, NEW f \in [1 .. n -> T]
    PROVE  f \in Seq(T) /\ Len(f) = n /\ DOMAIN f = 1 .. n
  BY SeqDef, LenProperties

\* Three sequences in a row.
LEMMA ThreeParts ==
    ASSUME NEW T, NEW s \in Seq(T), NEW t \in Seq(T), NEW u \in Seq(T)
    PROVE  /\ s \o t \o u \in Seq(T)
           /\ Len(s \o t \o u) = Len(s) + Len(t) + Len(u)
           /\ \A i \in 1 .. Len(s) : (s \o t \o u)[i] = s[i]
           /\ \A i \in 1 .. Len(t) : (s \o t \o u)[Len(s) + i] = t[i]
           /\ \A i \in 1 .. Len(u) : (s \o t \o u)[Len(s) + Len(t) + i] = u[i]
<1>1. Len(s) \in Nat /\ Len(t) \in Nat /\ Len(u) \in Nat
  OBVIOUS
<1>2. /\ s \o t \in Seq(T) /\ Len(s \o t) = Len(s) + Len(t)
      /\ \A i \in 1 .. Len(s) + Len(t) :
            (s \o t)[i] = IF i <= Len(s) THEN s[i] ELSE t[i - Len(s)]
  BY ConcatProperties
<1> DEFINE st == s \o t
<1>3. /\ st \o u \in Seq(T) /\ Len(st \o u) = Len(st) + Len(u)
      /\ \A i \in 1 .. Len(st) + Len(u) :
            (st \o u)[i] = IF i <= Len(st) THEN st[i] ELSE u[i - Len(st)]
  BY <1>2, ConcatProperties
<1>4. ASSUME NEW i \in 1 .. Len(s) PROVE (st \o u)[i] = s[i]
  <2>1. i \in 1 .. Len(s) + Len(t) /\ i \in 1 .. Len(st) + Len(u) /\ i <= Len(st)
    BY <1>1, <1>2
  <2> QED BY <1>2, <1>3, <2>1
<1>5. ASSUME NEW i \in 1 .. Len(t) PROVE (st \o u)[Len(s) + i] = t[i]
  <2> DEFINE j == Len(s) + i
  <2>1. /\ j \in 1 .. Len(s) + Len(t) /\ j \in 1 .. Len(st) + Len(u) /\ j <= Len(st)
        /\ ~(j <= Len(s)) /\ j - Len(s) = i
    BY <1>1, <1>2
  <2>2. (st \o u)[j] = st[j] /\ st[j] = t[j - Len(s)]
    BY <1>2, <1>3, <2>1
  <2> QED BY <2>1, <2>2
<1>6. ASSUME NEW i \in 1 .. Len(u) PROVE (st \o u)[Len(s) + Len(t) + i] = u[i]
  <2> DEFINE j == Len(s) + Len(t) + i
  <2>1. j \in 1 .. Len(st) + Len(u) /\ ~(j <= Len(st)) /\ j - Len(st) = i
    BY <1>1, <1>2
  <2>2. (st \o u)[j] = u[j - Len(st)]
    BY <1>3, <2>1
  <2> QED BY <2>1, <2>2
<1> QED BY <1>1, <1>2, <1>3, <1>4, <1>5, <1>6

-----------------------------------------------------------------------------
(* Division and the rounded shares of a reward *)

\* What integer division leaves is less than the divisor.
LEMMA DivFacts ==
    ASSUME NEW x \in Nat, NEW m \in Nat \ {0}
    PROVE  /\ x \div m \in Nat /\ (x \div m) * m <= x /\ x < (x \div m) * m + m
  OBVIOUS

\* A product of naturals is one.
LEMMA TimesType ==
    ASSUME NEW x \in Nat, NEW y \in Nat
    PROVE  x * y \in Nat
  OBVIOUS

\* Multiplication keeps the order.
LEMMA TimesMonotone ==
    ASSUME NEW x \in Int, NEW y \in Int, x <= y, NEW z \in Nat
    PROVE  x * z <= y * z
  OBVIOUS

\* A number of thousandths is no more than the whole.
LEMMA PerMilleOf ==
    ASSUME NEW m \in Nat, m <= 1000, NEW q \in Nat
    PROVE  m * q <= 1000 * q
  OBVIOUS

\* Division keeps the order.
LEMMA DivMonotone ==
    ASSUME NEW x \in Nat, NEW y \in Nat, x <= y, NEW m \in Nat \ {0}
    PROVE  x \div m <= y \div m
<1>1. SUFFICES ASSUME y \div m < x \div m PROVE FALSE
  BY DivFacts
<1>2. (y \div m) + 1 <= x \div m
  BY <1>1, DivFacts
<1>3. ((y \div m) + 1) * m <= (x \div m) * m
  BY <1>2, TimesMonotone, DivFacts
<1>4. ((y \div m) + 1) * m = (y \div m) * m + m
  BY DivFacts
<1> QED BY <1>3, <1>4, DivFacts

\* A reward consists of thousands and a rest.
LEMMA Thousands ==
    ASSUME NEW total \in Nat
    PROVE  /\ total \div 1000 \in Nat /\ total % 1000 \in Nat /\ total % 1000 < 1000
           /\ total = (total \div 1000) * 1000 + (total % 1000)
<1>1. total \div 1000 \in Nat
  OBVIOUS
<1>2. total % 1000 \in Nat /\ total % 1000 < 1000
  OBVIOUS
<1>3. total = (total \div 1000) * 1000 + (total % 1000)
  OBVIOUS
<1> QED BY <1>1, <1>2, <1>3

\* A share of a reward is a number of satoshis.
LEMMA CutType ==
    ASSUME NEW total \in Nat, NEW m \in Nat
    PROVE  Cut(total, m) \in Nat
<1>1. m * (total \div 1000) \in Nat /\ m * (total % 1000) \in Nat
  BY Thousands, TimesType
<1>2. (m * (total % 1000)) \div 1000 \in Nat
  BY <1>1, DivFacts
<1> QED BY <1>1, <1>2 DEF Cut

\* The exact share of the whole thousands, and all of the rest.
AtMost(total, k) == k * (total \div 1000) + (total % 1000)

\* For a number of thousandths that is no more than the reward.
LEMMA AtMostType ==
    ASSUME NEW total \in Nat, NEW k \in Nat, k <= 1000
    PROVE  AtMost(total, k) \in Nat /\ AtMost(total, k) <= total
<1> DEFINE q == total \div 1000
           r == total % 1000
<1>1. q \in Nat /\ r \in Nat /\ total = q * 1000 + r
  BY Thousands
<1>2. AtMost(total, k) = k * q + r
  BY DEF AtMost
<1> HIDE DEF q, r
<1>3. k * q \in Nat /\ k * q <= 1000 * q
  BY <1>1, PerMilleOf, TimesType
<1> QED BY <1>1, <1>2, <1>3

\* Two shares that are no more than the whole by their percentages are no more than it in
\* satoshis: of whole thousands they are exact, of the rest no more than the rest.
LEMMA CutsFit ==
    ASSUME NEW total \in Nat, NEW m \in Nat, NEW n \in Nat, m + n <= 1000
    PROVE  Cut(total, m) + Cut(total, n) <= AtMost(total, m + n)
<1> DEFINE q == total \div 1000
           r == total % 1000
           a == (m * r) \div 1000
           b == (n * r) \div 1000
<1>1. q \in Nat /\ r \in Nat /\ m * r \in Nat /\ n * r \in Nat
  BY Thousands, TimesType
<1>2. a \in Nat /\ b \in Nat /\ a * 1000 <= m * r /\ b * 1000 <= n * r
  BY <1>1, DivFacts
<1>3. (m + n) * r <= 1000 * r /\ (m + n) * r = m * r + n * r
  BY <1>1, PerMilleOf
<1>4. a + b <= r
  <2> HIDE DEF a, b, r
  <2> QED BY <1>1, <1>2, <1>3
<1>5. m * q + n * q = (m + n) * q
  BY <1>1
<1>6. m * q \in Nat /\ n * q \in Nat
  BY <1>1, TimesType
<1>7. Cut(total, m) = m * q + a /\ Cut(total, n) = n * q + b
  BY DEF Cut
<1> HIDE DEF q, r, a, b
<1>8. Cut(total, m) + Cut(total, n) <= (m + n) * q + r
  BY <1>1, <1>2, <1>4, <1>5, <1>6, <1>7
<1> QED BY <1>8 DEF q, r, AtMost

\* One share.
LEMMA CutFits ==
    ASSUME NEW total \in Nat, NEW m \in Nat, m <= 1000
    PROVE  Cut(total, m) <= total
<1>1. Cut(total, m) + Cut(total, 0) <= AtMost(total, m)
  BY CutsFit
<1>2. Cut(total, m) \in Nat /\ Cut(total, 0) \in Nat
  BY CutType
<1> QED BY <1>1, <1>2, AtMostType

\* The parts of a reward: none is negative, and what the slots leave is less than one
\* satoshi for each of them.
LEMMA PartsOfReward ==
    ASSUME NEW total \in Nat
    PROVE  /\ FinderAmount(total) \in Nat /\ PoolFeeBase(total) \in Nat
           /\ Remaining(total) \in Nat /\ PerSlot(total) \in Nat
           /\ Dust(total) \in 0 .. MaxRankedSlots - 1
           /\ FinderAmount(total) + PoolFeeBase(total)
                + PerSlot(total) * MaxRankedSlots + Dust(total) = total
<1> USE SlotsAssumption, PercentAssumption
<1>1. FinderAmount(total) \in Nat /\ PoolFeeBase(total) \in Nat
  BY CutType DEF FinderAmount, PoolFeeBase
<1>2. FinderAmount(total) + PoolFeeBase(total) <= total
  <2>1. FinderAmount(total) + PoolFeeBase(total) <= AtMost(total, FinderPerMille + PoolFeePerMille)
    BY CutsFit DEF FinderAmount, PoolFeeBase
  <2> QED BY <1>1, <2>1, AtMostType
<1>3. Remaining(total) \in Nat
  BY <1>1, <1>2 DEF Remaining
<1>4. /\ PerSlot(total) \in Nat /\ PerSlot(total) * MaxRankedSlots <= Remaining(total)
      /\ Remaining(total) < PerSlot(total) * MaxRankedSlots + MaxRankedSlots
  BY <1>3, DivFacts DEF PerSlot
<1>5. PerSlot(total) * MaxRankedSlots \in Nat
  BY <1>4, TimesType
<1>6. Dust(total) \in 0 .. MaxRankedSlots - 1
  BY <1>3, <1>4, <1>5 DEF Dust
<1>7. /\ Remaining(total) = total - FinderAmount(total) - PoolFeeBase(total)
      /\ Dust(total) = Remaining(total) - PerSlot(total) * MaxRankedSlots
  BY DEF Remaining, Dust
<1>8. FinderAmount(total) + PoolFeeBase(total) + PerSlot(total) * MaxRankedSlots + Dust(total) = total
  BY <1>1, <1>3, <1>5, <1>6, <1>7
<1> QED BY <1>1, <1>3, <1>4, <1>6, <1>8

\* What the pool takes with the slots nobody has filled.
LEMMA PoolFeeOutValue ==
    ASSUME NEW total \in Nat, NEW ranked \in Nat
    PROVE  /\ FilledSlots(ranked) \in 0 .. MaxRankedSlots
           /\ PoolFeeOut(total, ranked) \in Nat
           /\ FinderAmount(total) + PerSlot(total) * FilledSlots(ranked)
                + PoolFeeOut(total, ranked) = total
<1> DEFINE k == FilledSlots(ranked)
           p == PerSlot(total)
<1>1. k \in 0 .. MaxRankedSlots
  BY SlotsAssumption DEF FilledSlots
<1>2. MaxRankedSlots - k \in Nat /\ MaxRankedSlots \in Nat
  BY <1>1, SlotsAssumption
<1>3. /\ p \in Nat /\ PoolFeeBase(total) \in Nat /\ FinderAmount(total) \in Nat
      /\ Dust(total) \in Nat
      /\ FinderAmount(total) + PoolFeeBase(total) + p * MaxRankedSlots + Dust(total) = total
  BY PartsOfReward
<1>4. PoolFeeOut(total, ranked) = PoolFeeBase(total) + p * (MaxRankedSlots - k) + Dust(total)
  BY DEF PoolFeeOut
<1> HIDE DEF k, p
<1>5. p * k + p * (MaxRankedSlots - k) = p * MaxRankedSlots
  BY <1>1, <1>2, <1>3
<1>6. p * (MaxRankedSlots - k) \in Nat /\ p * k \in Nat /\ p * MaxRankedSlots \in Nat
  BY <1>1, <1>2, <1>3, TimesType
<1>7. PoolFeeOut(total, ranked) \in Nat
  BY <1>3, <1>4, <1>6
<1>8. FinderAmount(total) + p * k + PoolFeeOut(total, ranked) = total
  BY <1>3, <1>4, <1>5, <1>6
<1> QED BY <1>1, <1>7, <1>8 DEF k, p

-----------------------------------------------------------------------------
(* The reward is divided exactly *)

\* The outputs one by one.
HasShape(outs, miner, total, ranked) ==
    LET k == FilledSlots(ranked)
    IN  /\ k \in Nat /\ k <= ranked /\ k <= MaxRankedSlots
        /\ Len(outs) = k + 2 /\ DOMAIN outs = 1 .. k + 2
        /\ outs[1] = Output(miner, FinderAmount(total))
        /\ \A i \in 2 .. k + 1 : outs[i] = Output(i - 1, PerSlot(total))
        /\ outs[k + 2] = Output(PoolFeeAddress, PoolFeeOut(total, ranked))

\* Those of a template are so.
LEMMA OutputsShape ==
    ASSUME NEW total, NEW ranked \in Nat, NEW miner
    PROVE  HasShape(BuildOutputs(miner, total, [i \in 1 .. ranked |-> i]), miner, total, ranked)
<1> DEFINE k == FilledSlots(ranked)
           list == [i \in 1 .. ranked |-> i]
           slots == [i \in 1 .. k |-> Output(list[i], PerSlot(total))]
           first == <<Output(miner, FinderAmount(total))>>
           last == <<Output(PoolFeeAddress, PoolFeeOut(total, ranked))>>
           outs == BuildOutputs(miner, total, list)
<1>1. k \in Nat /\ k <= ranked /\ k <= MaxRankedSlots
  BY SlotsAssumption DEF FilledSlots
<1>2. Len(list) = ranked
  OBVIOUS
<1>3. outs = first \o slots \o last
  BY <1>2 DEF BuildOutputs
<1> DEFINE T == {slots[i] : i \in 1 .. k} \cup {first[1], last[1]}
<1>4. /\ slots \in Seq(T) /\ Len(slots) = k
      /\ \A i \in 1 .. k : slots[i] = Output(i, PerSlot(total))
  <2>1. slots \in [1 .. k -> T]
    OBVIOUS
  <2>2. \A i \in 1 .. k : slots[i] = Output(i, PerSlot(total))
    BY <1>1
  <2> HIDE DEF slots, T
  <2> QED BY <1>1, <2>1, <2>2, ListIsSeq
<1>5. /\ first \in Seq(T) /\ Len(first) = 1 /\ first[1] = Output(miner, FinderAmount(total))
      /\ last \in Seq(T) /\ Len(last) = 1
      /\ last[1] = Output(PoolFeeAddress, PoolFeeOut(total, ranked))
  OBVIOUS
<1> HIDE DEF k, list, slots, first, last, outs, T
<1>a. first \in Seq(T) /\ slots \in Seq(T) /\ last \in Seq(T)
  BY <1>4, <1>5
<1>6. /\ outs \in Seq(T) /\ Len(outs) = Len(first) + Len(slots) + Len(last)
      /\ \A i \in 1 .. Len(first) : outs[i] = first[i]
      /\ \A i \in 1 .. Len(slots) : outs[Len(first) + i] = slots[i]
      /\ \A i \in 1 .. Len(last) : outs[Len(first) + Len(slots) + i] = last[i]
  BY <1>3, <1>a, ThreeParts
<1>7. Len(outs) = k + 2 /\ DOMAIN outs = 1 .. k + 2
  BY <1>1, <1>4, <1>5, <1>6, LenProperties
<1>8. outs[1] = first[1] /\ outs[k + 2] = last[1]
  <2>1. outs[1 + k + 1] = last[1]
    BY <1>1, <1>4, <1>5, <1>6
  <2>2. 1 + k + 1 = k + 2
    BY <1>1
  <2> QED BY <1>5, <1>6, <2>1, <2>2
<1>9. ASSUME NEW i \in 2 .. k + 1 PROVE outs[i] = Output(i - 1, PerSlot(total))
  <2>1. i - 1 \in 1 .. k /\ 1 + (i - 1) = i
    BY <1>1
  <2>2. outs[1 + (i - 1)] = slots[i - 1]
    BY <1>4, <1>5, <1>6, <2>1
  <2> QED BY <1>4, <2>1, <2>2
<1>10. HasShape(outs, miner, total, ranked)
  BY <1>1, <1>5, <1>7, <1>8, <1>9 DEF HasShape, k
<1> QED BY <1>10 DEF outs, list

\* The outputs of a template sum to the reward.
LEMMA OutputsSum ==
    ASSUME NEW total \in Nat, NEW ranked \in Nat, NEW miner
    PROVE  LET outs == BuildOutputs(miner, total, [i \in 1 .. ranked |-> i])
           IN  SumOf(outs) = total /\ \A i \in DOMAIN outs : outs[i].amount \in Nat
<1> DEFINE outs == BuildOutputs(miner, total, [i \in 1 .. ranked |-> i])
           k == FilledSlots(ranked)
           p == PerSlot(total)
           f == Amounts(outs)
           S == 2 .. k + 1
<1>1. /\ k \in Nat /\ DOMAIN outs = 1 .. k + 2
      /\ outs[1] = Output(miner, FinderAmount(total))
      /\ \A i \in 2 .. k + 1 : outs[i] = Output(i - 1, p)
      /\ outs[k + 2] = Output(PoolFeeAddress, PoolFeeOut(total, ranked))
  <2>1. HasShape(outs, miner, total, ranked)
    BY OutputsShape
  <2> HIDE DEF outs
  <2> QED BY <2>1 DEF HasShape
<1>2. /\ p \in Nat /\ FinderAmount(total) \in Nat /\ PoolFeeOut(total, ranked) \in Nat
      /\ FinderAmount(total) + p * k + PoolFeeOut(total, ranked) = total
  BY PartsOfReward, PoolFeeOutValue
<1> HIDE DEF outs, k, p
<1>3. f[1] = FinderAmount(total) /\ f[k + 2] = PoolFeeOut(total, ranked)
  BY <1>1 DEF Amounts, Output
<1>4. ASSUME NEW i \in S PROVE f[i] = p
  <2>1. i \in 1 .. k + 2 /\ outs[i] = Output(i - 1, p)
    BY <1>1
  <2> QED BY <1>1, <2>1 DEF Amounts, Output
<1>5. /\ IsFiniteSet(S) /\ Cardinality(S) = k
      /\ 1 \notin S /\ k + 2 \notin S \cup {1} /\ (S \cup {1}) \cup {k + 2} = 1 .. k + 2
  <2>1. IsFiniteSet(S) /\ Cardinality(S) = k
    <3>1. 2 \in Int /\ k + 1 \in Int
      BY <1>1
    <3>2. IsFiniteSet(S) /\ Cardinality(S) = IF 2 > k + 1 THEN 0 ELSE (k + 1) - 2 + 1
      BY <3>1, FS_Interval
    <3> QED BY <1>1, <3>2
  <2>2. 1 \notin S /\ k + 2 \notin S \cup {1} /\ (S \cup {1}) \cup {k + 2} = 1 .. k + 2
    BY <1>1
  <2> QED BY <2>1, <2>2
<1> DEFINE Total(s) == SumFunctionOnSet(f, s)
<1>6. SumOf(outs) = Total(1 .. k + 2)
  BY <1>1 DEF SumOf, SumFunction, Amounts
<1> DEFINE U == S \cup {1}
           F == FinderAmount(total)
           Q == PoolFeeOut(total, ranked)
<1> HIDE DEF f, S, F, Q
<1>7. Total(S) = p * k
  BY <1>2, <1>4, <1>5, SumOfEqual
<1>8. f[1] \in Int /\ f[k + 2] \in Int /\ \A i \in S : f[i] \in Int
  BY <1>2, <1>3, <1>4 DEF F, Q
<1>9. /\ Total(U) = f[1] + Total(S) /\ IsFiniteSet(U)
  BY <1>5, <1>8, SumOfAdded
<1>10. Total(U \cup {k + 2}) = f[k + 2] + Total(U)
  <2>1. k + 2 \notin U /\ \A i \in U : f[i] \in Int
    BY <1>5, <1>8
  <2> HIDE DEF U
  <2> QED BY <1>8, <1>9, <2>1, SumOfAdded
<1>11. p * k \in Nat
  BY <1>1, <1>2, TimesType
<1>12. SumOf(outs) = total
  <2>1. SumOf(outs) = Q + (F + p * k)
    BY <1>3, <1>5, <1>6, <1>7, <1>9, <1>10 DEF F, Q
  <2>2. F \in Nat /\ Q \in Nat /\ F + p * k + Q = total
    BY <1>2 DEF F, Q
  <2> QED BY <1>11, <2>1, <2>2
<1>13. ASSUME NEW i \in DOMAIN outs PROVE outs[i].amount \in Nat
  <2>1. i = 1 \/ i \in 2 .. k + 1 \/ i = k + 2
    BY <1>1, <1>13
  <2>2. \A a, x : Output(a, x).amount = x
    BY DEF Output
  <2>3. CASE i = 1 BY <1>1, <1>2, <2>2, <2>3
  <2>4. CASE i \in 2 .. k + 1 BY <1>1, <1>2, <2>2, <2>4
  <2>5. CASE i = k + 2 BY <1>1, <1>2, <2>2, <2>5
  <2> QED BY <2>1, <2>3, <2>4, <2>5
<1> QED BY <1>12, <1>13 DEF outs

\* And so do the solo pool's two.
LEMMA SoloOutputsSum ==
    ASSUME NEW total \in Nat, NEW miner
    PROVE  LET outs == SoloOutputs(miner, total)
           IN  SumOf(outs) = total /\ \A i \in DOMAIN outs : outs[i].amount \in Nat
<1> DEFINE outs == SoloOutputs(miner, total)
           fee == Cut(total, SoloFeePerMille)
           f == Amounts(outs)
<1>1. fee \in Nat /\ fee <= total
  BY CutType, CutFits, PercentAssumption
<1> HIDE DEF fee
<1>2. /\ DOMAIN outs = {1, 2}
      /\ outs[1].amount = total - fee /\ outs[2].amount = fee
  BY DEF SoloOutputs, Output, fee
<1> HIDE DEF outs
<1>3. f[1] = total - fee /\ f[2] = fee
  BY <1>2 DEF Amounts
<1>4. SumOf(outs) = SumFunctionOnSet(f, {1, 2})
  BY <1>2 DEF SumOf, SumFunction, Amounts
<1>5. SumFunctionOnSet(f, {1, 2}) = f[1] + f[2]
  <2>1. f[1] \in Int /\ f[2] \in Int
    BY <1>1, <1>3
  <2> HIDE DEF f
  <2>2. \A y, z : y # z /\ f[y] \in Int /\ f[z] \in Int
                    => SumFunctionOnSet(f, {y, z}) = f[y] + f[z]
    BY SumOfTwo
  <2>3. 1 # 2
    OBVIOUS
  <2> QED BY <2>1, <2>2, <2>3, Zenon
<1>6. SumOf(outs) = total
  <2> HIDE DEF f
  <2> QED BY <1>1, <1>3, <1>4, <1>5
<1> QED BY <1>1, <1>2, <1>6 DEF outs

-----------------------------------------------------------------------------
(* Everyone is paid his share *)

\* The places of an address among the outputs.
PlacesOf(a, outs) == {j \in DOMAIN outs : outs[j].address = a}

\* What a ranked miner is paid: his slot, and the bonus if he is the finder.
LEMMA RankedIsPaid ==
    ASSUME NEW total \in Nat, NEW ranked \in Nat, NEW miner, NEW i \in 1 .. ranked
    PROVE  PaidTo(i, BuildOutputs(miner, total, [j \in 1 .. ranked |-> j])) =
               (IF i = miner THEN FinderAmount(total) ELSE 0)
               + (IF i <= MaxRankedSlots THEN PerSlot(total) ELSE 0)
<1> DEFINE outs == BuildOutputs(miner, total, [j \in 1 .. ranked |-> j])
           k == FilledSlots(ranked)
           p == PerSlot(total)
           F == FinderAmount(total)
           f == Amounts(outs)
           D == PlacesOf(i, outs)
<1>1. /\ k \in Nat /\ DOMAIN outs = 1 .. k + 2
      /\ outs[1] = Output(miner, F)
      /\ \A j \in 2 .. k + 1 : outs[j] = Output(j - 1, p)
      /\ outs[k + 2] = Output(PoolFeeAddress, PoolFeeOut(total, ranked))
  <2>1. HasShape(outs, miner, total, ranked)
    BY OutputsShape
  <2> HIDE DEF outs
  <2> QED BY <2>1 DEF HasShape
<1>2. p \in Nat /\ F \in Nat
  BY PartsOfReward
<1>3. i <= k <=> i <= MaxRankedSlots
  BY SlotsAssumption DEF FilledSlots
<1>4. i # PoolFeeAddress
  BY CoinbaseAssumption
<1>5. \A a, x : Output(a, x).address = a /\ Output(a, x).amount = x
  BY DEF Output
<1>6. PaidTo(i, outs) = SumFunctionOnSet(f, D)
  BY DEF PaidTo, PlacesOf
<1> HIDE DEF outs, k, p, F
<1>7. \A j \in 1 .. k + 2 : j \in D <=> (j = 1 /\ i = miner) \/ (j = i + 1 /\ i <= k)
  <2> SUFFICES ASSUME NEW j \in 1 .. k + 2
               PROVE  j \in D <=> (j = 1 /\ i = miner) \/ (j = i + 1 /\ i <= k)
    OBVIOUS
  <2>1. j \in D <=> outs[j].address = i
    BY <1>1 DEF PlacesOf
  <2>2. CASE j = 1 BY <1>1, <1>5, <2>1, <2>2
  <2>3. CASE j \in 2 .. k + 1
    <3>1. outs[j].address = j - 1
      BY <1>1, <1>5, <2>3
    <3> QED BY <1>1, <2>1, <2>3, <3>1
  <2>4. CASE j = k + 2 BY <1>1, <1>4, <1>5, <2>1, <2>4
  <2> QED BY <1>1, <2>2, <2>3, <2>4
<1>8. \A j : j \in D <=> (j = 1 /\ i = miner) \/ (j = i + 1 /\ i <= k)
  <2>1. D \subseteq 1 .. k + 2
    BY <1>1 DEF PlacesOf
  <2>2. 1 \in 1 .. k + 2 /\ (i <= k => i + 1 \in 1 .. k + 2)
    BY <1>1
  <2> HIDE DEF D
  <2> QED BY <1>7, <2>1, <2>2
<1>9. f[1] = F
  BY <1>1, <1>5 DEF Amounts
<1>10. i <= k => f[i + 1] = p
  <2> SUFFICES ASSUME i <= k PROVE f[i + 1] = p
    OBVIOUS
  <2>1. i + 1 \in 1 .. k + 2 /\ i + 1 \in 2 .. k + 1
    BY <1>1
  <2> QED BY <1>1, <1>5, <2>1 DEF Amounts
<1> HIDE DEF f, D
<1>11. CASE i = miner /\ i <= k
  <2>1. D = {1, i + 1} /\ 1 # i + 1
    BY <1>8, <1>11
  <2>2. \A y, z : y # z /\ f[y] \in Int /\ f[z] \in Int
                    => SumFunctionOnSet(f, {y, z}) = f[y] + f[z]
    BY SumOfTwo
  <2>3. f[1] \in Int /\ f[i + 1] \in Int
    BY <1>2, <1>9, <1>10, <1>11
  <2>4. SumFunctionOnSet(f, {1, i + 1}) = f[1] + f[i + 1]
    BY <2>1, <2>2, <2>3, Zenon
  <2> QED BY <1>3, <1>6, <1>9, <1>10, <1>11, <2>1, <2>4 DEF outs, F, p
<1>12. CASE i = miner /\ ~(i <= k)
  <2>1. D = {1}
    BY <1>8, <1>12
  <2>2. SumFunctionOnSet(f, D) = F
    BY <1>2, <1>9, <2>1, SumOfOne
  <2>3. F + 0 = F
    BY <1>2
  <2> QED BY <1>3, <1>6, <1>12, <2>2, <2>3 DEF outs, F
<1>13. CASE i # miner /\ i <= k
  <2>1. D = {i + 1}
    BY <1>8, <1>13
  <2>2. SumFunctionOnSet(f, D) = p
    BY <1>2, <1>10, <1>13, <2>1, SumOfOne
  <2>3. 0 + p = p
    BY <1>2
  <2> QED BY <1>3, <1>6, <1>13, <2>2, <2>3 DEF outs, p
<1>14. CASE i # miner /\ ~(i <= k)
  <2>1. D = {}
    BY <1>8, <1>14
  <2>2. SumFunctionOnSet(f, D) = 0
    BY <2>1, SumOfNone
  <2> QED BY <1>3, <1>6, <1>14, <2>2 DEF outs
<1> QED BY <1>11, <1>12, <1>13, <1>14

\* What the pool is paid when it did not find the block itself.
LEMMA PoolIsPaid ==
    ASSUME NEW total \in Nat, NEW ranked \in Nat, NEW miner, miner # PoolFeeAddress
    PROVE  PaidTo(PoolFeeAddress, BuildOutputs(miner, total, [j \in 1 .. ranked |-> j])) =
               PoolFeeOut(total, ranked)
<1> DEFINE outs == BuildOutputs(miner, total, [j \in 1 .. ranked |-> j])
           k == FilledSlots(ranked)
           Q == PoolFeeOut(total, ranked)
           f == Amounts(outs)
           D == PlacesOf(PoolFeeAddress, outs)
<1>1. /\ k \in Nat /\ DOMAIN outs = 1 .. k + 2
      /\ outs[1] = Output(miner, FinderAmount(total))
      /\ \A j \in 2 .. k + 1 : outs[j] = Output(j - 1, PerSlot(total))
      /\ outs[k + 2] = Output(PoolFeeAddress, Q)
  <2>1. HasShape(outs, miner, total, ranked)
    BY OutputsShape
  <2> HIDE DEF outs
  <2> QED BY <2>1 DEF HasShape
<1>2. Q \in Nat
  BY PoolFeeOutValue
<1>3. \A a, x : Output(a, x).address = a /\ Output(a, x).amount = x
  BY DEF Output
<1>4. PaidTo(PoolFeeAddress, outs) = SumFunctionOnSet(f, D)
  BY DEF PaidTo, PlacesOf
<1> HIDE DEF outs, k, Q
<1>5. \A j \in 2 .. k + 1 : outs[j].address # PoolFeeAddress
  <2> SUFFICES ASSUME NEW j \in 2 .. k + 1 PROVE outs[j].address # PoolFeeAddress
    OBVIOUS
  <2>1. outs[j].address = j - 1 /\ j - 1 \in Nat \ {0}
    BY <1>1, <1>3
  <2> QED BY <2>1, CoinbaseAssumption
<1>6. outs[1].address # PoolFeeAddress /\ outs[k + 2].address = PoolFeeAddress
  BY <1>1, <1>3
<1>7. \A j \in 1 .. k + 2 : j = 1 \/ j \in 2 .. k + 1 \/ j = k + 2
  BY <1>1
<1>8. D = {k + 2}
  <2>1. k + 2 \in 1 .. k + 2
    BY <1>1
  <2> QED BY <1>1, <1>5, <1>6, <1>7, <2>1 DEF PlacesOf
<1>9. f[k + 2] = Q
  <2>1. k + 2 \in 1 .. k + 2
    BY <1>1
  <2> QED BY <1>1, <1>3, <2>1 DEF Amounts
<1>10. SumFunctionOnSet(f, D) = Q
  <2> HIDE DEF f, D
  <2> QED BY <1>2, <1>8, <1>9, SumOfOne
<1> QED BY <1>4, <1>10 DEF outs, Q

\* A slot of the subsidy alone, which is a number of thousands, is no more than one of
\* the subsidy with fees.
LEMMA EstimateIsNoPromise ==
    ASSUME NEW total \in Nat, total >= SubsidySats
    PROVE  CalcPayouts(SubsidySats, 0).perSlot <= PerSlot(total)
<1> USE PercentAssumption, SlotsAssumption
<1> DEFINE S == SubsidySats
           m == FinderPerMille + PoolFeePerMille
           q == total \div 1000
           r == total % 1000
<1>1. PICK k \in Nat : SubsidySats = k * 1000
  <2>1. 312500 \in Nat /\ SubsidySats = 312500 * 1000
    BY SMTT(30) DEF SubsidySats
  <2> QED BY <2>1, SMTT(30)
<1>2. S \in Nat /\ S \div 1000 = k /\ S % 1000 = 0 /\ S = k * 1000
  BY <1>1
<1>3. \A n \in Nat : Cut(S, n) = n * k
  <2> HIDE DEF S
  <2> SUFFICES ASSUME NEW n \in Nat PROVE Cut(S, n) = n * k
    OBVIOUS
  <2>1. Cut(S, n) = n * k + (n * 0) \div 1000
    BY <1>2 DEF Cut
  <2>2. n * 0 = 0 /\ 0 \div 1000 = 0 /\ n * k \in Nat
    BY TimesType
  <2> QED BY <2>1, <2>2
<1>4. q \in Nat /\ r \in Nat /\ r < 1000 /\ total = q * 1000 + r
  BY Thousands
<1>5. q >= k
  <2> HIDE DEF q, r
  <2> QED BY <1>1, <1>4
<1>6. m \in Nat /\ m <= 1000 /\ 1000 - m \in Nat
  OBVIOUS
<1>7. FinderAmount(total) + PoolFeeBase(total) <= m * q + r
  <2>1. FinderAmount(total) + PoolFeeBase(total) <= AtMost(total, m)
    BY CutsFit DEF FinderAmount, PoolFeeBase
  <2> QED BY <2>1 DEF AtMost
<1>8. Remaining(S) <= Remaining(total)
  <2>1. Remaining(S) = k * (1000 - m)
    <3>1. Remaining(S) = k * 1000 - FinderPerMille * k - PoolFeePerMille * k
      <4> HIDE DEF S
      <4> QED BY <1>2, <1>3 DEF Remaining, FinderAmount, PoolFeeBase
    <3>2. k * (1000 - m) = k * 1000 - FinderPerMille * k - PoolFeePerMille * k
      OBVIOUS
    <3> QED BY <3>1, <3>2
  <2>2. Remaining(total) >= q * (1000 - m)
    <3>1. Remaining(total) = total - FinderAmount(total) - PoolFeeBase(total)
      BY DEF Remaining
    <3>2. FinderAmount(total) \in Nat /\ PoolFeeBase(total) \in Nat
      BY PartsOfReward
    <3> HIDE DEF q, r, m
    <3>3. m * q \in Nat /\ q * (1000 - m) = q * 1000 - m * q
      BY <1>4, <1>6, TimesType
    <3> QED BY <1>4, <1>6, <1>7, <3>1, <3>2, <3>3
  <2>3. k * (1000 - m) <= q * (1000 - m)
    <3> HIDE DEF q, m
    <3>1. \A x, y \in Nat : x <= y => x * (1000 - m) <= y * (1000 - m)
      BY <1>6, TimesMonotone
    <3> QED BY <1>4, <1>5, <3>1
  <2>4. q * (1000 - m) \in Nat /\ Remaining(total) \in Nat /\ Remaining(S) \in Nat
    BY <1>2, <1>4, <1>6, TimesType, PartsOfReward
  <2> HIDE DEF q, m, S
  <2> QED BY <2>1, <2>2, <2>3, <2>4
<1>9. CalcPayouts(S, 0).perSlot = PerSlot(S)
  <2>1. S + 0 = S
    BY <1>2
  <2> QED BY <2>1 DEF CalcPayouts, PerSlot, Remaining, FinderAmount, PoolFeeBase
<1>10. Remaining(total) \in Nat /\ Remaining(S) \in Nat
  BY <1>2, PartsOfReward
<1>11. PerSlot(S) <= PerSlot(total)
  <2> HIDE DEF S
  <2> QED BY <1>8, <1>10, DivMonotone DEF PerSlot
<1> QED BY <1>9, <1>11

\* What is stored for the i-th of the list is his address and a slot of the subsidy alone,
\* which is also the site's estimate.
LEMMA StoredIsEstimate ==
    ASSUME NEW ranked \in Nat, NEW i \in 1 .. ranked
    PROVE  LET stored == Snapshot(ReportedFees, [j \in 1 .. ranked |-> j])[i]
           IN  /\ stored.address = i
               /\ stored.amount = CalcPayouts(SubsidySats, 0).perSlot
<1> DEFINE list == [j \in 1 .. ranked |-> j]
           S == SubsidySats + ReportedFees
<1>1. Len(list) = ranked /\ list[i] = i
  OBVIOUS
<1>2. CalcPayouts(SubsidySats, 0).perSlot = PerSlot(S)
  BY DEF CalcPayouts, PerSlot, Remaining, FinderAmount, PoolFeeBase, ReportedFees
<1> HIDE DEF list, S
<1>3. Snapshot(ReportedFees, list)[i] = Output(i, PerSlot(S))
  BY <1>1 DEF Snapshot, S
<1> QED BY <1>2, <1>3 DEF Output, list


-----------------------------------------------------------------------------
(* The coinbase input *)

\* The length that is pushed is that of the fitted tags, and no more than there is room for.
LEMMA TagsFit ==
    ASSUME NEW a \in 0 .. 83, NEW b \in Nat, NEW tags, tags = <<a, b>>
    PROVE  /\ Layout!TagBytes(Layout!TagsFitted(tags).tags) = Layout!TagsFitted(tags).k
           /\ Layout!TagsFitted(tags).k \in 0 .. 86
<1> DEFINE wanted == Layout!TagsWanted(tags)
           excess == wanted - 86
<1>1. wanted = IF b > 0 THEN a + b + 2 ELSE IF a > 0 THEN a + 1 ELSE 0
  BY DEF Layout!TagsWanted
<1>2. Layout!Excess(tags) = excess
  BY DEF Layout!Excess, Layout!MaxTagSpace
<1>3. \A c, d : Layout!TagBytes(<<c, d>>) =
          (IF c > 0 THEN c + 1 ELSE IF d > 0 THEN 1 ELSE 0) + (IF d > 0 THEN d + 1 ELSE 0)
  BY DEF Layout!TagBytes
<1>4. CASE excess <= 0
  <2>1. Layout!TagsFitted(tags) = [tags |-> tags, k |-> wanted]
    BY <1>2, <1>4 DEF Layout!TagsFitted
  <2>2. Layout!TagBytes(tags) = wanted
    BY <1>1, <1>3
  <2> QED BY <1>1, <1>4, <2>1, <2>2
<1>5. CASE ~(excess <= 0)
  <2>1. b > 0 /\ excess = a + b - 84 /\ b > excess /\ b - excess = 84 - a
    BY <1>1, <1>5
  <2>2. Layout!TagsFitted(tags) = [tags |-> <<a, b - excess>>, k |-> 86]
    BY <1>2, <1>5, <2>1 DEF Layout!TagsFitted, Layout!MaxTagSpace
  <2>3. Layout!TagBytes(<<a, 84 - a>>) = 86
    BY <1>3
  <2> QED BY <2>1, <2>2, <2>3
<1> QED BY <1>4, <1>5

\* A coinbase input with its tags is no longer than a hundred bytes.
LEMMA InputFits ==
    ASSUME NEW a \in 0 .. 83, NEW b \in Nat, NEW tags, tags = <<a, b>>, NEW u \in {4, 8}
    PROVE  Layout!InputLen(4, tags, u) \in 0 .. 100
<1> DEFINE f == Layout!TagsFitted(tags)
<1>1. Layout!TagBytes(f.tags) = f.k /\ f.k \in 0 .. 86
  BY TagsFit
<1>2. Layout!InputLen(4, tags, u) =
          4 + (IF f.k = 0 THEN 2 ELSE (IF f.k <= 75 THEN 1 ELSE 2) + Layout!TagBytes(f.tags)) + u
  BY DEF Layout!InputLen
<1> HIDE DEF f
<1> QED BY <1>1, <1>2

-----------------------------------------------------------------------------
(* The theorems *)

\* The inductive invariant: the request and the division of its reward stay, the input
\* of the job is the one its tags make, and the socket's invariant holds.
CoinbaseInv ==
    /\ request \in Requests
    /\ outputs = Divided(request)
    /\ generated => job.inputLen = Layout!InputLen(4, request.tags, request.uidLen)
    /\ SocketInv

\* In the beginning the calls that are over left nothing behind.
LEMMA CoinbaseInitially == CoinbaseInit => CoinbaseInv
<1> SUFFICES ASSUME CoinbaseInit PROVE CoinbaseInv
  OBVIOUS
<1>1. TypeOK
  BY CallsAssumption DEF CoinbaseInit, TypeOK, Replies
<1>2. ASSUME NEW c \in Calls PROVE InOnePlace(c)
  BY DEF CoinbaseInit, InOnePlace, Unanswered
<1> QED BY <1>1, <1>2 DEF CoinbaseInit, CoinbaseInv, SocketInv

\* The job's input is not changed by its outputs.
LEMMA JobsInput ==
    ASSUME NEW r
    PROVE  JobOf(r).inputLen = Layout!InputLen(4, r.tags, r.uidLen)
  BY DEF JobOf, Layout!JobWithOutputs

\* Every step keeps the invariant.
LEMMA CoinbaseStep == CoinbaseInv /\ [CoinbaseNext]_allVars => CoinbaseInv'
<1> SUFFICES ASSUME CoinbaseInv, [CoinbaseNext]_allVars PROVE CoinbaseInv'
  OBVIOUS
<1>1. CASE Generate
  <2>1. job'.inputLen = Layout!InputLen(4, request.tags, request.uidLen)
    BY <1>1, JobsInput DEF Generate
  <2>2. SocketInv'
    BY <1>1 DEF Generate, CoinbaseInv, SocketInv, TypeOK, InOnePlace, vars
  <2> QED BY <1>1, <2>1, <2>2 DEF Generate, CoinbaseInv
<1>2. CASE SocketStep
  <2>1. SocketInv'
    BY <1>2, GatewayStep, ServiceStep, ProcessStep DEF SocketStep, CoinbaseInv, Next
  <2> QED BY <1>2, <2>1 DEF SocketStep, CoinbaseInv, coinbaseVars
<1>3. CASE UNCHANGED allVars
  BY <1>3 DEF CoinbaseInv, allVars, coinbaseVars, vars, SocketInv, TypeOK, InOnePlace
<1> QED BY <1>1, <1>2, <1>3 DEF CoinbaseNext, Finished

\* The invariant holds of every behaviour.
THEOREM CoinbaseInvariance == CoinbaseSpec => []CoinbaseInv
  BY CoinbaseInitially, CoinbaseStep, PTL DEF CoinbaseSpec

\* However a reward is divided, for the pool or for a solo miner, its outputs sum to
\* it, and none is negative: for every reward, leaderboard, number of slots and percentages.
THEOREM RewardIsDividedExactly == CoinbaseSpec => []SumIsExact
<1>1. CoinbaseInv => SumIsExact
  <2> SUFFICES ASSUME CoinbaseInv PROVE SumIsExact
    OBVIOUS
  <2>1. /\ request.total \in Nat /\ request.ranked \in Nat
        /\ outputs = BuildOutputs(request.miner, request.total, [i \in 1 .. request.ranked |-> i])
    BY RequestsAssumption DEF CoinbaseInv, Divided, RankedIn
  <2>2. SumOf(outputs) = request.total /\ \A i \in DOMAIN outputs : outputs[i].amount \in Nat
    BY <2>1, OutputsSum
  <2> DEFINE solo == SoloOutputs(request.miner, request.total)
  <2>3. SumOf(solo) = request.total /\ \A i \in DOMAIN solo : solo[i].amount \in Nat
    BY <2>1, SoloOutputsSum
  <2> HIDE DEF solo
  <2>4. \A x \in Nat : x >= 0
    OBVIOUS
  <2>5. ASSUME NEW outs \in {outputs, solo}
        PROVE  SumOf(outs) = request.total /\ \A i \in DOMAIN outs : outs[i].amount >= 0
    BY <2>2, <2>3, <2>4
  <2> QED BY <2>5 DEF SumIsExact, solo
<1> QED BY <1>1, CoinbaseInvariance, PTL

\* The first of the leaderboard get equal slots, the finder his bonus, the pool its fee and
\* the dust; the list stored with the block names those who are paid, and neither it nor
\* the site's estimate has anybody with more than he is paid (EachIsPaidHisShare).
THEOREM SharesArePaid == CoinbaseSpec => []EachIsPaidHisShare
<1>1. CoinbaseInv => EachIsPaidHisShare
  <2> SUFFICES ASSUME CoinbaseInv PROVE EachIsPaidHisShare
    OBVIOUS
  <2> DEFINE total == request.total
             ranked == request.ranked
             miner == request.miner
             list == [i \in 1 .. ranked |-> i]
  <2>1. total \in Nat /\ ranked \in Nat /\ outputs = BuildOutputs(miner, total, list)
    BY RequestsAssumption DEF CoinbaseInv, Divided, RankedIn
  <2> HIDE DEF total, ranked, miner
  <2>2. \A i \in 1 .. ranked :
            PaidTo(i, outputs) = (IF i = miner THEN FinderAmount(total) ELSE 0)
                                 + (IF i <= MaxRankedSlots THEN PerSlot(total) ELSE 0)
    BY <2>1, RankedIsPaid
  <2>3. ranked >= MaxRankedSlots /\ miner # PoolFeeAddress =>
            PaidTo(PoolFeeAddress, outputs) - PoolFeeBase(total) \in 0 .. MaxRankedSlots - 1
    <3> SUFFICES ASSUME ranked >= MaxRankedSlots, miner # PoolFeeAddress
                 PROVE  PaidTo(PoolFeeAddress, outputs) - PoolFeeBase(total)
                            \in 0 .. MaxRankedSlots - 1
      OBVIOUS
    <3>1. PaidTo(PoolFeeAddress, outputs) = PoolFeeOut(total, ranked)
      BY <2>1, PoolIsPaid
    <3>2. FilledSlots(ranked) = MaxRankedSlots
      BY <2>1, SlotsAssumption DEF FilledSlots
    <3>3. PerSlot(total) \in Nat /\ PoolFeeBase(total) \in Nat
          /\ Dust(total) \in 0 .. MaxRankedSlots - 1
      BY <2>1, PartsOfReward
    <3>4. PerSlot(total) * (MaxRankedSlots - MaxRankedSlots) = 0
      BY <3>3, SlotsAssumption
    <3>5. PoolFeeOut(total, ranked) = PoolFeeBase(total) + 0 + Dust(total)
      BY <3>2, <3>4 DEF PoolFeeOut
    <3> QED BY <3>1, <3>3, <3>5, SlotsAssumption
  <2>4. ASSUME total >= SubsidySats, NEW i \in 1 .. Len(outputs) - 2
        PROVE  /\ CalcPayouts(SubsidySats, 0).perSlot <= outputs[i + 1].amount
               /\ ranked <= MaxRankedSlots =>
                      LET stored == Snapshot(ReportedFees, list)[i]
                      IN  /\ stored.address = outputs[i + 1].address
                          /\ stored.amount <= outputs[i + 1].amount
    <3> DEFINE k == FilledSlots(ranked)
               outs == BuildOutputs(miner, total, list)
    <3>1. /\ k \in Nat /\ Len(outs) = k + 2
          /\ \A j \in 2 .. k + 1 : outs[j] = Output(j - 1, PerSlot(total))
      <4>1. HasShape(outs, miner, total, ranked)
        BY <2>1, OutputsShape
      <4> HIDE DEF outs
      <4> QED BY <4>1 DEF HasShape
    <3> HIDE DEF k, outs
    <3>2. outs = outputs
      BY <2>1 DEF outs
    <3>3. i + 1 \in 2 .. k + 1 /\ (i + 1) - 1 = i
      BY <3>1, <3>2
    <3>4. outputs[i + 1].amount = PerSlot(total) /\ outputs[i + 1].address = i
      <4>1. outputs[i + 1] = Output(i, PerSlot(total))
        <5>1. outputs[i + 1] = Output((i + 1) - 1, PerSlot(total))
          BY <3>1, <3>2, <3>3
        <5> QED BY <3>3, <5>1
      <4> QED BY <4>1 DEF Output
    <3>5. CalcPayouts(SubsidySats, 0).perSlot <= outputs[i + 1].amount
      <4>1. total >= SubsidySats
        BY <2>4
      <4>2. CalcPayouts(SubsidySats, 0).perSlot <= PerSlot(total)
        BY <2>1, <4>1, EstimateIsNoPromise
      <4> QED BY <3>4, <4>2
    <3>6. ASSUME ranked <= MaxRankedSlots
          PROVE  LET stored == Snapshot(ReportedFees, list)[i]
                 IN  /\ stored.address = outputs[i + 1].address
                     /\ stored.amount <= outputs[i + 1].amount
      <4>1. k = ranked
        BY <2>1, <3>6, SlotsAssumption DEF k, FilledSlots
      <4>2. i \in 1 .. ranked
        BY <3>1, <3>2, <4>1
      <4> DEFINE stored == Snapshot(ReportedFees, list)[i]
      <4>3. stored.address = i /\ stored.amount = CalcPayouts(SubsidySats, 0).perSlot
        BY <2>1, <4>2, StoredIsEstimate
      <4> HIDE DEF stored
      <4>4. stored.address = outputs[i + 1].address /\ stored.amount <= outputs[i + 1].amount
        BY <3>4, <3>5, <4>3
      <4> QED BY <4>4 DEF stored
    <3> QED BY <3>5, <3>6
  <2> QED BY <2>2, <2>3, <2>4 DEF EachIsPaidHisShare, RankedIn, total, ranked, miner
<1> QED BY <1>1, CoinbaseInvariance, PTL

\* Tags of any length leave a coinbase input whose push is as long as it says and that
\* is not longer than a coinbase input may be.
THEOREM InputsAreValid == CoinbaseSpec => []InputIsValid
<1>1. CoinbaseInv => InputIsValid
  <2> SUFFICES ASSUME CoinbaseInv, generated PROVE InputIsValid
    BY DEF InputIsValid
  <2> DEFINE tags == request.tags
             a == tags[1]
             b == tags[2]
             u == request.uidLen
  <2>1. /\ a \in 0 .. 83 /\ b \in Nat /\ tags = <<a, b>> /\ u \in {4, 8}
        /\ job.inputLen = Layout!InputLen(4, tags, u)
    BY RequestsAssumption DEF CoinbaseInv
  <2> HIDE DEF tags, a, b, u
  <2>2. Layout!TagBytes(Layout!TagsFitted(tags).tags) = Layout!TagsFitted(tags).k
    BY <2>1, TagsFit
  <2>3. job.inputLen \in 0 .. 100
    <3>1. Layout!InputLen(4, tags, u) \in 0 .. 100
      BY ONLY <2>1, InputFits
    <3> QED BY <2>1, <3>1
  <2>4. job.inputLen + (IF Layout!SpaceForExtranonce(job) THEN 15 ELSE 0) <= 100
    BY <2>3 DEF Layout!SpaceForExtranonce
  <2> QED BY <2>2, <2>4 DEF InputIsValid, tags
<1> QED BY <1>1, CoinbaseInvariance, PTL

\* Reports and shares count once, also while coinbases are asked for and written.
THEOREM NothingHandledTwiceInAll == CoinbaseSpec => []HandledOnce
<1>1. CoinbaseInv => HandledOnce
  BY DEF CoinbaseInv, SocketInv, InOnePlace, HandledOnce
<1> QED BY <1>1, CoinbaseInvariance, PTL

\* And every answer that outputs or a coinb2 rest on was earned.
THEOREM AnswersAreEarnedInAll == CoinbaseSpec => []AnsweredIsHandled
<1>1. CoinbaseInv => AnsweredIsHandled
  BY DEF CoinbaseInv, SocketInv, InOnePlace, AnsweredIsHandled
<1> QED BY <1>1, CoinbaseInvariance, PTL

-----------------------------------------------------------------------------
(* What stands for induction, and for definition by recursion *)

\* A set of numbers that has 0, and the next number of each, has all.
LEMMA AllNumbers ==
    ASSUME NEW G \in SUBSET Nat, 0 \in G, \A n \in G : n + 1 \in G
    PROVE  \A n \in Nat : n \in G
<1> SUFFICES ASSUME Nat \ G # {} PROVE FALSE
  OBVIOUS
<1>1. PICK n \in Nat \ G : \A m \in Nat \ G : n <= m
  BY LeastNat
<1>2. n - 1 \in Nat
  BY <1>1
<1>3. n - 1 \in G
  BY <1>1, <1>2
<1> QED BY <1>1, <1>2, <1>3

\* A sequence with one more element.
LEMMA AppendFacts ==
    ASSUME NEW T, NEW s \in Seq(T), NEW x \in T
    PROVE  /\ Append(s, x) \in Seq(T) /\ Len(Append(s, x)) = Len(s) + 1
           /\ \A i \in 1 .. Len(s) : Append(s, x)[i] = s[i]
           /\ Append(s, x)[Len(s) + 1] = x
  BY AppendProperties

\* A set of sequences that has the empty one, and each with one more element, has all.
LEMMA AllSequences ==
    ASSUME NEW T, NEW G \in SUBSET Seq(T), <<>> \in G,
           \A s \in G : \A x \in T : Append(s, x) \in G
    PROVE  \A s \in Seq(T) : s \in G
<1> DEFINE Lens == {n \in Nat : \A s \in Seq(T) : Len(s) = n => s \in G}
<1>1. 0 \in Lens
  <2>1. \A s \in Seq(T) : Len(s) = 0 => s = <<>>
    OBVIOUS
  <2> QED BY <2>1
<1>2. ASSUME NEW n \in Lens PROVE n + 1 \in Lens
  <2> SUFFICES ASSUME NEW s \in Seq(T), Len(s) = n + 1 PROVE s \in G
    OBVIOUS
  <2>1. SubSeq(s, 1, n) \in Seq(T) /\ Len(SubSeq(s, 1, n)) = n /\ s[n + 1] \in T
    OBVIOUS
  <2>2. s = Append(SubSeq(s, 1, n), s[n + 1])
    <3> DEFINE u == SubSeq(s, 1, n)
               x == s[n + 1]
               v == Append(u, x)
    <3>1. n \in Nat /\ u \in Seq(T) /\ Len(u) = n /\ x \in T /\ \A i \in 1 .. n : u[i] = s[i]
      BY <2>1
    <3>2. s[n + 1] = x
      OBVIOUS
    <3> HIDE DEF u, x
    <3>3. /\ v \in Seq(T) /\ Len(v) = Len(u) + 1
          /\ \A i \in 1 .. Len(u) : v[i] = u[i]
          /\ v[Len(u) + 1] = x
      BY <3>1, AppendFacts
    <3> HIDE DEF v
    <3>4. ASSUME NEW i \in 1 .. Len(s) PROVE s[i] = v[i]
      <4>1. CASE i \in 1 .. n
        BY <3>1, <3>3, <4>1
      <4>2. CASE i = n + 1
        BY <3>1, <3>2, <3>3, <4>2
      <4> QED BY <3>1, <4>1, <4>2
    <3>5. Len(s) = Len(v)
      BY <3>1, <3>3
    <3>6. s = v
      BY <3>3, <3>4, <3>5, SeqEqual
    <3> QED BY <3>6 DEF u, v, x
  <2> QED BY <1>2, <2>1, <2>2
<1> HIDE DEF Lens
<1>3. \A n \in Nat : n \in Lens
  BY <1>1, <1>2, AllNumbers DEF Lens
<1>4. ASSUME NEW s \in Seq(T) PROVE s \in G
  <2>1. Len(s) \in Lens
    BY <1>3
  <2> QED BY <2>1 DEF Lens
<1> QED BY <1>4

\* A value is made of the one before it, n times, from a first one on.
StepFunctions(n, D) == [(1 .. n) \X D -> D]
StepRuns(n, D, first, F) ==
    {g \in [0 .. n -> D] : g[0] = first /\ \A k \in 1 .. n : g[k] = F[<<k, g[k - 1]>>]}

\* It can be.
LEMMA StepByStep ==
    ASSUME NEW D, NEW first \in D, NEW n \in Nat, NEW F \in StepFunctions(n, D)
    PROVE  StepRuns(n, D, first, F) # {}
<1> DEFINE G == {m \in Nat : m <= n => \E g \in [0 .. m -> D] :
                    g[0] = first /\ \A k \in 1 .. m : g[k] = F[<<k, g[k - 1]>>]}
<1>1. 0 \in G
  <2>1. [k \in 0 .. 0 |-> first] \in [0 .. 0 -> D] /\ [k \in 0 .. 0 |-> first][0] = first
    OBVIOUS
  <2>2. 1 .. 0 = {}
    OBVIOUS
  <2> QED BY <2>1, <2>2
<1>2. ASSUME NEW m \in G PROVE m + 1 \in G
  <2> SUFFICES ASSUME m + 1 <= n
               PROVE  \E h \in [0 .. m + 1 -> D] :
                         h[0] = first /\ \A k \in 1 .. m + 1 : h[k] = F[<<k, h[k - 1]>>]
    OBVIOUS
  <2>1. PICK g \in [0 .. m -> D] : g[0] = first /\ \A k \in 1 .. m : g[k] = F[<<k, g[k - 1]>>]
    BY <1>2
  <2> DEFINE h == [k \in 0 .. m + 1 |-> IF k <= m THEN g[k] ELSE F[<<m + 1, g[m]>>]]
  <2>2. g[m] \in D /\ m + 1 \in 1 .. n
    BY <2>1
  <2>3. F[<<m + 1, g[m]>>] \in D
    BY <2>2 DEF StepFunctions
  <2>4. h \in [0 .. m + 1 -> D] /\ h[0] = first
    BY <2>1, <2>3
  <2>5. ASSUME NEW k \in 1 .. m + 1 PROVE h[k] = F[<<k, h[k - 1]>>]
    <3>1. CASE k <= m
      <4>1. h[k] = g[k] /\ h[k - 1] = g[k - 1] /\ k \in 1 .. m
        BY <3>1
      <4> QED BY <2>1, <4>1
    <3>2. CASE k = m + 1
      <4>1. h[k] = F[<<m + 1, g[m]>>] /\ h[k - 1] = g[m]
        BY <3>2
      <4> QED BY <3>2, <4>1
    <3> QED BY <3>1, <3>2
  <2> HIDE DEF h
  <2> QED BY <2>4, <2>5
<1> HIDE DEF G
<1>3. n \in G
  BY <1>1, <1>2, AllNumbers DEF G
<1> QED BY <1>3 DEF G, StepRuns

-----------------------------------------------------------------------------
(* Picked, which the layout chooses outputs with *)

\* The elements picked so far, at every place of a sequence.
PickedRuns(T, s, I) ==
    {c \in [0 .. Len(s) -> Seq(T)] :
        /\ c[0] = <<>>
        /\ \A k \in 1 .. Len(s) : c[k] = IF k \in I THEN Append(c[k - 1], s[k]) ELSE c[k - 1]}

\* The recursion in the definition of Picked.
LEMMA PickedSteps ==
    ASSUME NEW T, NEW s \in Seq(T), NEW I
    PROVE  \E c \in PickedRuns(T, s, I) : Layout!Picked(s, I) = c[Len(s)]
<1> DEFINE n == Len(s)
           D == Seq(T)
           empty == <<>>
           F == [x \in (1 .. n) \X D |-> IF x[1] \in I THEN Append(x[2], s[x[1]]) ELSE x[2]]
           Fits(c) == c = [k \in 0 .. n |->
                              IF k = 0 THEN <<>>
                              ELSE IF k \in I THEN Append(c[k - 1], s[k]) ELSE c[k - 1]]
           picked == CHOOSE c : Fits(c)
<1>1. n \in Nat /\ empty \in D /\ \A k \in 1 .. n : s[k] \in T
  OBVIOUS
<1>2. F \in StepFunctions(n, D)
  BY <1>1 DEF StepFunctions
<1>3. \A k \in 1 .. n : \A t \in D :
          F[<<k, t>>] = IF k \in I THEN Append(t, s[k]) ELSE t
  BY <1>1
<1>4. Layout!Picked(s, I) = picked[n]
  BY DEF Layout!Picked
<1>5. empty = <<>>
  OBVIOUS
<1> HIDE DEF n, F, D, empty
<1>6. PICK g : g \in StepRuns(n, D, empty, F)
  BY <1>1, <1>2, StepByStep
<1>7. g \in [0 .. n -> D] /\ g[0] = <<>> /\ \A k \in 1 .. n : g[k] = F[<<k, g[k - 1]>>]
  BY <1>5, <1>6 DEF StepRuns
<1>8. \A k \in 1 .. n : g[k] = IF k \in I THEN Append(g[k - 1], s[k]) ELSE g[k - 1]
  <2> SUFFICES ASSUME NEW k \in 1 .. n
               PROVE  g[k] = IF k \in I THEN Append(g[k - 1], s[k]) ELSE g[k - 1]
    OBVIOUS
  <2>1. g[k - 1] \in D
    BY <1>1, <1>7
  <2> QED BY <1>3, <1>7, <2>1
<1>9. Fits(g)
  <2> DEFINE h == [k \in 0 .. n |-> IF k = 0 THEN <<>>
                                    ELSE IF k \in I THEN Append(g[k - 1], s[k]) ELSE g[k - 1]]
  <2>1. \A k \in 0 .. n : g[k] = h[k]
    <3>1. \A k \in 0 .. n : k = 0 \/ k \in 1 .. n
      BY <1>1
    <3> QED BY <1>1, <1>7, <1>8, <3>1
  <2>2. g = h
    BY <1>7, <2>1
  <2> QED BY <2>2
<1>10. Fits(picked)
  BY <1>9
<1>11. /\ picked[0] = <<>>
       /\ \A k \in 1 .. n : picked[k] = IF k \in I THEN Append(picked[k - 1], s[k]) ELSE picked[k - 1]
  <2>1. 0 \in 0 .. n /\ \A k \in 1 .. n : k \in 0 .. n /\ k # 0
    BY <1>1
  <2> HIDE DEF picked
  <2> QED BY <1>10, <2>1
<1>12. DOMAIN picked = 0 .. n
  BY <1>10
<1> HIDE DEF picked, Fits
<1>13. \A k \in 0 .. n : picked[k] \in D
  <2> DEFINE G == {k \in Nat : k <= n => picked[k] \in D}
  <2>1. 0 \in G
    BY <1>1, <1>5, <1>11
  <2>2. ASSUME NEW k \in G PROVE k + 1 \in G
    <3> SUFFICES ASSUME k + 1 <= n PROVE picked[k + 1] \in D
      OBVIOUS
    <3>1. picked[k] \in D /\ k + 1 \in 1 .. n /\ (k + 1) - 1 = k
      BY <1>1, <2>2
    <3>2. picked[k + 1] = IF k + 1 \in I THEN Append(picked[k], s[k + 1]) ELSE picked[k]
      BY <1>11, <3>1
    <3> QED BY <1>1, <3>1, <3>2 DEF D
  <2> HIDE DEF G
  <2>3. \A k \in Nat : k \in G
    BY <2>1, <2>2, AllNumbers DEF G
  <2> QED BY <1>1, <2>3 DEF G
<1>14. picked \in [0 .. n -> D]
  <2>1. picked = [k \in 0 .. n |-> picked[k]]
    BY <1>10, <1>12 DEF Fits
  <2> QED BY <1>13, <2>1
<1>15. picked \in PickedRuns(T, s, I)
  BY <1>11, <1>14 DEF n, D, PickedRuns
<1> QED BY <1>4, <1>15 DEF n

\* Nothing is picked from nothing.
LEMMA PickedNone ==
    ASSUME NEW I
    PROVE  Layout!Picked(<<>>, I) = <<>>
<1> DEFINE none == <<>>
           T == {}
<1>1. none \in Seq(T) /\ Len(none) = 0 /\ none = <<>>
  OBVIOUS
<1> HIDE DEF none, T
<1>2. PICK c \in PickedRuns(T, none, I) : Layout!Picked(none, I) = c[Len(none)]
  BY <1>1, PickedSteps
<1>3. Layout!Picked(none, I) = <<>>
  BY <1>1, <1>2 DEF PickedRuns
<1> QED BY <1>1, <1>3

\* The last element of a sequence is picked or not, after the others.
LEMMA PickedMore ==
    ASSUME NEW T, NEW s \in Seq(T), NEW x \in T, NEW I
    PROVE  /\ Layout!Picked(s, I) \in Seq(T)
           /\ Layout!Picked(Append(s, x), I) =
                 IF Len(s) + 1 \in I THEN Append(Layout!Picked(s, I), x) ELSE Layout!Picked(s, I)
<1> DEFINE t == Append(s, x)
           n == Len(s)
<1>1. t \in Seq(T) /\ n \in Nat /\ Len(t) = n + 1 /\ t[n + 1] = x /\ \A k \in 1 .. n : t[k] = s[k]
  OBVIOUS
<1>2. PICK c \in PickedRuns(T, s, I) : Layout!Picked(s, I) = c[n]
  BY PickedSteps
<1>3. /\ c \in [0 .. n -> Seq(T)] /\ c[0] = <<>>
      /\ \A k \in 1 .. n : c[k] = IF k \in I THEN Append(c[k - 1], s[k]) ELSE c[k - 1]
  BY <1>2 DEF PickedRuns
<1> HIDE DEF t
<1>4. PICK d \in PickedRuns(T, t, I) : Layout!Picked(t, I) = d[Len(t)]
  BY <1>1, PickedSteps
<1> HIDE DEF n
<1>5. /\ d \in [0 .. n + 1 -> Seq(T)] /\ d[0] = <<>>
      /\ \A k \in 1 .. n + 1 : d[k] = IF k \in I THEN Append(d[k - 1], t[k]) ELSE d[k - 1]
  BY <1>1, <1>4 DEF PickedRuns
<1> DEFINE G == {k \in Nat : k <= n => d[k] = c[k]}
<1>6. 0 \in G
  BY <1>1, <1>3, <1>5
<1>7. ASSUME NEW k \in G PROVE k + 1 \in G
  <2> SUFFICES ASSUME k + 1 <= n PROVE d[k + 1] = c[k + 1]
    OBVIOUS
  <2>1. d[k] = c[k] /\ k + 1 \in 1 .. n /\ k + 1 \in 1 .. n + 1 /\ (k + 1) - 1 = k
    BY <1>1, <1>7
  <2>2. d[k + 1] = IF k + 1 \in I THEN Append(d[k], t[k + 1]) ELSE d[k]
    BY <1>5, <2>1
  <2>3. c[k + 1] = IF k + 1 \in I THEN Append(c[k], s[k + 1]) ELSE c[k]
    BY <1>3, <2>1
  <2> QED BY <1>1, <2>1, <2>2, <2>3
<1> HIDE DEF G
<1>8. \A k \in Nat : k \in G
  BY <1>6, <1>7, AllNumbers DEF G
<1>9. d[n] = c[n]
  BY <1>1, <1>8 DEF G
<1>10. n + 1 \in 1 .. n + 1 /\ (n + 1) - 1 = n /\ n \in 0 .. n
  BY <1>1
<1>11. d[n + 1] = IF n + 1 \in I THEN Append(d[n], t[n + 1]) ELSE d[n]
  BY <1>5, <1>10
<1>12. Layout!Picked(s, I) \in Seq(T)
  BY <1>2, <1>3, <1>10
<1>13. Layout!Picked(t, I) = IF n + 1 \in I THEN Append(Layout!Picked(s, I), x) ELSE Layout!Picked(s, I)
  BY <1>1, <1>2, <1>4, <1>9, <1>11
<1> QED BY <1>12, <1>13 DEF t, n

-----------------------------------------------------------------------------
(* More about sums, and the sum over a sequence *)

\* A sum with noughts added.
LEMMA SumWithNoughts ==
    ASSUME NEW f, NEW g, NEW S, IsFiniteSet(S), NEW U \in SUBSET S,
           \A x \in S : g[x] = IF x \in U THEN f[x] ELSE 0, \A x \in U : f[x] \in Int
    PROVE  SumFunctionOnSet(f, U) = SumFunctionOnSet(g, S)
<1> DEFINE C == {s \in SUBSET S : SumFunctionOnSet(f, U \cap s) # SumFunctionOnSet(g, s)}
<1> SUFFICES ASSUME C # {} PROVE FALSE
  <2>1. U \cap S = U
    OBVIOUS
  <2> QED BY <2>1
<1>1. \A s \in SUBSET S : IsFiniteSet(s)
  BY FS_Subset
<1>2. PICK s \in C : \A x \in s : s \ {x} \notin C
  BY <1>1, SmallestSet
<1>3. s # {}
  <2>1. SumFunctionOnSet(f, {}) = 0 /\ SumFunctionOnSet(g, {}) = 0 /\ U \cap {} = {}
    BY SumOfNone
  <2> QED BY <1>2, <2>1
<1>4. PICK x \in s : TRUE
  BY <1>3
<1> DEFINE r == s \ {x}
<1>5. s \in SUBSET S /\ r \in SUBSET S /\ SumFunctionOnSet(f, U \cap s) # SumFunctionOnSet(g, s)
  BY <1>2
<1>6. SumFunctionOnSet(f, U \cap r) = SumFunctionOnSet(g, r)
  BY <1>2, <1>4, <1>5
<1>7. SumFunctionOnSet(g, s) = g[x] + SumFunctionOnSet(g, r) /\ SumFunctionOnSet(g, r) \in Int
  <2>1. \A y \in S : g[y] \in Int
    OBVIOUS
  <2> QED BY <1>1, <1>4, <1>5, <2>1, SumOfOneMore, SumType
<1>8. CASE x \in U
  <2> DEFINE V == U \cap s
  <2>1. V \in SUBSET S /\ x \in V /\ (\A y \in V : f[y] \in Int) /\ V \ {x} = U \cap r
    BY <1>4, <1>5, <1>8
  <2>2. IsFiniteSet(V)
    BY <1>1, <2>1
  <2> HIDE DEF V
  <2>3. SumFunctionOnSet(f, V) = f[x] + SumFunctionOnSet(f, V \ {x})
    BY <2>1, <2>2, SumOfOneMore
  <2>4. g[x] = f[x]
    BY <1>4, <1>5, <1>8
  <2> QED BY <1>5, <1>6, <1>7, <2>1, <2>3, <2>4 DEF V
<1>9. CASE x \notin U
  <2>1. U \cap s = U \cap r
    BY <1>9
  <2>2. g[x] = 0
    BY <1>4, <1>5, <1>9
  <2>3. SumFunctionOnSet(f, U \cap s) = SumFunctionOnSet(f, U \cap r)
    BY <2>1
  <2>4. SumFunctionOnSet(g, s) = SumFunctionOnSet(g, r)
    BY <1>7, <2>2
  <2> QED BY <1>5, <1>6, <2>3, <2>4
<1> QED BY <1>8, <1>9

\* A sum depends on the function's values on the set alone.
LEMMA SumSame ==
    ASSUME NEW f, NEW g, NEW S, IsFiniteSet(S), \A x \in S : f[x] = g[x] /\ f[x] \in Int
    PROVE  SumFunctionOnSet(f, S) = SumFunctionOnSet(g, S)
  BY SumWithNoughts

\* The sum of the weights of a sequence's elements.
WeightsOf(s, w) == [i \in 1 .. Len(s) |-> w[s[i]]]
Weigh(s, w) == SumFunctionOnSet(WeightsOf(s, w), 1 .. Len(s))

\* It is an integer, and nothing weighs nothing.
LEMMA WeighType ==
    ASSUME NEW T, NEW w \in [T -> Int], NEW s \in Seq(T)
    PROVE  /\ Weigh(s, w) \in Int
           /\ \A J \in SUBSET (1 .. Len(s)) :
                 IsFiniteSet(J) /\ SumFunctionOnSet(WeightsOf(s, w), J) \in Int
<1>1. Len(s) \in Nat /\ \A i \in 1 .. Len(s) : s[i] \in T
  OBVIOUS
<1>2. IsFiniteSet(1 .. Len(s))
  BY <1>1, FS_Interval
<1>3. \A i \in 1 .. Len(s) : WeightsOf(s, w)[i] \in Int
  BY <1>1 DEF WeightsOf
<1>4. \A J \in SUBSET (1 .. Len(s)) : IsFiniteSet(J) /\ SumFunctionOnSet(WeightsOf(s, w), J) \in Int
  BY <1>2, <1>3, FS_Subset, SumType
<1> QED BY <1>4 DEF Weigh

\* The empty sequence weighs nothing.
LEMMA WeighNone ==
    ASSUME NEW w
    PROVE  Weigh(<<>>, w) = 0
<1>1. 1 .. Len(<<>>) = {}
  OBVIOUS
<1> QED BY <1>1, SumOfNone DEF Weigh

\* One more element weighs what it weighs; the places before it what they did.
LEMMA WeighMore ==
    ASSUME NEW T, NEW w \in [T -> Int], NEW s \in Seq(T), NEW x \in T
    PROVE  /\ Weigh(Append(s, x), w) = Weigh(s, w) + w[x]
           /\ \A J \in SUBSET (1 .. Len(s)) :
                 SumFunctionOnSet(WeightsOf(Append(s, x), w), J) = SumFunctionOnSet(WeightsOf(s, w), J)
<1> DEFINE t == Append(s, x)
           n == Len(s)
           f == WeightsOf(s, w)
           g == WeightsOf(t, w)
<1>1. n \in Nat /\ t \in Seq(T) /\ Len(t) = n + 1 /\ t[n + 1] = x /\ \A i \in 1 .. n : t[i] = s[i]
  BY AppendFacts
<1> HIDE DEF t, n
<1>2. \A i \in 1 .. n : f[i] = g[i] /\ f[i] \in Int
  BY <1>1 DEF WeightsOf, n
<1>3. g[n + 1] = w[x] /\ w[x] \in Int
  BY <1>1 DEF WeightsOf
<1>4. \A J \in SUBSET (1 .. n) : IsFiniteSet(J)
  <2>1. IsFiniteSet(1 .. n)
    BY <1>1, FS_Interval
  <2> QED BY <2>1, FS_Subset
<1> HIDE DEF f, g
<1>5. ASSUME NEW J \in SUBSET (1 .. n) PROVE SumFunctionOnSet(g, J) = SumFunctionOnSet(f, J)
  <2>1. \A i \in J : f[i] = g[i] /\ f[i] \in Int
    BY <1>2
  <2> QED BY <1>4, <2>1, SumSame
<1>6. SumFunctionOnSet(g, (1 .. n) \cup {n + 1}) = g[n + 1] + SumFunctionOnSet(g, 1 .. n)
  <2>1. n + 1 \notin 1 .. n /\ \A i \in 1 .. n : g[i] \in Int
    BY <1>1, <1>2
  <2> QED BY <1>3, <1>4, <2>1, SumOfAdded
<1>7. 1 .. n + 1 = (1 .. n) \cup {n + 1}
  BY <1>1
<1>8. SumFunctionOnSet(f, 1 .. n) \in Int
  BY <1>2, <1>4, SumType
<1>9. SumFunctionOnSet(g, 1 .. n + 1) = SumFunctionOnSet(f, 1 .. n) + w[x]
  <2>1. SumFunctionOnSet(g, 1 .. n) = SumFunctionOnSet(f, 1 .. n)
    BY <1>5
  <2>2. SumFunctionOnSet(g, 1 .. n + 1) = w[x] + SumFunctionOnSet(f, 1 .. n)
    BY <1>3, <1>6, <1>7, <2>1
  <2> QED BY <1>3, <1>8, <2>2
<1> QED BY <1>1, <1>5, <1>9 DEF t, n, f, g, Weigh

\* What two sequences in a row weigh.
LEMMA WeighConcat ==
    ASSUME NEW T, NEW w \in [T -> Int], NEW s \in Seq(T), NEW t \in Seq(T)
    PROVE  Weigh(s \o t, w) = Weigh(s, w) + Weigh(t, w)
<1> DEFINE G == {u \in Seq(T) : Weigh(s \o u, w) = Weigh(s, w) + Weigh(u, w)}
           empty == <<>>
<1>1. empty \in G
  <2>1. empty \in Seq(T) /\ s \o empty = s
    OBVIOUS
  <2>2. Weigh(s, w) \in Int /\ Weigh(empty, w) = 0
    BY WeighType, WeighNone
  <2> QED BY <2>1, <2>2
<1>2. ASSUME NEW u \in G, NEW x \in T PROVE Append(u, x) \in G
  <2>1. u \in Seq(T) /\ Append(u, x) \in Seq(T) /\ s \o u \in Seq(T)
    BY AppendFacts
  <2>2. s \o Append(u, x) = Append(s \o u, x)
    BY <2>1
  <2> DEFINE su == s \o u
  <2>3. su \in Seq(T) /\ Weigh(su, w) = Weigh(s, w) + Weigh(u, w)
    BY <2>1
  <2> HIDE DEF su
  <2>4. Weigh(Append(su, x), w) = Weigh(su, w) + w[x] /\ Weigh(Append(u, x), w) = Weigh(u, w) + w[x]
    BY <2>1, <2>3, WeighMore
  <2>5. Weigh(s, w) \in Int /\ Weigh(u, w) \in Int /\ w[x] \in Int
    BY <2>1, WeighType
  <2>6. Weigh(Append(su, x), w) = Weigh(s, w) + Weigh(Append(u, x), w)
    BY <2>3, <2>4, <2>5
  <2> QED BY <2>1, <2>2, <2>6 DEF su
<1>3. empty = <<>>
  OBVIOUS
<1> HIDE DEF G, empty
<1>4. \A u \in Seq(T) : u \in G
  <2>1. G \in SUBSET Seq(T)
    BY DEF G
  <2> QED BY <1>1, <1>2, <1>3, <2>1, AllSequences
<1> QED BY <1>4 DEF G

-----------------------------------------------------------------------------
(* What is picked from a sequence *)

\* The places that are picked among the first n, with one more.
LEMMA PlacesMore ==
    ASSUME NEW n \in Nat, NEW I
    PROVE  I \cap (1 .. n + 1) = IF n + 1 \in I THEN (I \cap (1 .. n)) \cup {n + 1} ELSE I \cap (1 .. n)
  OBVIOUS

\* There are as many elements picked as places, and they are the sequence's.
LEMMA PickedLen ==
    ASSUME NEW T, NEW s \in Seq(T), NEW I
    PROVE  /\ Layout!Picked(s, I) \in Seq(T)
           /\ Len(Layout!Picked(s, I)) = Cardinality(I \cap (1 .. Len(s)))
<1> DEFINE P(u) == Layout!Picked(u, I)
           A(u) == I \cap (1 .. Len(u))
           G == {u \in Seq(T) : P(u) \in Seq(T) /\ Len(P(u)) = Cardinality(A(u))}
           empty == <<>>
<1>1. empty \in G
  <2>1. empty \in Seq(T) /\ Len(empty) = 0 /\ A(empty) = {}
    OBVIOUS
  <2>2. P(empty) = empty
    BY PickedNone
  <2>3. Cardinality({}) = 0
    BY FS_EmptySet
  <2> QED BY <2>1, <2>2, <2>3
<1>2. ASSUME NEW u \in G, NEW x \in T PROVE Append(u, x) \in G
  <2> DEFINE n == Len(u)
             v == Append(u, x)
  <2>1. u \in Seq(T) /\ n \in Nat /\ v \in Seq(T) /\ Len(v) = n + 1
    BY AppendFacts
  <2>2. P(u) \in Seq(T) /\ Len(P(u)) = Cardinality(A(u))
    OBVIOUS
  <2>3. P(v) = IF n + 1 \in I THEN Append(P(u), x) ELSE P(u)
    BY <2>1, PickedMore
  <2>4. A(v) = IF n + 1 \in I THEN A(u) \cup {n + 1} ELSE A(u)
    BY <2>1, PlacesMore
  <2>5. IsFiniteSet(A(u)) /\ n + 1 \notin A(u)
    <3>1. IsFiniteSet(1 .. n)
      BY <2>1, FS_Interval
    <3> QED BY <2>1, <3>1, FS_Subset
  <2> HIDE DEF v, P, A, n
  <2>6. CASE n + 1 \in I
    <3>1. Cardinality(A(v)) = Cardinality(A(u)) + 1
      BY <2>4, <2>5, <2>6, FS_AddElement
    <3>2. P(v) \in Seq(T) /\ Len(P(v)) = Len(P(u)) + 1
      BY <2>2, <2>3, <2>6, AppendFacts
    <3> QED BY <2>1, <2>2, <3>1, <3>2 DEF v
  <2>7. CASE n + 1 \notin I
    BY <2>1, <2>2, <2>3, <2>4, <2>7 DEF v
  <2> QED BY <2>6, <2>7
<1>3. G \in SUBSET Seq(T) /\ empty = <<>>
  OBVIOUS
<1> HIDE DEF G, empty
<1>4. s \in G
  BY <1>1, <1>2, <1>3, AllSequences
<1> QED BY <1>4 DEF G

\* Only places of the sequence count.
LEMMA PickedSame ==
    ASSUME NEW T, NEW s \in Seq(T), NEW I, NEW J, I \cap (1 .. Len(s)) = J \cap (1 .. Len(s))
    PROVE  Layout!Picked(s, I) = Layout!Picked(s, J)
<1> DEFINE Alike(u) == I \cap (1 .. Len(u)) = J \cap (1 .. Len(u))
           G == {u \in Seq(T) : Alike(u) => Layout!Picked(u, I) = Layout!Picked(u, J)}
           empty == <<>>
<1>1. empty \in G
  <2>1. empty \in Seq(T)
    OBVIOUS
  <2>2. Layout!Picked(empty, I) = empty /\ Layout!Picked(empty, J) = empty
    BY PickedNone
  <2> QED BY <2>1, <2>2
<1>2. ASSUME NEW u \in G, NEW x \in T PROVE Append(u, x) \in G
  <2> DEFINE n == Len(u)
             v == Append(u, x)
  <2>1. u \in Seq(T) /\ n \in Nat /\ v \in Seq(T) /\ Len(v) = n + 1
    BY AppendFacts
  <2>2. /\ Layout!Picked(v, I) = IF n + 1 \in I THEN Append(Layout!Picked(u, I), x) ELSE Layout!Picked(u, I)
        /\ Layout!Picked(v, J) = IF n + 1 \in J THEN Append(Layout!Picked(u, J), x) ELSE Layout!Picked(u, J)
    BY <2>1, PickedMore
  <2> HIDE DEF v
  <2>3. ASSUME Alike(v) PROVE Layout!Picked(v, I) = Layout!Picked(v, J)
    <3>1. Alike(u) /\ (n + 1 \in I <=> n + 1 \in J)
      BY <2>1, <2>3
    <3> QED BY <2>2, <3>1
  <2> QED BY <2>1, <2>3 DEF v
<1>3. G \in SUBSET Seq(T) /\ empty = <<>>
  OBVIOUS
<1> HIDE DEF G, empty
<1>4. s \in G
  BY <1>1, <1>2, <1>3, AllSequences
<1> QED BY <1>4 DEF G

\* What is picked weighs what its places do.
LEMMA PickedWeigh ==
    ASSUME NEW T, NEW w \in [T -> Int], NEW s \in Seq(T), NEW I
    PROVE  Weigh(Layout!Picked(s, I), w) = SumFunctionOnSet(WeightsOf(s, w), I \cap (1 .. Len(s)))
<1> DEFINE P(u) == Layout!Picked(u, I)
           A(u) == I \cap (1 .. Len(u))
           G == {u \in Seq(T) : Weigh(P(u), w) = SumFunctionOnSet(WeightsOf(u, w), A(u))}
           empty == <<>>
<1>1. empty \in G
  <2>1. empty \in Seq(T) /\ A(empty) = {}
    OBVIOUS
  <2>2. P(empty) = empty
    BY PickedNone
  <2>3. Weigh(empty, w) = 0 /\ SumFunctionOnSet(WeightsOf(empty, w), {}) = 0
    BY WeighNone, SumOfNone
  <2> QED BY <2>1, <2>2, <2>3
<1>2. ASSUME NEW u \in G, NEW x \in T PROVE Append(u, x) \in G
  <2> DEFINE n == Len(u)
             v == Append(u, x)
             f == WeightsOf(u, w)
             g == WeightsOf(v, w)
  <2>1. u \in Seq(T) /\ n \in Nat /\ v \in Seq(T) /\ Len(v) = n + 1 /\ v[n + 1] = x
    BY AppendFacts
  <2>2. Weigh(P(u), w) = SumFunctionOnSet(f, A(u)) /\ P(u) \in Seq(T)
    BY <2>1, PickedLen
  <2>3. P(v) = IF n + 1 \in I THEN Append(P(u), x) ELSE P(u)
    BY <2>1, PickedMore
  <2>4. A(v) = IF n + 1 \in I THEN A(u) \cup {n + 1} ELSE A(u)
    BY <2>1, PlacesMore
  <2>5. IsFiniteSet(A(u)) /\ n + 1 \notin A(u) /\ A(u) \in SUBSET (1 .. n)
    <3>1. IsFiniteSet(1 .. n)
      BY <2>1, FS_Interval
    <3> QED BY <2>1, <3>1, FS_Subset
  <2>6. SumFunctionOnSet(g, A(u)) = SumFunctionOnSet(f, A(u))
    BY <2>1, <2>5, WeighMore
  <2>7. g[n + 1] = w[x] /\ w[x] \in Int /\ \A i \in A(u) : g[i] \in Int
    <3>1. \A i \in 1 .. n + 1 : v[i] \in T
      BY <2>1
    <3> QED BY <2>1, <2>5, <3>1 DEF WeightsOf
  <2> HIDE DEF v, P, A, n, f, g
  <2>8. CASE n + 1 \in I
    <3>1. /\ SumFunctionOnSet(g, A(u) \cup {n + 1}) = g[n + 1] + SumFunctionOnSet(g, A(u))
          /\ SumFunctionOnSet(g, A(u)) \in Int
      BY <2>5, <2>7, SumOfAdded
    <3>2. Weigh(Append(P(u), x), w) = Weigh(P(u), w) + w[x]
      BY <2>2, WeighMore
    <3>3. Weigh(P(v), w) = Weigh(P(u), w) + w[x]
      BY <2>3, <2>8, <3>2
    <3>4. SumFunctionOnSet(g, A(v)) = w[x] + SumFunctionOnSet(f, A(u)) /\ SumFunctionOnSet(f, A(u)) \in Int
      BY <2>4, <2>6, <2>7, <2>8, <3>1
    <3>5. Weigh(P(v), w) = SumFunctionOnSet(g, A(v))
      BY <2>2, <2>7, <3>3, <3>4
    <3> QED BY <2>1, <3>5 DEF v, g
  <2>9. CASE n + 1 \notin I
    BY <2>1, <2>2, <2>3, <2>4, <2>6, <2>9 DEF v, g
  <2> QED BY <2>8, <2>9
<1>3. G \in SUBSET Seq(T) /\ empty = <<>>
  OBVIOUS
<1> HIDE DEF G, empty
<1>4. s \in G
  BY <1>1, <1>2, <1>3, AllSequences
<1> QED BY <1>4 DEF G

-----------------------------------------------------------------------------
(* The outputs that fit *)

\* What the service may send: an amount, and the length of a script, 0 for none.
Pays == [value : Nat, scriptLen : Nat]
ValueOf == [o \in Pays |-> o.value]
CostOf == [o \in Pays |-> o.scriptLen + 9]

\* What a job has.
IsJob(j) ==
    /\ j.outputs \in Seq(Pays) /\ j.value \in Nat
    /\ j.inputLen \in Nat /\ j.poolLen \in Nat /\ j.txSize \in Nat /\ j.txWeight \in Nat

\* A pass over a job's outputs, at some place.
ScanStates(j) ==
    [chosen : SUBSET (1 .. Len(j.outputs)), room : Int, sum : 0 .. j.value, leading : Nat,
     leadRoom : Int, leadFull : BOOLEAN, over : BOOLEAN]

\* Before the first output.
Unvisited(room, leadRoom) ==
    [chosen |-> {}, room |-> room, sum |-> 0, leading |-> 0,
     leadRoom |-> leadRoom, leadFull |-> FALSE, over |-> FALSE]

\* The parts of a state.
LEMMA ScanStateParts ==
    ASSUME NEW j, NEW p \in ScanStates(j)
    PROVE  /\ p.chosen \in SUBSET (1 .. Len(j.outputs)) /\ p.room \in Int /\ p.sum \in 0 .. j.value
           /\ p.leading \in Nat /\ p.leadRoom \in Int
           /\ p.leadFull \in BOOLEAN /\ p.over \in BOOLEAN
  BY DEF ScanStates

\* One more output is a state again.
LEMMA VisitedType ==
    ASSUME NEW j, IsJob(j), NEW k \in 1 .. Len(j.outputs), NEW p \in ScanStates(j)
    PROVE  Layout!Visited(j, k, p) \in ScanStates(j)
<1> DEFINE o == j.outputs[k]
           cost == o.scriptLen + 9
           leads == ~p.leadFull /\ cost <= p.leadRoom
           next == [chosen |-> p.chosen \cup {k},
                    room |-> p.room - cost,
                    sum |-> p.sum + o.value,
                    leading |-> p.leading + (IF leads THEN 1 ELSE 0),
                    leadRoom |-> p.leadRoom - (IF leads THEN cost ELSE 0),
                    leadFull |-> ~leads,
                    over |-> p.room - cost < 30 \/ p.sum + o.value >= j.value]
<1>1. o \in Pays /\ j.value \in Nat
  BY DEF IsJob
<1>2. o.value \in Nat /\ cost \in Nat
  BY <1>1 DEF Pays
<1>3. Layout!Visited(j, k, p) =
          IF p.over \/ cost > p.room \/ ~Layout!StaysWithin(p.sum + o.value, j) THEN p ELSE next
  BY DEF Layout!Visited
<1>4. ASSUME Layout!StaysWithin(p.sum + o.value, j) PROVE next \in ScanStates(j)
  <2>1. p.sum + o.value \in 0 .. j.value
    BY <1>4 DEF Layout!StaysWithin
  <2>2. p.chosen \cup {k} \in SUBSET (1 .. Len(j.outputs))
    BY ScanStateParts
  <2>3. p.room \in Int /\ p.leading \in Nat /\ p.leadRoom \in Int
    BY ScanStateParts
  <2>4. p.room - cost \in Int
    BY <1>2, <2>3
  <2>5. p.leading + (IF leads THEN 1 ELSE 0) \in Nat
    BY <2>3
  <2>6. p.leadRoom - (IF leads THEN cost ELSE 0) \in Int
    BY <1>2, <2>3
  <2> HIDE DEF leads, cost, o
  <2> QED BY <2>1, <2>2, <2>4, <2>5, <2>6 DEF ScanStates
<1> HIDE DEF next, cost, o
<1> QED BY <1>3, <1>4

\* The states of a pass, at every place.
ScanRuns(j, room, leadRoom) ==
    {c \in [0 .. Len(j.outputs) -> ScanStates(j)] :
        /\ c[0] = Unvisited(room, leadRoom)
        /\ \A k \in 1 .. Len(j.outputs) : c[k] = Layout!Visited(j, k, c[k - 1])}

\* The recursion in the definition of Scan.
LEMMA ScanSteps ==
    ASSUME NEW j, IsJob(j), NEW room \in Int, NEW leadRoom \in Int
    PROVE  \E c \in ScanRuns(j, room, leadRoom) : Layout!Scan(j, room, leadRoom) = c[Len(j.outputs)]
<1> DEFINE n == Len(j.outputs)
           D == ScanStates(j)
           first == Unvisited(room, leadRoom)
           V(k, p) == Layout!Visited(j, k, p)
           F == [x \in (1 .. n) \X D |-> V(x[1], x[2])]
           Fits(c) == c = [k \in 0 .. n |->
                              IF k = 0
                              THEN [chosen |-> {}, room |-> room, sum |-> 0, leading |-> 0,
                                    leadRoom |-> leadRoom, leadFull |-> FALSE, over |-> FALSE]
                              ELSE V(k, c[k - 1])]
           scan == CHOOSE c : Fits(c)
<1>1. n \in Nat /\ j.value \in Nat
  BY DEF IsJob
<1>2. first \in D
  BY <1>1 DEF Unvisited, ScanStates
<1>3. \A k \in 1 .. n : \A p \in D : V(k, p) \in D
  BY VisitedType
<1>4. Layout!Scan(j, room, leadRoom) = scan[n]
  BY DEF Layout!Scan
<1>5. first = [chosen |-> {}, room |-> room, sum |-> 0, leading |-> 0,
               leadRoom |-> leadRoom, leadFull |-> FALSE, over |-> FALSE]
  BY DEF Unvisited
<1> HIDE DEF n, D, first, V
<1>6. F \in StepFunctions(n, D)
  BY <1>3 DEF StepFunctions
<1>7. \A k \in 1 .. n : \A p \in D : F[<<k, p>>] = V(k, p)
  OBVIOUS
<1> HIDE DEF F
<1>8. PICK g : g \in StepRuns(n, D, first, F)
  BY <1>1, <1>2, <1>6, StepByStep
<1>9. g \in [0 .. n -> D] /\ g[0] = first /\ \A k \in 1 .. n : g[k] = F[<<k, g[k - 1]>>]
  BY <1>8 DEF StepRuns
<1>10. \A k \in 1 .. n : g[k] = V(k, g[k - 1])
  <2> SUFFICES ASSUME NEW k \in 1 .. n PROVE g[k] = V(k, g[k - 1])
    OBVIOUS
  <2>1. g[k - 1] \in D
    BY <1>1, <1>9
  <2> QED BY <1>7, <1>9, <2>1
<1>11. Fits(g)
  <2> DEFINE h == [k \in 0 .. n |-> IF k = 0 THEN first ELSE V(k, g[k - 1])]
  <2>1. \A k \in 0 .. n : g[k] = h[k]
    <3>1. \A k \in 0 .. n : k = 0 \/ (k # 0 /\ k \in 1 .. n)
      BY <1>1
    <3> QED BY <1>9, <1>10, <3>1
  <2>2. g = h
    BY <1>9, <2>1
  <2> QED BY <1>5, <2>2
<1>12. Fits(scan)
  BY <1>11
<1>13. DOMAIN scan = 0 .. n
  BY <1>12
<1>14. scan[0] = first /\ \A k \in 1 .. n : scan[k] = V(k, scan[k - 1])
  <2>1. 0 \in 0 .. n /\ \A k \in 1 .. n : k \in 0 .. n /\ k # 0
    BY <1>1
  <2> HIDE DEF scan
  <2> QED BY <1>5, <1>12, <2>1
<1>15. scan = [k \in 0 .. n |-> scan[k]]
  <2> DEFINE h == [k \in 0 .. n |-> IF k = 0 THEN first ELSE V(k, scan[k - 1])]
  <2> HIDE DEF scan
  <2>1. scan = h
    BY <1>5, <1>12
  <2> QED BY <2>1
<1> HIDE DEF scan, Fits
<1>16. \A k \in 0 .. n : scan[k] \in D
  <2> DEFINE G == {k \in Nat : k <= n => scan[k] \in D}
  <2>1. 0 \in G
    BY <1>1, <1>2, <1>14
  <2>2. ASSUME NEW k \in G PROVE k + 1 \in G
    <3> SUFFICES ASSUME k + 1 <= n PROVE scan[k + 1] \in D
      OBVIOUS
    <3>1. scan[k] \in D /\ k + 1 \in 1 .. n /\ (k + 1) - 1 = k
      BY <1>1, <2>2
    <3>2. scan[k + 1] = V(k + 1, scan[k])
      BY <1>14, <3>1
    <3> QED BY <1>3, <3>1, <3>2
  <2> HIDE DEF G
  <2>3. \A k \in Nat : k \in G
    BY <2>1, <2>2, AllNumbers DEF G
  <2> QED BY <1>1, <2>3 DEF G
<1>17. scan \in [0 .. n -> D]
  BY <1>15, <1>16
<1>18. scan \in ScanRuns(j, room, leadRoom)
  BY <1>14, <1>17 DEF n, D, first, V, ScanRuns
<1> QED BY <1>4, <1>18 DEF n

\* What a pass keeps true: the sum is that of the chosen outputs' amounts, and their
\* bytes have been taken from the room, which was enough for each.
ScanKeeps(j, room, p) ==
    /\ p.sum = SumFunctionOnSet(WeightsOf(j.outputs, ValueOf), p.chosen)
    /\ p.room = room - SumFunctionOnSet(WeightsOf(j.outputs, CostOf), p.chosen)
    /\ p.chosen # {} => p.room >= 0

\* One more output visited keeps it.
LEMMA VisitedKeeps ==
    ASSUME NEW j, IsJob(j), NEW k \in 1 .. Len(j.outputs), NEW p \in ScanStates(j), NEW room \in Int,
           ScanKeeps(j, room, p), p.chosen \in SUBSET (1 .. k - 1)
    PROVE  LET q == Layout!Visited(j, k, p)
           IN  ScanKeeps(j, room, q) /\ q.chosen \in SUBSET (1 .. k)
<1> DEFINE o == j.outputs[k]
           cost == o.scriptLen + 9
           leads == ~p.leadFull /\ cost <= p.leadRoom
           next == [chosen |-> p.chosen \cup {k},
                    room |-> p.room - cost,
                    sum |-> p.sum + o.value,
                    leading |-> p.leading + (IF leads THEN 1 ELSE 0),
                    leadRoom |-> p.leadRoom - (IF leads THEN cost ELSE 0),
                    leadFull |-> ~leads,
                    over |-> p.room - cost < 30 \/ p.sum + o.value >= j.value]
           q == Layout!Visited(j, k, p)
           values == WeightsOf(j.outputs, ValueOf)
           costs == WeightsOf(j.outputs, CostOf)
<1>1. o \in Pays /\ Len(j.outputs) \in Nat /\ j.outputs \in Seq(Pays)
  BY DEF IsJob
<1>2. o.value \in Nat /\ cost \in Nat
  BY <1>1 DEF Pays
<1>3. q = IF p.over \/ cost > p.room \/ ~Layout!StaysWithin(p.sum + o.value, j) THEN p ELSE next
  BY DEF Layout!Visited
<1>4. CASE q = p
  <2>1. p.chosen \in SUBSET (1 .. k)
    BY <1>1
  <2> QED BY <1>4, <2>1
<1>5. CASE q = next /\ cost <= p.room
  <2>1. q.chosen = p.chosen \cup {k} /\ q.room = p.room - cost /\ q.sum = p.sum + o.value
    BY <1>5
  <2>2. values[k] = o.value /\ costs[k] = cost
    BY <1>1 DEF WeightsOf, ValueOf, CostOf
  <2>3. ValueOf \in [Pays -> Int] /\ CostOf \in [Pays -> Int]
    BY DEF ValueOf, CostOf, Pays
  <2>4. /\ \A i \in 1 .. Len(j.outputs) : values[i] \in Int /\ costs[i] \in Int
        /\ IsFiniteSet(p.chosen) /\ k \notin p.chosen
    <3>1. p.chosen \in SUBSET (1 .. Len(j.outputs)) /\ k \notin p.chosen
      BY <1>1
    <3>2. \A i \in 1 .. Len(j.outputs) : j.outputs[i] \in Pays
      BY <1>1
    <3>3. IsFiniteSet(p.chosen)
      BY <1>1, <2>3, <3>1, WeighType
    <3> QED BY <2>3, <3>1, <3>2, <3>3 DEF WeightsOf
  <2>5. \A i \in p.chosen : values[i] \in Int /\ costs[i] \in Int
    BY <1>1, <2>4
  <2> HIDE DEF values, costs, next, cost, o
  <2>6. /\ SumFunctionOnSet(values, p.chosen \cup {k}) = values[k] + SumFunctionOnSet(values, p.chosen)
        /\ SumFunctionOnSet(values, p.chosen) \in Int
    BY <1>2, <2>2, <2>4, <2>5, SumOfAdded
  <2>7. /\ SumFunctionOnSet(costs, p.chosen \cup {k}) = costs[k] + SumFunctionOnSet(costs, p.chosen)
        /\ SumFunctionOnSet(costs, p.chosen) \in Int
    BY <1>2, <2>2, <2>4, <2>5, SumOfAdded
  <2>8. /\ p.sum = SumFunctionOnSet(values, p.chosen)
        /\ p.room = room - SumFunctionOnSet(costs, p.chosen)
    BY DEF ScanKeeps, values, costs
  <2> HIDE DEF q
  <2>9. q.sum = SumFunctionOnSet(values, q.chosen)
    BY <1>2, <2>1, <2>2, <2>6, <2>8
  <2>10. q.room = room - SumFunctionOnSet(costs, q.chosen)
    BY <1>2, <2>1, <2>2, <2>7, <2>8
  <2>11. q.room >= 0
    BY <1>2, <1>5, <2>1, ScanStateParts
  <2>12. q.chosen \in SUBSET (1 .. k)
    BY <1>1, <2>1
  <2>13. ScanKeeps(j, room, q)
    BY <2>9, <2>10, <2>11 DEF ScanKeeps, values, costs
  <2> QED BY <2>12, <2>13 DEF q
<1>6. q = p \/ (q = next /\ cost <= p.room)
  <2>1. p.room \in Int
    BY ScanStateParts
  <2> QED BY <1>2, <1>3, <2>1
<1> QED BY <1>4, <1>5, <1>6

\* The whole pass.
LEMMA ScanFacts ==
    ASSUME NEW j, IsJob(j), NEW room \in Int, NEW leadRoom \in Int
    PROVE  LET scan == Layout!Scan(j, room, leadRoom)
           IN  scan \in ScanStates(j) /\ ScanKeeps(j, room, scan)
<1> DEFINE n == Len(j.outputs)
<1>1. n \in Nat
  BY DEF IsJob
<1>2. PICK c \in ScanRuns(j, room, leadRoom) : Layout!Scan(j, room, leadRoom) = c[n]
  BY ScanSteps
<1>3. /\ c \in [0 .. n -> ScanStates(j)] /\ c[0] = Unvisited(room, leadRoom)
      /\ \A k \in 1 .. n : c[k] = Layout!Visited(j, k, c[k - 1])
  BY DEF ScanRuns
<1> DEFINE G == {k \in Nat : k <= n => ScanKeeps(j, room, c[k]) /\ c[k].chosen \in SUBSET (1 .. k)}
<1>4. 0 \in G
  <2>1. c[0].chosen = {} /\ c[0].sum = 0 /\ c[0].room = room
    BY <1>3 DEF Unvisited
  <2>2. /\ SumFunctionOnSet(WeightsOf(j.outputs, ValueOf), {}) = 0
        /\ SumFunctionOnSet(WeightsOf(j.outputs, CostOf), {}) = 0
    BY SumOfNone
  <2>3. ScanKeeps(j, room, c[0])
    BY <2>1, <2>2 DEF ScanKeeps
  <2> QED BY <2>1, <2>3
<1>5. ASSUME NEW k \in G PROVE k + 1 \in G
  <2> SUFFICES ASSUME k + 1 <= n
               PROVE  ScanKeeps(j, room, c[k + 1]) /\ c[k + 1].chosen \in SUBSET (1 .. k + 1)
    OBVIOUS
  <2> DEFINE m == k + 1
  <2>1. m \in 1 .. n /\ m - 1 = k /\ k \in 0 .. n /\ ScanKeeps(j, room, c[k]) /\ c[k].chosen \in SUBSET (1 .. k)
    BY <1>1
  <2>2. c[m] = Layout!Visited(j, m, c[k]) /\ c[k] \in ScanStates(j)
    BY <1>3, <2>1
  <2>3. c[k].chosen \in SUBSET (1 .. m - 1)
    BY <2>1
  <2> HIDE DEF m
  <2> DEFINE p == c[k]
  <2>4. /\ m \in 1 .. Len(j.outputs) /\ p \in ScanStates(j) /\ ScanKeeps(j, room, p)
        /\ p.chosen \in SUBSET (1 .. m - 1) /\ c[m] = Layout!Visited(j, m, p)
    BY <2>1, <2>2, <2>3
  <2> HIDE DEF p
  <2>5. ScanKeeps(j, room, c[m]) /\ c[m].chosen \in SUBSET (1 .. m)
    BY <2>4, VisitedKeeps
  <2> QED BY <2>5 DEF m
<1> HIDE DEF G
<1>6. \A k \in Nat : k \in G
  BY <1>4, <1>5, AllNumbers DEF G
<1>7. ScanKeeps(j, room, c[n])
  BY <1>1, <1>6 DEF G
<1>8. c[n] \in ScanStates(j)
  BY <1>1, <1>3
<1> QED BY <1>2, <1>7, <1>8

-----------------------------------------------------------------------------
(* Transactions *)

Kinds == {"open_input", "input", "sequence", "count", "output", "extranonce", "locktime"}
Parts == [kind : Kinds, bytes : Nat, value : Nat]
Outs == {p \in Parts : p.kind = "output"}

\* The parts that are written.
LEMMA FixedParts ==
    /\ \A v \in Nat : \A l \in Nat : Layout!Output(v, l) \in Outs
    /\ Layout!DeadOutput \in Outs /\ Layout!Witness \in Outs /\ Layout!Signet \in Outs
    /\ Layout!Sequence \in Parts /\ Layout!Sequence.kind = "sequence"
    /\ Layout!Extranonce \in Parts /\ Layout!Extranonce.kind = "extranonce"
    /\ Layout!LockTime \in Parts /\ Layout!LockTime.kind = "locktime"
    /\ \A n \in Nat : /\ Layout!Count(n) \in Parts
                      /\ Layout!Count(n).kind = "count" /\ Layout!Count(n).value = n
<1>1. \A v \in Nat : \A l \in Nat : Layout!Output(v, l) \in Outs
  BY DEF Layout!Output, Layout!Part, Outs, Parts, Kinds
<1>2. Layout!DeadOutput \in Outs /\ Layout!Witness \in Outs /\ Layout!Signet \in Outs
  BY <1>1 DEF Layout!DeadOutput, Layout!Witness, Layout!Signet
<1>3. /\ Layout!Sequence \in Parts /\ Layout!Sequence.kind = "sequence"
      /\ Layout!Extranonce \in Parts /\ Layout!Extranonce.kind = "extranonce"
      /\ Layout!LockTime \in Parts /\ Layout!LockTime.kind = "locktime"
  BY DEF Layout!Sequence, Layout!Extranonce, Layout!LockTime, Layout!Part, Parts, Kinds
<1>4. ASSUME NEW n \in Nat
      PROVE  /\ Layout!Count(n) \in Parts
             /\ Layout!Count(n).kind = "count" /\ Layout!Count(n).value = n
  <2>1. Layout!VarIntLen(n) \in Nat
    BY DEF Layout!VarIntLen
  <2> QED BY <2>1 DEF Layout!Count, Layout!Part, Parts, Kinds
<1> QED BY <1>1, <1>2, <1>3, <1>4

\* Two sequences, and three, in a row.
Cat(s, t) == s \o t
Joined(s, t, u) == s \o t \o u

\* Rows are sequences, and may be put together in any order.
LEMMA CatFacts ==
    ASSUME NEW T, NEW s \in Seq(T), NEW t \in Seq(T), NEW u \in Seq(T)
    PROVE  /\ Cat(s, t) \in Seq(T) /\ Joined(s, t, u) = Cat(Cat(s, t), u)
           /\ Cat(Cat(s, t), u) = Cat(s, Cat(t, u))
<1>1. s \o t \in Seq(T) /\ (s \o t) \o u = s \o (t \o u)
  BY ConcatAssociative, ConcatProperties
<1> QED BY <1>1 DEF Cat, Joined

\* Where the elements of three sequences are in their row.
IsRow(x, s, t, u) ==
    /\ Len(x) = Len(s) + Len(t) + Len(u)
    /\ \A i \in 1 .. Len(s) : x[i] = s[i]
    /\ \A i \in 1 .. Len(t) : x[Len(s) + i] = t[i]
    /\ \A i \in 1 .. Len(u) : x[Len(s) + Len(t) + i] = u[i]

\* Where the elements are.
LEMMA JoinedParts ==
    ASSUME NEW T, NEW s \in Seq(T), NEW t \in Seq(T), NEW u \in Seq(T)
    PROVE  Joined(s, t, u) \in Seq(T) /\ IsRow(Joined(s, t, u), s, t, u)
  BY ThreeParts DEF Joined, IsRow

\* Where the rows are cut does not matter.
LEMMA JoinedAfter ==
    ASSUME NEW T, NEW a \in Seq(T), NEW b \in Seq(T), NEW t \in Seq(T), NEW u \in Seq(T)
    PROVE  Cat(a, Cat(b, Cat(t, u))) = Joined(Cat(a, b), t, u)
<1>1. Cat(a, b) \in Seq(T) /\ Cat(b, t) \in Seq(T) /\ Cat(t, u) \in Seq(T)
  BY CatFacts
<1>2. Cat(a, Cat(b, Cat(t, u))) = Cat(Cat(a, b), Cat(t, u))
  BY <1>1, CatFacts
<1>3. Cat(Cat(a, b), Cat(t, u)) = Cat(Cat(Cat(a, b), t), u)
  BY <1>1, CatFacts
<1> QED BY <1>1, <1>2, <1>3, CatFacts

\* A row within a row.
LEMMA JoinedWithin ==
    ASSUME NEW T, NEW s \in Seq(T), NEW a \in Seq(T), NEW b \in Seq(T), NEW t \in Seq(T), NEW u \in Seq(T)
    PROVE  Cat(Joined(s, a, b), Cat(t, u)) = Joined(s, Joined(a, b, t), u)
<1>1. Cat(a, b) \in Seq(T) /\ Cat(Cat(a, b), t) \in Seq(T) /\ Cat(s, Cat(a, b)) \in Seq(T) /\ Cat(t, u) \in Seq(T)
  BY CatFacts
<1>2. Joined(s, a, b) = Cat(s, Cat(a, b))
  BY CatFacts
<1>3. Cat(Cat(s, Cat(a, b)), Cat(t, u)) = Cat(Cat(Cat(s, Cat(a, b)), t), u)
  BY <1>1, CatFacts
<1>4. Cat(Cat(s, Cat(a, b)), t) = Cat(s, Cat(Cat(a, b), t))
  BY <1>1, CatFacts
<1>5. Joined(s, Joined(a, b, t), u) = Cat(Cat(s, Cat(Cat(a, b), t)), u)
  BY <1>1, CatFacts
<1> QED BY <1>2, <1>3, <1>4, <1>5

\* What is between the count and the lock time.
Bodies == {p \in Parts : p.kind \in {"output", "extranonce"}}

\* A body between a transaction's other parts.
Framed(input, body) ==
    Joined(<<input, Layout!Sequence, Layout!Count(Len(body))>>, body, <<Layout!LockTime>>)

\* Where they are.
Counted(tx, input, body, n) ==
    /\ tx \in Seq(Parts) /\ Len(tx) = n + 4 /\ DOMAIN tx = 1 .. n + 4
    /\ tx[1] = input /\ tx[3].value = n
    /\ \A i \in 1 .. n : tx[3 + i] = body[i]
    /\ {i \in DOMAIN tx : tx[i].kind = "sequence"} = {2}
    /\ {i \in DOMAIN tx : tx[i].kind = "count"} = {3}
    /\ {i \in DOMAIN tx : tx[i].kind = "locktime"} = {n + 4}

\* A body has as many parts as were counted, and the frame stays where it is.
LEMMA BodyIsCounted ==
    ASSUME NEW input \in Parts, input.kind \in {"open_input", "input"}, NEW body \in Seq(Bodies)
    PROVE  Counted(Framed(input, body), input, body, Len(body))
<1> DEFINE n == Len(body)
           s == <<input, Layout!Sequence, Layout!Count(n)>>
           u == <<Layout!LockTime>>
           tx == Joined(s, body, u)
<1>1. n \in Nat /\ \A i \in 1 .. n : body[i] \in Bodies
  OBVIOUS
<1>2. /\ Layout!Sequence \in Parts /\ Layout!Count(n) \in Parts /\ Layout!LockTime \in Parts
      /\ Layout!Sequence.kind = "sequence" /\ Layout!LockTime.kind = "locktime"
      /\ Layout!Count(n).kind = "count" /\ Layout!Count(n).value = n
  BY <1>1, FixedParts
<1>3. /\ s \in Seq(Parts) /\ Len(s) = 3
      /\ s[1] = input /\ s[2] = Layout!Sequence /\ s[3] = Layout!Count(n)
  BY <1>2
<1>4. u \in Seq(Parts) /\ Len(u) = 1 /\ u[1] = Layout!LockTime
  BY <1>2
<1>5. body \in Seq(Parts)
  BY DEF Bodies
<1>6. Framed(input, body) = tx
  BY DEF Framed
<1> HIDE DEF s, u
<1>7. /\ tx \in Seq(Parts) /\ Len(tx) = Len(s) + Len(body) + Len(u)
      /\ \A i \in 1 .. Len(s) : tx[i] = s[i]
      /\ \A i \in 1 .. Len(body) : tx[Len(s) + i] = body[i]
      /\ \A i \in 1 .. Len(u) : tx[Len(s) + Len(body) + i] = u[i]
  <2>1. tx \in Seq(Parts) /\ IsRow(tx, s, body, u)
    BY <1>3, <1>4, <1>5, JoinedParts
  <2> QED BY <2>1 DEF IsRow
<1> HIDE DEF tx
<1>8. /\ tx[1] = input /\ tx[2] = Layout!Sequence /\ tx[3] = Layout!Count(n)
      /\ \A i \in 1 .. n : tx[3 + i] = body[i]
      /\ tx[n + 4] = Layout!LockTime
  <2>1. /\ 1 \in 1 .. Len(s) /\ 2 \in 1 .. Len(s) /\ 3 \in 1 .. Len(s) /\ 1 \in 1 .. Len(u)
        /\ Len(s) + Len(body) + 1 = n + 4
    BY <1>1, <1>3, <1>4
  <2> QED BY <1>3, <1>4, <1>7, <2>1
<1>9. Len(tx) = n + 4 /\ DOMAIN tx = 1 .. n + 4
  <2>1. Len(tx) = n + 4
    BY <1>1, <1>3, <1>4, <1>7
  <2> QED BY <1>7, <2>1, LenProperties
<1>10. \A i \in 1 .. n + 4 : i \in {1, 2, 3, n + 4} \/ (i - 3 \in 1 .. n /\ tx[i] = body[i - 3])
  <2> SUFFICES ASSUME NEW i \in 1 .. n + 4, i \notin {1, 2, 3, n + 4}
               PROVE  i - 3 \in 1 .. n /\ tx[i] = body[i - 3]
    OBVIOUS
  <2>1. i - 3 \in 1 .. n /\ 3 + (i - 3) = i
    BY <1>1
  <2> QED BY <1>8, <2>1
<1>11. \A i \in 1 .. n + 4 :
          i \notin {1, 2, 3, n + 4} => tx[i].kind \in {"output", "extranonce"}
  <2> SUFFICES ASSUME NEW i \in 1 .. n + 4, i \notin {1, 2, 3, n + 4}
               PROVE  tx[i].kind \in {"output", "extranonce"}
    OBVIOUS
  <2>1. i - 3 \in 1 .. n /\ tx[i] = body[i - 3]
    BY <1>10
  <2>2. body[i - 3] \in Bodies
    BY <1>1, <2>1
  <2> QED BY <2>1, <2>2 DEF Bodies
<1>12. 1 \in 1 .. n + 4 /\ 2 \in 1 .. n + 4 /\ 3 \in 1 .. n + 4 /\ n + 4 \in 1 .. n + 4 /\ n + 4 \notin {1, 2, 3}
  BY <1>1
<1> HIDE DEF n
<1>13. ASSUME NEW i \in 1 .. n + 4
       PROVE  /\ tx[i].kind = "sequence" <=> i = 2
              /\ tx[i].kind = "count" <=> i = 3
              /\ tx[i].kind = "locktime" <=> i = n + 4
  <2>1. /\ tx[1].kind \in {"open_input", "input"} /\ tx[2].kind = "sequence" /\ tx[3].kind = "count"
        /\ tx[n + 4].kind = "locktime"
    BY <1>2, <1>8
  <2>2. CASE i \in {1, 2, 3, n + 4}
    BY <1>12, <2>1, <2>2
  <2>3. CASE i \notin {1, 2, 3, n + 4}
    BY <1>11, <2>3
  <2> QED BY <2>2, <2>3
<1>14. {i \in DOMAIN tx : tx[i].kind = "sequence"} = {2}
  BY <1>9, <1>12, <1>13
<1>15. {i \in DOMAIN tx : tx[i].kind = "count"} = {3}
  BY <1>9, <1>12, <1>13
<1>16. {i \in DOMAIN tx : tx[i].kind = "locktime"} = {n + 4}
  BY <1>9, <1>12, <1>13
<1>17. Counted(tx, input, body, n)
  BY <1>2, <1>7, <1>8, <1>9, <1>14, <1>15, <1>16 DEF Counted
<1> QED BY <1>6, <1>17 DEF n

\* The input is open for the extranonce.
OpenForm(input, outs) ==
    Layout!Coinbase(<<input>>, <<Layout!Sequence, Layout!Count(Len(outs))>> \o (outs \o <<Layout!LockTime>>))

\* The extranonce has an output of its own.
ClosedForm(input, lead, trail) ==
    Layout!Coinbase(
        <<input, Layout!Sequence, Layout!Count(Len(lead) + Len(trail) + 1)>> \o lead \o <<Layout!Extranonce>>,
        trail \o <<Layout!LockTime>>)

\* What is between the count and the lock time then.
ClosedBody(lead, trail) == Joined(lead, <<Layout!Extranonce>>, trail)

\* The parts of the first form, in a row.
LEMMA OpenParts ==
    ASSUME NEW input \in Parts, NEW outs \in Seq(Outs)
    PROVE  outs \in Seq(Bodies) /\ Transaction(OpenForm(input, outs)) = Framed(input, outs)
<1> DEFINE a == <<input>>
           b == <<Layout!Sequence, Layout!Count(Len(outs))>>
           u == <<Layout!LockTime>>
           s == <<input, Layout!Sequence, Layout!Count(Len(outs))>>
<1>1. outs \in Seq(Bodies) /\ outs \in Seq(Parts) /\ Len(outs) \in Nat
  BY DEF Outs, Bodies
<1>2. a \in Seq(Parts) /\ b \in Seq(Parts) /\ u \in Seq(Parts) /\ s = Cat(a, b)
  BY <1>1, FixedParts DEF Cat
<1>3. Transaction(OpenForm(input, outs)) = Cat(a, Cat(b, Cat(outs, u)))
  BY DEF OpenForm, Transaction, Layout!Coinbase, Cat
<1>4. Framed(input, outs) = Joined(s, outs, u)
  BY DEF Framed
<1> HIDE DEF a, b, u, s
<1>5. Cat(a, Cat(b, Cat(outs, u))) = Joined(Cat(a, b), outs, u)
  BY <1>1, <1>2, JoinedAfter
<1> QED BY <1>1, <1>2, <1>3, <1>4, <1>5

\* The parts of the second.
LEMMA ClosedParts ==
    ASSUME NEW input \in Parts, NEW lead \in Seq(Outs), NEW trail \in Seq(Outs)
    PROVE  LET body == ClosedBody(lead, trail) IN
           /\ body \in Seq(Bodies) /\ Len(body) = Len(lead) + Len(trail) + 1
           /\ \A i \in 1 .. Len(body) : body[i].kind = "extranonce" <=> i = Len(lead) + 1
           /\ Transaction(ClosedForm(input, lead, trail)) = Framed(input, body)
<1> DEFINE e == <<Layout!Extranonce>>
           u == <<Layout!LockTime>>
           body == Joined(lead, e, trail)
           m == Len(lead)
           n == Len(trail)
           s == <<input, Layout!Sequence, Layout!Count(m + n + 1)>>
<1>1. /\ lead \in Seq(Bodies) /\ lead \in Seq(Parts) /\ m \in Nat
      /\ trail \in Seq(Bodies) /\ trail \in Seq(Parts) /\ n \in Nat
      /\ \A i \in 1 .. m : lead[i].kind = "output"
      /\ \A i \in 1 .. n : trail[i].kind = "output"
  BY DEF Outs, Bodies
<1>2. /\ e \in Seq(Bodies) /\ e \in Seq(Parts) /\ Len(e) = 1 /\ e[1].kind = "extranonce"
      /\ u \in Seq(Parts)
  BY FixedParts DEF Bodies
<1>3. s \in Seq(Parts)
  <2>1. m + n + 1 \in Nat
    BY <1>1
  <2>2. Layout!Count(m + n + 1) \in Parts
    BY <2>1, FixedParts
  <2> QED BY <2>2, FixedParts
<1>4. Transaction(ClosedForm(input, lead, trail)) = Cat(Joined(s, lead, e), Cat(trail, u))
  BY DEF ClosedForm, Transaction, Layout!Coinbase, Cat, Joined
<1>5. ClosedBody(lead, trail) = body
  BY DEF ClosedBody
<1>6. m = Len(lead) /\ n = Len(trail) /\ s = <<input, Layout!Sequence, Layout!Count(m + n + 1)>>
  OBVIOUS
<1> HIDE DEF e, s, m, n
<1>7. /\ body \in Seq(Bodies) /\ Len(body) = m + Len(e) + n
      /\ \A i \in 1 .. m : body[i] = lead[i]
      /\ \A i \in 1 .. Len(e) : body[m + i] = e[i]
      /\ \A i \in 1 .. n : body[m + Len(e) + i] = trail[i]
  <2>1. body \in Seq(Bodies) /\ IsRow(body, lead, e, trail)
    BY <1>1, <1>2, JoinedParts
  <2> HIDE DEF body
  <2> QED BY <1>6, <2>1 DEF IsRow
<1> HIDE DEF body
<1>8. Len(body) = m + n + 1
  BY <1>1, <1>2, <1>7
<1>9. ASSUME NEW i \in 1 .. Len(body) PROVE body[i].kind = "extranonce" <=> i = m + 1
  <2>1. CASE i \in 1 .. m
    BY <1>1, <1>7, <2>1
  <2>2. CASE i = m + 1
    <3>1. 1 \in 1 .. Len(e)
      BY <1>2
    <3> QED BY <1>2, <1>7, <2>2, <3>1
  <2>3. CASE i > m + 1
    <3>1. i - (m + 1) \in 1 .. n /\ m + Len(e) + (i - (m + 1)) = i /\ i # m + 1
      BY <1>1, <1>2, <1>8, <2>3
    <3>2. body[i] = trail[i - (m + 1)]
      BY <1>7, <3>1
    <3> QED BY <1>1, <3>1, <3>2
  <2> QED BY <1>1, <1>8, <2>1, <2>2, <2>3
<1>10. Cat(Joined(s, lead, e), Cat(trail, u)) = Joined(s, body, u)
  <2> HIDE DEF u
  <2> QED BY <1>1, <1>2, <1>3, JoinedWithin DEF body
<1>11. Framed(input, body) = Joined(s, body, u)
  BY <1>6, <1>8 DEF Framed
<1> QED BY <1>4, <1>5, <1>6, <1>7, <1>8, <1>9, <1>10, <1>11

\* Both are transactions.
LEMMA OpenFormIsTransaction ==
    ASSUME NEW input \in Parts, input.kind = "open_input", NEW outs \in Seq(Outs)
    PROVE  IsTransaction(OpenForm(input, outs))
<1> DEFINE c == OpenForm(input, outs)
           tx == Transaction(c)
           n == Len(outs)
<1>1. /\ outs \in Seq(Bodies) /\ n \in Nat
      /\ tx = Framed(input, outs)
  BY OpenParts
<1>2. c.coinb1 = <<input>> /\ Len(c.coinb1) = 1 /\ c.coinb1[1] = input
  BY DEF OpenForm, Layout!Coinbase
<1> HIDE DEF c, tx
<1>3. /\ Len(tx) = n + 4 /\ DOMAIN tx = 1 .. n + 4
      /\ tx[1] = input /\ tx[3].value = n
      /\ \A i \in 1 .. n : tx[3 + i] = outs[i]
      /\ {i \in DOMAIN tx : tx[i].kind = "sequence"} = {2}
      /\ {i \in DOMAIN tx : tx[i].kind = "count"} = {3}
      /\ {i \in DOMAIN tx : tx[i].kind = "locktime"} = {n + 4}
  <2>1. Counted(tx, input, outs, n)
    BY <1>1, BodyIsCounted
  <2> QED BY <2>1 DEF Counted
<1>4. {i \in DOMAIN tx : tx[i].kind = "extranonce"} = {}
  <2> SUFFICES ASSUME NEW i \in 1 .. n + 4, tx[i].kind = "extranonce" PROVE FALSE
    BY <1>3
  <2>1. i # 1 /\ i # 2 /\ i # 3 /\ i # n + 4
    BY <1>3
  <2>2. i - 3 \in 1 .. n /\ 3 + (i - 3) = i
    BY <1>1, <2>1
  <2>3. tx[i] = outs[i - 3] /\ outs[i - 3] \in Outs
    BY <1>3, <2>2
  <2> QED BY <2>3 DEF Outs
<1>5. tx[3].value = Len(tx) - 4
  BY <1>1, <1>3
<1> QED BY <1>2, <1>3, <1>4, <1>5 DEF IsTransaction, tx, c

\* A closed input, the extranonce in an output of its own: a transaction.
LEMMA ClosedFormIsTransaction ==
    ASSUME NEW input \in Parts, input.kind = "input", NEW lead \in Seq(Outs), NEW trail \in Seq(Outs)
    PROVE  IsTransaction(ClosedForm(input, lead, trail))
<1> DEFINE c == ClosedForm(input, lead, trail)
           tx == Transaction(c)
           body == ClosedBody(lead, trail)
           n == Len(body)
           m == Len(lead)
<1>1. /\ body \in Seq(Bodies) /\ n \in Nat /\ m \in Nat /\ n = m + Len(trail) + 1 /\ Len(trail) \in Nat
      /\ \A i \in 1 .. n : body[i].kind = "extranonce" <=> i = m + 1
      /\ tx = Framed(input, body)
  BY ClosedParts
<1>2. Len(c.coinb1) = m + 4 /\ c.coinb1[m + 4] = Layout!Extranonce
  <2> DEFINE s == <<input, Layout!Sequence, Layout!Count(Len(lead) + Len(trail) + 1)>>
             e == <<Layout!Extranonce>>
  <2>1. c.coinb1 = Joined(s, lead, e)
    BY DEF ClosedForm, Layout!Coinbase, Joined
  <2>2. Len(lead) + Len(trail) + 1 \in Nat
    BY <1>1
  <2>3. s \in Seq(Parts) /\ Len(s) = 3 /\ lead \in Seq(Parts)
    <3>1. lead \in Seq(Parts)
      BY DEF Outs
    <3> QED BY <2>2, <3>1, FixedParts
  <2>4. e \in Seq(Parts) /\ Len(e) = 1 /\ e[1] = Layout!Extranonce
    BY FixedParts
  <2> HIDE DEF s, e, c, m
  <2>5. /\ Len(c.coinb1) = Len(s) + Len(lead) + Len(e)
        /\ \A i \in 1 .. Len(e) : c.coinb1[Len(s) + Len(lead) + i] = e[i]
    <3>1. IsRow(Joined(s, lead, e), s, lead, e)
      BY <2>3, <2>4, JoinedParts
    <3> QED BY <2>1, <3>1 DEF IsRow
  <2>6. m = Len(lead) /\ 1 \in 1 .. Len(e)
    BY <2>4 DEF m
  <2>7. Len(s) + Len(lead) + 1 = m + 4 /\ Len(s) + Len(lead) + Len(e) = m + 4
    BY <1>1, <2>3, <2>4, <2>6
  <2>8. c.coinb1[Len(s) + Len(lead) + 1] = e[1]
    BY <2>5, <2>6
  <2> QED BY <2>4, <2>5, <2>7, <2>8
<1>3. n \in Nat /\ n = Len(body)
  BY <1>1
<1> HIDE DEF c, tx, body, m, n
<1>4. /\ Len(tx) = n + 4 /\ DOMAIN tx = 1 .. n + 4
      /\ tx[1] = input /\ tx[3].value = n
      /\ \A i \in 1 .. n : tx[3 + i] = body[i]
      /\ {i \in DOMAIN tx : tx[i].kind = "sequence"} = {2}
      /\ {i \in DOMAIN tx : tx[i].kind = "count"} = {3}
      /\ {i \in DOMAIN tx : tx[i].kind = "locktime"} = {n + 4}
  <2>1. Counted(tx, input, body, n)
    BY <1>1, <1>3, BodyIsCounted
  <2> QED BY <2>1 DEF Counted
<1>5. {i \in DOMAIN tx : tx[i].kind = "extranonce"} = {m + 4}
  <2>1. m + 4 \in 1 .. n + 4 /\ tx[m + 4].kind = "extranonce"
    <3>1. m + 1 \in 1 .. n /\ 3 + (m + 1) = m + 4 /\ m + 4 \in 1 .. n + 4
      BY <1>1
    <3>2. tx[m + 4] = body[m + 1]
      BY <1>4, <3>1
    <3> QED BY <1>1, <3>1, <3>2
  <2>2. ASSUME NEW i \in 1 .. n + 4, tx[i].kind = "extranonce" PROVE i = m + 4
    <3>1. i # 1 /\ i # 2 /\ i # 3 /\ i # n + 4
      BY <1>4, <2>2
    <3>2. i - 3 \in 1 .. n /\ 3 + (i - 3) = i
      BY <1>3, <3>1
    <3>3. body[i - 3].kind = "extranonce"
      BY <1>4, <2>2, <3>2
    <3>4. i - 3 = m + 1
      BY <1>1, <3>2, <3>3
    <3> QED BY <1>1, <3>4
  <2> QED BY <1>4, <2>1, <2>2
<1>6. tx[3].value = Len(tx) - 4
  BY <1>1, <1>4
<1>7. Layout!Extranonce.kind = "extranonce"
  BY FixedParts
<1> QED BY <1>2, <1>4, <1>5, <1>6, <1>7 DEF IsTransaction, tx, c

-----------------------------------------------------------------------------
(* The shared coinbase *)

\* Outputs are written one by one.
LEMMA WrittenOuts ==
    ASSUME NEW s \in Seq(Pays)
    PROVE  /\ Layout!Written(s) \in Seq(Outs) /\ Len(Layout!Written(s)) = Len(s)
           /\ \A i \in 1 .. Len(s) : Layout!Written(s)[i] = Layout!Output(s[i].value, s[i].scriptLen)
<1> DEFINE n == Len(s)
           f == [i \in 1 .. n |-> Layout!Output(s[i].value, s[i].scriptLen)]
<1>1. n \in Nat /\ DOMAIN s = 1 .. n /\ \A i \in 1 .. n : s[i].value \in Nat /\ s[i].scriptLen \in Nat
  <2>1. n \in Nat /\ DOMAIN s = 1 .. n /\ \A i \in 1 .. n : s[i] \in Pays
    BY LenProperties
  <2> QED BY <2>1 DEF Pays
<1>2. Layout!Written(s) = f
  BY <1>1 DEF Layout!Written
<1> HIDE DEF n
<1>3. f \in [1 .. n -> Outs]
  BY <1>1, FixedParts
<1>4. \A i \in 1 .. n : f[i] = Layout!Output(s[i].value, s[i].scriptLen)
  OBVIOUS
<1> HIDE DEF f
<1>5. f \in Seq(Outs) /\ Len(f) = n
  BY <1>1, <1>3, ListIsSeq
<1> QED BY <1>2, <1>4, <1>5 DEF n

\* The bytes left for outputs are a number.
LEMMA FitType ==
    ASSUME NEW j, IsJob(j), NEW t \in 0 .. 5
    PROVE  /\ Layout!FitToTemplate(j, t) \in Int /\ Layout!FixedBytes(j, t) \in Nat
           /\ Layout!MaxSize[t] \in Nat
<1>1. Layout!MaxSize[t] \in Nat
  BY DEF Layout!MaxSize, Layout!Types
<1>2. Layout!FixedBytes(j, t) \in Nat
  BY DEF Layout!FixedBytes, IsJob
<1> DEFINE m == Layout!MaxSize[t]
           fixed == Layout!FixedBytes(j, t)
<1>3. j.txSize \in Nat /\ j.txWeight \in Nat
  BY DEF IsJob
<1>4. /\ SizeLimit - (j.txSize + 85 + 36) - fixed \in Int
      /\ (WeightLimit - (j.txWeight + 340 + 36)) \div 4 - fixed \in Int
      /\ m + fixed \in Int /\ m - fixed \in Int
  BY <1>1, <1>2, <1>3, LimitsAssumption
<1> HIDE DEF m, fixed
<1>5. Layout!FitToTemplate(j, t) \in Int
  <2> DEFINE bySize == SizeLimit - (j.txSize + 85 + 36) - fixed
             byWeight == (WeightLimit - (j.txWeight + 340 + 36)) \div 4 - fixed
             all == m + fixed
             tooBig == all + j.txSize + 85 + 36 > SizeLimit
             tooHeavy == 4 * all + j.txWeight + 340 + 36 > WeightLimit
             room == IF tooHeavy THEN byWeight ELSE IF tooBig THEN bySize ELSE all
  <2>1. Layout!FitToTemplate(j, t) =
            IF (tooBig /\ bySize < 0) \/ (tooHeavy /\ byWeight < 0) THEN 0
            ELSE IF room < m - fixed THEN room ELSE m - fixed
    BY DEF Layout!FitToTemplate, m, fixed
  <2>2. bySize \in Int /\ byWeight \in Int /\ all \in Int /\ m - fixed \in Int
    BY <1>4
  <2> HIDE DEF bySize, byWeight, all, tooBig, tooHeavy
  <2> QED BY <2>1, <2>2
<1> QED BY <1>1, <1>2, <1>5 DEF m, fixed

\* What goes into a shared coinbase: the places of the outputs that were chosen, of those
\* that go into coinb1, and the outputs behind them.
TheScan(j, t) ==
    Layout!Scan(j, Layout!FitToTemplate(j, t), IF t = 2 THEN Layout!LeadRoom(j) ELSE 0)
Leads(j, t) == {k \in TheScan(j, t).chosen : t = 2 /\ Layout!LeadingOutputs(k, TheScan(j, t).leading)}
PoolParts(j, paid) ==
    <<IF j.value > paid THEN Layout!Output(j.value - paid, j.poolLen) ELSE Layout!DeadOutput,
      Layout!Witness, Layout!Signet>>
Those(j, places) == Layout!Written(Layout!Picked(j.outputs, places))

\* The room in coinb1 is a number.
LEMMA LeadRoomType ==
    ASSUME NEW j, IsJob(j), NEW t
    PROVE  (IF t = 2 THEN Layout!LeadRoom(j) ELSE 0) \in Int
<1>1. 2 * (46 + j.inputLen) \in Int
  BY DEF IsJob
<1>2. (300 - 2 * (46 + j.inputLen)) \div 2 \in Int
  BY <1>1
<1> QED BY <1>2 DEF Layout!LeadRoom

\* Their types.
LEMMA SharedTypes ==
    ASSUME NEW j, IsJob(j), NEW t \in 0 .. 5
    PROVE  /\ TheScan(j, t) \in ScanStates(j)
           /\ ScanKeeps(j, Layout!FitToTemplate(j, t), TheScan(j, t))
           /\ Leads(j, t) \in SUBSET TheScan(j, t).chosen
<1>1. (IF t = 2 THEN Layout!LeadRoom(j) ELSE 0) \in Int
  BY LeadRoomType
<1>2. Layout!FitToTemplate(j, t) \in Int
  BY FitType
<1> QED BY <1>1, <1>2, ScanFacts DEF TheScan, Leads

\* There are as many outputs written as places of them.
LEMMA ThoseTypes ==
    ASSUME NEW j, IsJob(j), NEW I
    PROVE  /\ Those(j, I) \in Seq(Outs)
           /\ Len(Those(j, I)) = Cardinality(I \cap (1 .. Len(j.outputs)))
<1>1. j.outputs \in Seq(Pays)
  BY DEF IsJob
<1> DEFINE p == Layout!Picked(j.outputs, I)
<1>2. p \in Seq(Pays) /\ Len(p) = Cardinality(I \cap (1 .. Len(j.outputs)))
  BY <1>1, PickedLen
<1> HIDE DEF p
<1>3. Layout!Written(p) \in Seq(Outs) /\ Len(Layout!Written(p)) = Len(p)
  BY <1>2, WrittenOuts
<1> QED BY <1>2, <1>3 DEF p, Those

\* Three elements and one more.
LEMMA FourInRow ==
    ASSUME NEW a, NEW b, NEW c, NEW d
    PROVE  <<a, b, c>> \o <<d>> = <<a, b, c, d>>
<1> DEFINE T == {a, b, c, d}
           s == <<a, b, c>>
           u == <<d>>
           v == <<a, b, c, d>>
<1>1. s \in Seq(T) /\ Len(s) = 3 /\ s[1] = a /\ s[2] = b /\ s[3] = c
  OBVIOUS
<1>2. u \in Seq(T) /\ Len(u) = 1 /\ u[1] = d
  OBVIOUS
<1>3. v \in Seq(T) /\ Len(v) = 4 /\ v[1] = a /\ v[2] = b /\ v[3] = c /\ v[4] = d
  OBVIOUS
<1> HIDE DEF s, u, v
<1>4. /\ s \o u \in Seq(T) /\ Len(s \o u) = 4
      /\ (s \o u)[1] = a /\ (s \o u)[2] = b /\ (s \o u)[3] = c /\ (s \o u)[4] = d
  <2> HIDE DEF T
  <2>1. /\ s \o u \in Seq(T) /\ Len(s \o u) = Len(s) + Len(u)
        /\ \A i \in 1 .. Len(s) + Len(u) : (s \o u)[i] =
                IF i <= Len(s) THEN s[i] ELSE u[i - Len(s)]
    BY <1>1, <1>2, ConcatProperties
  <2>2. Len(s) + Len(u) = 4 /\ 4 - Len(s) = 1
    BY <1>1, <1>2
  <2>3. (s \o u)[1] = s[1] /\ (s \o u)[2] = s[2] /\ (s \o u)[3] = s[3]
    BY <1>1, <2>1, <2>2
  <2>4. (s \o u)[4] = u[1]
    BY <1>1, <2>1, <2>2
  <2> QED BY <1>1, <1>2, <2>1, <2>2, <2>3, <2>4
<1> DEFINE w == s \o u
<1>5. w \in Seq(T) /\ Len(w) = Len(v) /\ \A i \in 1 .. Len(w) : w[i] = v[i]
  BY <1>3, <1>4
<1> HIDE DEF w
<1>6. w = v
  BY <1>3, <1>5, SeqEqual
<1> QED BY <1>6 DEF w, s, u, v

\* The rest, without the lock time: three outputs.
LEMMA PoolPartsTypes ==
    ASSUME NEW j, IsJob(j), NEW paid \in Nat
    PROVE  /\ PoolParts(j, paid) \in Seq(Outs) /\ Len(PoolParts(j, paid)) = 3
           /\ Layout!Rest(j, paid) = Cat(PoolParts(j, paid), <<Layout!LockTime>>)
<1> DEFINE first == IF j.value > paid THEN Layout!Output(j.value - paid, j.poolLen) ELSE Layout!DeadOutput
<1>1. j.value \in Nat /\ j.poolLen \in Nat
  BY DEF IsJob
<1>2. first \in Outs
  <2>1. CASE j.value > paid
    <3>1. j.value - paid \in Nat
      BY <1>1, <2>1
    <3> QED BY <1>1, <2>1, <3>1, FixedParts
  <2>2. CASE ~(j.value > paid)
    BY <2>2, FixedParts
  <2> QED BY <2>1, <2>2
<1>3. PoolParts(j, paid) = <<first, Layout!Witness, Layout!Signet>>
  BY DEF PoolParts
<1>4. Layout!Rest(j, paid) = <<first, Layout!Witness, Layout!Signet, Layout!LockTime>>
  BY DEF Layout!Rest
<1> HIDE DEF first
<1>5. PoolParts(j, paid) \in Seq(Outs) /\ Len(PoolParts(j, paid)) = 3
  BY <1>2, <1>3, FixedParts
<1>6. <<first, Layout!Witness, Layout!Signet>> \o <<Layout!LockTime>> =
         <<first, Layout!Witness, Layout!Signet, Layout!LockTime>>
  BY FourInRow
<1> QED BY <1>3, <1>4, <1>5, <1>6 DEF Cat

\* Whether the extranonce goes into the input.
IsOpen(j, t) == Layout!SpaceForExtranonce(j) /\ (t # 2 \/ j.outputs = <<>>)

\* Type 0 is written behind the empty coinbase.
Behind(j, t) == t = 0 /\ ~Layout!SpaceForExtranonce(j) /\ j.outputs # <<>>

\* The outputs behind coinb1's.
Trail(j, t) == Cat(Those(j, TheScan(j, t).chosen \ Leads(j, t)), PoolParts(j, TheScan(j, t).sum))

\* What is behind coinb1's outputs is outputs.
LEMMA TrailType ==
    ASSUME NEW j, IsJob(j), NEW t \in 0 .. 5
    PROVE  /\ Trail(j, t) \in Seq(Outs)
           /\ Len(Trail(j, t)) = Len(Those(j, TheScan(j, t).chosen \ Leads(j, t))) + 3
           /\ TheScan(j, t).sum \in Nat
<1> DEFINE a == Those(j, TheScan(j, t).chosen \ Leads(j, t))
           b == PoolParts(j, TheScan(j, t).sum)
<1>1. TheScan(j, t).sum \in Nat
  <2>1. TheScan(j, t).sum \in 0 .. j.value
    BY SharedTypes, ScanStateParts
  <2> QED BY <2>1
<1>2. a \in Seq(Outs) /\ b \in Seq(Outs) /\ Len(b) = 3
  BY <1>1, ThoseTypes, PoolPartsTypes
<1>3. Trail(j, t) = a \o b
  BY DEF Trail, Cat
<1> HIDE DEF a, b
<1>4. a \o b \in Seq(Outs) /\ Len(a \o b) = Len(a) + Len(b)
  BY <1>2, ConcatProperties
<1> QED BY <1>1, <1>2, <1>3, <1>4 DEF a

\* Rows of two and one, and of two and two.
LEMMA ThreeInRow ==
    ASSUME NEW T, NEW a \in T, NEW b \in T, NEW c \in T
    PROVE  <<a, b>> \o <<c>> = <<a, b, c>>
<1> DEFINE s == <<a, b>>
           u == <<c>>
           v == <<a, b, c>>
<1>1. s \in Seq(T) /\ Len(s) = 2 /\ s[1] = a /\ s[2] = b
  OBVIOUS
<1>2. u \in Seq(T) /\ Len(u) = 1 /\ u[1] = c
  OBVIOUS
<1>3. v \in Seq(T) /\ Len(v) = 3 /\ v[1] = a /\ v[2] = b /\ v[3] = c
  OBVIOUS
<1> HIDE DEF s, u, v
<1> DEFINE w == s \o u
<1>4. w \in Seq(T) /\ Len(w) = 3 /\ w[1] = a /\ w[2] = b /\ w[3] = c
  <2>1. /\ w \in Seq(T) /\ Len(w) = Len(s) + Len(u)
        /\ \A i \in 1 .. Len(s) : w[i] = s[i]
        /\ \A i \in 1 .. Len(u) : w[Len(s) + i] = u[i]
    <3>1. s \in Seq(T) /\ u \in Seq(T)
      BY <1>1, <1>2
    <3> QED BY <3>1, ConcatProperties
  <2> HIDE DEF w
  <2>2. 1 \in 1 .. Len(s) /\ 2 \in 1 .. Len(s) /\ 1 \in 1 .. Len(u) /\ Len(s) + 1 = 3
    BY <1>1, <1>2
  <2> QED BY <1>1, <1>2, <2>1, <2>2
<1>5. w \in Seq(T) /\ Len(w) = Len(v) /\ \A i \in 1 .. Len(w) : w[i] = v[i]
  BY <1>3, <1>4
<1> HIDE DEF w
<1>6. w = v
  BY <1>3, <1>5, SeqEqual
<1> QED BY <1>6 DEF w, s, u, v

\* Two single elements in a row.
LEMMA TwoInRow ==
    ASSUME NEW T, NEW a \in T, NEW b \in T
    PROVE  <<a>> \o <<b>> = <<a, b>>
<1> DEFINE s == <<a>>
           u == <<b>>
           v == <<a, b>>
           w == s \o u
<1>1. s \in Seq(T) /\ Len(s) = 1 /\ s[1] = a
  OBVIOUS
<1>2. u \in Seq(T) /\ Len(u) = 1 /\ u[1] = b
  OBVIOUS
<1>3. v \in Seq(T) /\ Len(v) = 2 /\ v[1] = a /\ v[2] = b
  OBVIOUS
<1> HIDE DEF s, u, v
<1>4. w \in Seq(T) /\ Len(w) = 2 /\ w[1] = a /\ w[2] = b
  <2>1. /\ w \in Seq(T) /\ Len(w) = Len(s) + Len(u)
        /\ \A i \in 1 .. Len(s) : w[i] = s[i]
        /\ \A i \in 1 .. Len(u) : w[Len(s) + i] = u[i]
    BY <1>1, <1>2, ConcatProperties
  <2> HIDE DEF w
  <2>2. 1 \in 1 .. Len(s) /\ 1 \in 1 .. Len(u) /\ Len(s) + 1 = 2
    BY <1>1, <1>2
  <2> QED BY <1>1, <1>2, <2>1, <2>2
<1>5. w \in Seq(T) /\ Len(w) = Len(v) /\ \A i \in 1 .. Len(w) : w[i] = v[i]
  BY <1>3, <1>4
<1> HIDE DEF w
<1>6. w = v
  BY <1>3, <1>5, SeqEqual
<1> QED BY <1>6 DEF w, s, u, v

IsCutAnywhere(a, b, c, d) == <<a, b>> \o <<c, d>> = <<a, b, c>> \o <<d>>

\* It does not matter whether coinb1 has two or three of them.
LEMMA TwoAndTwo ==
    ASSUME NEW T, NEW a \in T, NEW b \in T, NEW c \in T, NEW d \in T
    PROVE  IsCutAnywhere(a, b, c, d)
<1> DEFINE s == <<a, b>>
           t == <<c>>
           u == <<d>>
<1>1. s \in Seq(T) /\ t \in Seq(T) /\ u \in Seq(T)
  OBVIOUS
<1>2. s \o t = <<a, b, c>>
  BY ThreeInRow
<1>3. t \o u = <<c, d>>
  BY TwoInRow
<1> HIDE DEF s, t, u
<1>4. (s \o t) \o u = s \o (t \o u)
  BY <1>1, ConcatAssociative
<1> QED BY <1>2, <1>3, <1>4 DEF s, t, u, IsCutAnywhere

\* A sequence before or behind none.
LEMMA NoneInRow ==
    ASSUME NEW T, NEW s \in Seq(T)
    PROVE  s \o <<>> = s /\ <<>> \o s = s
  OBVIOUS

\* The inputs.
LEMMA InputParts ==
    ASSUME NEW j, IsJob(j)
    PROVE  /\ Layout!OpenInput(j) \in Parts /\ Layout!OpenInput(j).kind = "open_input"
           /\ Layout!ClosedInput(j) \in Parts /\ Layout!ClosedInput(j).kind = "input"
<1>1. 41 + 1 + j.inputLen + 3 \in Nat /\ 41 + 1 + j.inputLen \in Nat
  BY DEF IsJob
<1> QED BY <1>1 DEF Layout!OpenInput, Layout!ClosedInput, Layout!Part, Parts, Kinds

\* The first form with its end apart.
LEMMA OpenFormEnds ==
    ASSUME NEW input \in Parts, NEW outs \in Seq(Outs)
    PROVE  OpenForm(input, outs) =
               Layout!Coinbase(<<input>>, Cat(<<Layout!Sequence, Layout!Count(Len(outs))>>,
                                              Cat(outs, <<Layout!LockTime>>)))
  BY DEF OpenForm, Cat

\* The second form with its start apart.
LEMMA ClosedFormStarts ==
    ASSUME NEW input \in Parts, NEW lead \in Seq(Outs), NEW trail \in Seq(Outs)
    PROVE  ClosedForm(input, lead, trail) =
               Layout!Coinbase(
                   <<input, Layout!Sequence>> \o <<Layout!Count(Len(lead) + Len(trail) + 1)>>
                       \o lead \o <<Layout!Extranonce>>,
                   Cat(trail, <<Layout!LockTime>>))
<1> DEFINE n == Len(lead) + Len(trail) + 1
           c == Layout!Count(n)
           q == Layout!Sequence
<1>1. c \in Parts /\ q \in Parts
  <2>1. n \in Nat
    OBVIOUS
  <2> QED BY <2>1, FixedParts
<1>2. <<input, q>> \o <<c>> = <<input, q, c>>
  <2> HIDE DEF c, q
  <2> QED BY <1>1, ThreeInRow
<1> QED BY <1>2 DEF ClosedForm, Cat

\* Which form the empty coinbase has.
LEMMA EmptyForm ==
    ASSUME NEW j, IsJob(j)
    PROVE  Layout!EmptyCoinbase(j) =
               IF Layout!SpaceForExtranonce(j)
               THEN OpenForm(Layout!OpenInput(j), PoolParts(j, 0))
               ELSE ClosedForm(Layout!ClosedInput(j), <<>>, PoolParts(j, 0))
<1> DEFINE pool == PoolParts(j, 0)
           rest == Layout!Rest(j, 0)
           open == Layout!OpenInput(j)
           closed == Layout!ClosedInput(j)
           none == <<>>
<1>1. pool \in Seq(Outs) /\ Len(pool) = 3 /\ rest = Cat(pool, <<Layout!LockTime>>)
  BY PoolPartsTypes
<1>2. open \in Parts /\ closed \in Parts
  BY InputParts
<1>3. none \in Seq(Outs) /\ Len(none) = 0 /\ none = <<>>
  OBVIOUS
<1>4. CASE Layout!SpaceForExtranonce(j)
  <2>1. Layout!Start(j, 0) = <<open>>
    BY <1>4 DEF Layout!Start
  <2>2. Layout!EmptyCoinbase(j) =
            Layout!Coinbase(<<open>>, Cat(<<Layout!Sequence, Layout!Count(3)>>, rest))
    BY <1>4, <2>1 DEF Layout!EmptyCoinbase, Cat
  <2> HIDE DEF pool, rest, open
  <2>3. Layout!EmptyCoinbase(j) = OpenForm(open, pool)
    BY <1>1, <1>2, <2>2, OpenFormEnds
  <2> QED BY <1>4, <2>3 DEF open, pool
<1>5. CASE ~Layout!SpaceForExtranonce(j)
  <2>1. Layout!Start(j, 0) = <<closed, Layout!Sequence>>
    BY <1>5 DEF Layout!Start
  <2>2. Layout!EmptyCoinbase(j) =
            Layout!Coinbase(<<closed, Layout!Sequence>> \o <<Layout!Count(4), Layout!Extranonce>>, rest)
    BY <1>5, <2>1 DEF Layout!EmptyCoinbase
  <2> HIDE DEF pool, rest, closed
  <2> DEFINE c == Layout!Count(4)
             x == Layout!Extranonce
             q == Layout!Sequence
  <2>3. q \in Parts /\ c \in Parts /\ x \in Parts /\ closed \in Parts
    BY <1>2, FixedParts
  <2>4. <<closed, q>> \o <<c, x>> = <<closed, q, c>> \o <<x>>
    <3>1. IsCutAnywhere(closed, q, c, x)
      <4> HIDE DEF c, x, q
      <4> QED BY <2>3, TwoAndTwo
    <3> QED BY <3>1 DEF IsCutAnywhere
  <2>5. <<closed, q, c>> \in Seq(Parts)
    BY <1>2, <2>3
  <2> DEFINE s == <<closed, q, c>>
  <2>6. s \o none = s
    <3> HIDE DEF s
    <3> QED BY <1>3, <2>5, NoneInRow DEF s
  <2>7. Len(none) + Len(pool) + 1 = 4
    BY <1>1, <1>3
  <2>8. ClosedForm(closed, none, pool) =
            Layout!Coinbase(<<closed, q, c>> \o none \o <<x>>, Cat(pool, <<Layout!LockTime>>))
    <3>1. ClosedForm(closed, none, pool) =
              Layout!Coinbase(<<closed, q, Layout!Count(Len(none) + Len(pool) + 1)>> \o none \o <<x>>,
                              Cat(pool, <<Layout!LockTime>>))
      BY DEF ClosedForm, Cat
    <3> QED BY <2>7, <3>1
  <2>9. <<closed, q, c>> \o none \o <<x>> = <<closed, q>> \o <<c, x>>
    BY <2>4, <2>6
  <2>10. Layout!EmptyCoinbase(j) = ClosedForm(closed, none, pool)
    <3> HIDE DEF none
    <3> QED BY <1>1, <2>2, <2>8, <2>9
  <2> QED BY <1>3, <1>5, <2>10 DEF closed, pool
<1> QED BY <1>4, <1>5

\* Which the subsidy-only one has.
LEMMA SubsidyForm ==
    ASSUME NEW j, IsJob(j), NEW subsidy \in Nat
    PROVE  LET pay == <<Layout!Output(subsidy, j.poolLen)>> IN
           /\ pay \in Seq(Outs)
           /\ Layout!SubsidyOnly(j, subsidy) =
                 IF Layout!SpaceForExtranonce(j)
                 THEN OpenForm(Layout!OpenInput(j), pay)
                 ELSE ClosedForm(Layout!ClosedInput(j), <<>>, pay)
<1> DEFINE o == Layout!Output(subsidy, j.poolLen)
           pay == <<o>>
           l == Layout!LockTime
           open == Layout!OpenInput(j)
           closed == Layout!ClosedInput(j)
           none == <<>>
<1>1. o \in Outs /\ o \in Parts /\ l \in Parts
  <2>1. j.poolLen \in Nat
    BY DEF IsJob
  <2>2. o \in Outs
    BY <2>1, FixedParts
  <2> QED BY <2>2, FixedParts DEF Outs
<1>2. open \in Parts /\ closed \in Parts
  BY InputParts
<1>3. none \in Seq(Outs) /\ Len(none) = 0 /\ none = <<>>
  OBVIOUS
<1> HIDE DEF o
<1>4. pay \in Seq(Outs) /\ Len(pay) = 1
  BY <1>1
<1>5. <<o, l>> = Cat(pay, <<l>>)
  <2> HIDE DEF l
  <2>1. <<o, l>> = <<o>> \o <<l>>
    BY <1>1, TwoInRow
  <2> QED BY <2>1 DEF Cat
<1>6. CASE Layout!SpaceForExtranonce(j)
  <2>1. Layout!Start(j, 0) = <<open>>
    BY <1>6 DEF Layout!Start
  <2>2. Layout!SubsidyOnly(j, subsidy) =
            Layout!Coinbase(<<open>>, Cat(<<Layout!Sequence, Layout!Count(1)>>, <<o, l>>))
    BY <1>6, <2>1 DEF Layout!SubsidyOnly, Cat, o
  <2> HIDE DEF pay, open
  <2>3. Layout!SubsidyOnly(j, subsidy) = OpenForm(open, pay)
    BY <1>2, <1>4, <1>5, <2>2, OpenFormEnds
  <2> QED BY <1>4, <1>6, <2>3 DEF open, pay, o
<1>7. CASE ~Layout!SpaceForExtranonce(j)
  <2>1. Layout!Start(j, 0) = <<closed, Layout!Sequence>>
    BY <1>7 DEF Layout!Start
  <2>2. Layout!SubsidyOnly(j, subsidy) =
            Layout!Coinbase(<<closed, Layout!Sequence>> \o <<Layout!Count(2), Layout!Extranonce>>, <<o, l>>)
    BY <1>7, <2>1 DEF Layout!SubsidyOnly, o
  <2> HIDE DEF pay, closed
  <2> DEFINE c == Layout!Count(2)
             x == Layout!Extranonce
             q == Layout!Sequence
  <2>3. q \in Parts /\ c \in Parts /\ x \in Parts /\ closed \in Parts
    BY <1>2, FixedParts
  <2>4. <<closed, q>> \o <<c, x>> = <<closed, q, c>> \o <<x>>
    <3>1. IsCutAnywhere(closed, q, c, x)
      <4> HIDE DEF c, x, q
      <4> QED BY <2>3, TwoAndTwo
    <3> QED BY <3>1 DEF IsCutAnywhere
  <2>5. <<closed, q, c>> \in Seq(Parts)
    BY <1>2, <2>3
  <2> DEFINE s == <<closed, q, c>>
  <2>6. s \o none = s
    <3> HIDE DEF s
    <3> QED BY <1>3, <2>5, NoneInRow DEF s
  <2>7. Len(none) + Len(pay) + 1 = 2
    BY <1>3, <1>4
  <2>8. ClosedForm(closed, none, pay) =
            Layout!Coinbase(<<closed, q, c>> \o none \o <<x>>, Cat(pay, <<l>>))
    <3>1. ClosedForm(closed, none, pay) =
              Layout!Coinbase(<<closed, q, Layout!Count(Len(none) + Len(pay) + 1)>> \o none \o <<x>>,
                              Cat(pay, <<l>>))
      BY DEF ClosedForm, Cat
    <3> QED BY <2>7, <3>1
  <2>9. <<closed, q, c>> \o none \o <<x>> = <<closed, q>> \o <<c, x>>
    BY <2>4, <2>6
  <2>10. Layout!SubsidyOnly(j, subsidy) = ClosedForm(closed, none, pay)
    <3> HIDE DEF none
    <3> QED BY <1>5, <2>2, <2>8, <2>9
  <2> QED BY <1>3, <1>4, <1>7, <2>10 DEF closed, pay, o
<1> QED BY <1>6, <1>7

\* What the shared coinbases have of their form.
FormOf(j, t) ==
    IF IsOpen(j, t)
    THEN OpenForm(Layout!OpenInput(j), Trail(j, t))
    ELSE ClosedForm(Layout!ClosedInput(j), Those(j, Leads(j, t)), Trail(j, t))

\* The count written before the outputs is theirs: those of coinb1 and those behind them
\* are the chosen ones.
LEMMA CountOfChosen ==
    ASSUME NEW j, IsJob(j), NEW t \in 0 .. 5
    PROVE  /\ Cardinality(TheScan(j, t).chosen) \in Nat
           /\ Len(Those(j, Leads(j, t))) + Len(Trail(j, t)) = Cardinality(TheScan(j, t).chosen) + 3
           /\ Leads(j, t) = {} => Len(Trail(j, t)) = Cardinality(TheScan(j, t).chosen) + 3
<1> DEFINE S == TheScan(j, t).chosen
           L == Leads(j, t)
           n == Len(j.outputs)
<1>1. n \in Nat
  BY DEF IsJob
<1>2. S \in SUBSET (1 .. n) /\ L \in SUBSET S
  BY SharedTypes, ScanStateParts
<1>3. /\ Len(Those(j, L)) = Cardinality(L \cap (1 .. n))
      /\ Len(Those(j, S \ L)) = Cardinality((S \ L) \cap (1 .. n))
  BY ThoseTypes
<1>4. Len(Trail(j, t)) = Len(Those(j, S \ L)) + 3
  BY TrailType
<1> HIDE DEF S, L
<1>5. L \cap (1 .. n) = L /\ (S \ L) \cap (1 .. n) = S \ L
  BY <1>2
<1>6. IsFiniteSet(S)
  <2>1. IsFiniteSet(1 .. n)
    BY <1>1, FS_Interval
  <2> QED BY <1>2, <2>1, FS_Subset
<1>7. IsFiniteSet(L) /\ IsFiniteSet(S \ L)
  BY <1>2, <1>6, FS_Subset
<1>8. Cardinality(S) \in Nat /\ Cardinality(L) \in Nat /\ Cardinality(S \ L) \in Nat
  BY <1>6, <1>7, FS_CardinalityType
<1>9. Cardinality(S) = Cardinality(L) + Cardinality(S \ L)
  <2>1. S = L \cup (S \ L) /\ L \cap (S \ L) = {}
    BY <1>2
  <2>2. Cardinality(L \cup (S \ L)) = Cardinality(L) + Cardinality(S \ L) - Cardinality(L \cap (S \ L))
    BY <1>7, FS_Union
  <2>3. Cardinality({}) = 0
    BY FS_EmptySet
  <2>4. Cardinality(L \cup (S \ L)) = Cardinality(S) /\ Cardinality(L \cap (S \ L)) = 0
    BY <2>1, <2>3
  <2> DEFINE b == Cardinality(L)
             c == Cardinality(S \ L)
  <2>5. b \in Nat /\ c \in Nat /\ Cardinality(S) = b + c - 0
    BY <1>8, <2>2, <2>4
  <2> HIDE DEF b, c
  <2>6. Cardinality(S) = b + c
    BY <2>5
  <2> QED BY <2>6 DEF b, c
<1>10. L = {} => S \ L = S
  OBVIOUS
<1> DEFINE a == Len(Those(j, L))
           b == Len(Those(j, S \ L))
           c == Len(Trail(j, t))
<1>11. a = Cardinality(L) /\ b = Cardinality(S \ L) /\ c = b + 3
  BY <1>3, <1>4, <1>5 DEF S, L
<1> HIDE DEF a, b, c
<1>12. a + c = Cardinality(S) + 3 /\ (L = {} => c = Cardinality(S) + 3)
  BY <1>8, <1>9, <1>10, <1>11
<1> QED BY <1>8, <1>12 DEF S, L, a, c

\* No outputs.
LEMMA ThoseOfNone ==
    ASSUME NEW j, IsJob(j)
    PROVE  Those(j, {}) = <<>>
<1>1. j.outputs \in Seq(Pays) /\ Len(j.outputs) \in Nat
  BY DEF IsJob
<1>2. Those(j, {}) \in Seq(Outs) /\ Len(Those(j, {})) = Cardinality({} \cap (1 .. Len(j.outputs)))
  BY ThoseTypes
<1>3. {} \cap (1 .. Len(j.outputs)) = {}
  OBVIOUS
<1>4. Len(Those(j, {})) = 0
  BY <1>2, <1>3, FS_EmptySet
<1> QED BY <1>2, <1>4

\* The outputs and the pool's, before the lock time.
LEMMA TrailEnds ==
    ASSUME NEW j, IsJob(j), NEW t \in 0 .. 5
    PROVE  Cat(Those(j, TheScan(j, t).chosen \ Leads(j, t)), Layout!Rest(j, TheScan(j, t).sum)) =
               Cat(Trail(j, t), <<Layout!LockTime>>)
<1> DEFINE a == Those(j, TheScan(j, t).chosen \ Leads(j, t))
           b == PoolParts(j, TheScan(j, t).sum)
           u == <<Layout!LockTime>>
<1>1. TheScan(j, t).sum \in Nat
  BY TrailType
<1>2. a \in Seq(Outs) /\ b \in Seq(Outs) /\ Layout!Rest(j, TheScan(j, t).sum) = Cat(b, u)
  BY <1>1, ThoseTypes, PoolPartsTypes
<1>3. Trail(j, t) = Cat(a, b)
  BY DEF Trail
<1>4. u \in Seq(Parts)
  BY FixedParts
<1> HIDE DEF a, b, u
<1>5. a \in Seq(Parts) /\ b \in Seq(Parts)
  BY <1>2 DEF Outs
<1>6. Cat(Cat(a, b), u) = Cat(a, Cat(b, u))
  BY <1>4, <1>5, CatFacts
<1> QED BY <1>2, <1>3, <1>6 DEF a, b, u

\* The number that the layout writes.
LEMMA CardinalityOfLayout ==
    ASSUME NEW S
    PROVE  Layout!Cardinality(S) = Cardinality(S)
  BY Zenon DEF Cardinality, Layout!Cardinality

\* The continued coinbase, in the words above.
LEMMA SubtypeParts ==
    ASSUME NEW j, NEW t, NEW from
    PROVE  LET enInInput == t # 2 /\ Layout!SpaceForExtranonce(j)
               scan == TheScan(j, t)
               count == Layout!Count(Layout!OutputCount(Cardinality(scan.chosen), enInInput))
               leads == Leads(j, t)
               trail == Those(j, scan.chosen \ leads) \o Layout!Rest(j, scan.sum)
           IN  Layout!SubtypeBySize(j, t, from) =
                   IF enInInput
                   THEN Layout!Coinbase(from.coinb1, <<Layout!Sequence, count>> \o trail)
                   ELSE Layout!Coinbase(from.coinb1 \o <<count>> \o Those(j, leads) \o <<Layout!Extranonce>>,
                                        from.coinb2 \o trail)
<1>1. Layout!Cardinality(TheScan(j, t).chosen) = Cardinality(TheScan(j, t).chosen)
  BY CardinalityOfLayout
<1> QED BY <1>1, Zenon DEF Layout!SubtypeBySize, TheScan, Leads, Those

\* Which form a shared coinbase has, with outputs;
LEMMA SubtypeForm ==
    ASSUME NEW j, IsJob(j), NEW t \in 0 .. 5, ~Behind(j, t), j.outputs # <<>>
    PROVE  Layout!SharedCoinbase(j, t) = FormOf(j, t)
<1> DEFINE from == IF t = 0 THEN Layout!EmptyCoinbase(j) ELSE Layout!Coinbase(Layout!Start(j, t), <<>>)
           enInInput == t # 2 /\ Layout!SpaceForExtranonce(j)
           scan == TheScan(j, t)
           count == Layout!Count(Layout!OutputCount(Cardinality(scan.chosen), enInInput))
           leads == Leads(j, t)
           rest == Layout!Rest(j, scan.sum)
           trail == Trail(j, t)
           u == <<Layout!LockTime>>
           open == Layout!OpenInput(j)
           closed == Layout!ClosedInput(j)
<1>1. Layout!SharedCoinbase(j, t) = Layout!SubtypeBySize(j, t, from)
  BY DEF Layout!SharedCoinbase
<1>2. Layout!SubtypeBySize(j, t, from) =
          IF enInInput
          THEN Layout!Coinbase(from.coinb1,
                   <<Layout!Sequence, count>> \o (Those(j, scan.chosen \ leads) \o rest))
          ELSE Layout!Coinbase(from.coinb1 \o <<count>> \o Those(j, leads) \o <<Layout!Extranonce>>,
                   from.coinb2 \o (Those(j, scan.chosen \ leads) \o rest))
  <2> HIDE DEF from
  <2> QED BY SubtypeParts
<1>3. Those(j, scan.chosen \ leads) \o rest = Cat(trail, u)
  BY TrailEnds DEF Cat
<1>4. /\ trail \in Seq(Outs) /\ Those(j, leads) \in Seq(Outs)
      /\ open \in Parts /\ closed \in Parts /\ u \in Seq(Parts)
  <2>1. trail \in Seq(Outs) /\ Those(j, leads) \in Seq(Outs)
    BY TrailType, ThoseTypes
  <2>2. open \in Parts /\ closed \in Parts
    BY InputParts
  <2>3. u \in Seq(Parts)
    BY FixedParts
  <2> QED BY <2>1, <2>2, <2>3
<1>5. /\ Cardinality(scan.chosen) \in Nat
      /\ Len(Those(j, leads)) + Len(trail) = Cardinality(scan.chosen) + 3
      /\ leads = {} => Len(trail) = Cardinality(scan.chosen) + 3
  BY CountOfChosen
<1>6. IsOpen(j, t) <=> enInInput
  BY DEF IsOpen
<1>7. CASE enInInput
  <2>1. from.coinb1 = <<open>>
    BY <1>7 DEF Layout!EmptyCoinbase, Layout!Start, Layout!Coinbase
  <2>2. leads = {}
    BY <1>7 DEF Leads
  <2>3. count = Layout!Count(Len(trail))
    BY <1>5, <1>7, <2>2 DEF Layout!OutputCount
  <2>4. Layout!SubtypeBySize(j, t, from) =
            Layout!Coinbase(<<open>>, Cat(<<Layout!Sequence, Layout!Count(Len(trail))>>, Cat(trail, u)))
    BY <1>2, <1>3, <1>7, <2>1, <2>3 DEF Cat
  <2>5. OpenForm(open, trail) =
            Layout!Coinbase(<<open>>, Cat(<<Layout!Sequence, Layout!Count(Len(trail))>>, Cat(trail, u)))
    BY <1>4, OpenFormEnds
  <2>6. FormOf(j, t) = OpenForm(open, trail)
    BY <1>6, <1>7 DEF FormOf
  <2> QED BY <1>1, <2>4, <2>5, <2>6
<1>8. CASE ~enInInput
  <2>1. t # 0
    BY <1>8 DEF Behind
  <2>2. from.coinb1 = <<closed, Layout!Sequence>> /\ from.coinb2 = <<>>
    BY <1>8, <2>1 DEF Layout!Start, Layout!Coinbase
  <2>3. count = Layout!Count(Len(Those(j, leads)) + Len(trail) + 1)
    <3>1. Cardinality(scan.chosen) + 4 = Len(Those(j, leads)) + Len(trail) + 1
      <4>1. Len(Those(j, leads)) \in Nat /\ Len(trail) \in Nat
        BY <1>4
      <4> QED BY <1>5, <4>1
    <3>2. Layout!OutputCount(Cardinality(scan.chosen), enInInput) = Cardinality(scan.chosen) + 4
      BY <1>8 DEF Layout!OutputCount
    <3> QED BY <3>1, <3>2
  <2>4. <<>> \o Cat(trail, u) = Cat(trail, u)
    <3>1. trail \in Seq(Parts)
      BY <1>4 DEF Outs
    <3> HIDE DEF trail, u
    <3>2. Cat(trail, u) \in Seq(Parts)
      BY <1>4, <3>1, CatFacts
    <3> QED BY <3>2
  <2>5. Layout!SubtypeBySize(j, t, from) =
            Layout!Coinbase(
                   <<closed, Layout!Sequence>> \o <<Layout!Count(Len(Those(j, leads)) + Len(trail) + 1)>>
                       \o Those(j, leads) \o <<Layout!Extranonce>>,
                   Cat(trail, u))
    BY <1>2, <1>3, <1>8, <2>2, <2>3, <2>4
  <2>6. ClosedForm(closed, Those(j, leads), trail) =
            Layout!Coinbase(
                   <<closed, Layout!Sequence>> \o <<Layout!Count(Len(Those(j, leads)) + Len(trail) + 1)>>
                       \o Those(j, leads) \o <<Layout!Extranonce>>,
                   Cat(trail, u))
    BY <1>4, ClosedFormStarts
  <2>7. FormOf(j, t) = ClosedForm(closed, Those(j, leads), trail)
    BY <1>6, <1>8 DEF FormOf
  <2> QED BY <1>1, <2>5, <2>6, <2>7
<1> QED BY <1>7, <1>8

\* and without.
LEMMA SharedForm ==
    ASSUME NEW j, IsJob(j), NEW t \in 0 .. 5, ~Behind(j, t)
    PROVE  Layout!SharedCoinbase(j, t) = FormOf(j, t)
<1>1. CASE j.outputs # <<>>
  BY <1>1, SubtypeForm
<1>2. CASE j.outputs = <<>>
  <2>1. Layout!SharedCoinbase(j, t) = Layout!EmptyCoinbase(j)
    BY <1>2 DEF Layout!SharedCoinbase
  <2>2. TheScan(j, t).chosen = {} /\ Leads(j, t) = {}
    <3>1. TheScan(j, t).chosen \in SUBSET (1 .. Len(j.outputs)) /\ Leads(j, t) \in SUBSET TheScan(j, t).chosen
      BY SharedTypes, ScanStateParts
    <3>2. 1 .. Len(j.outputs) = {}
      BY <1>2
    <3> QED BY <3>1, <3>2
  <2>3. TheScan(j, t).sum = 0
    <3>1. TheScan(j, t).sum = SumFunctionOnSet(WeightsOf(j.outputs, ValueOf), TheScan(j, t).chosen)
      BY SharedTypes DEF ScanKeeps
    <3> QED BY <2>2, <3>1, SumOfNone
  <2>4. Those(j, {}) = <<>>
    BY ThoseOfNone
  <2>5. Trail(j, t) = PoolParts(j, 0)
    <3>1. PoolParts(j, 0) \in Seq(Outs)
      BY PoolPartsTypes
    <3>2. {} \ {} = {}
      OBVIOUS
    <3>3. Trail(j, t) = <<>> \o PoolParts(j, 0)
      BY <2>2, <2>3, <2>4, <3>2 DEF Trail, Cat
    <3> QED BY <3>1, <3>3
  <2>6. IsOpen(j, t) <=> Layout!SpaceForExtranonce(j)
    BY <1>2 DEF IsOpen
  <2>7. FormOf(j, t) =
            IF Layout!SpaceForExtranonce(j)
            THEN OpenForm(Layout!OpenInput(j), PoolParts(j, 0))
            ELSE ClosedForm(Layout!ClosedInput(j), <<>>, PoolParts(j, 0))
    BY <2>2, <2>4, <2>5, <2>6 DEF FormOf
  <2> QED BY <2>1, <2>7, EmptyForm
<1> QED BY <1>1, <1>2

\* So it is a transaction, and the two without the service's outputs are.
LEMMA FormIsTransaction ==
    ASSUME NEW j, IsJob(j), NEW t \in 0 .. 5, ~Behind(j, t)
    PROVE  IsTransaction(Layout!SharedCoinbase(j, t))
<1>1. Layout!SharedCoinbase(j, t) = FormOf(j, t)
  BY SharedForm
<1>2. /\ Layout!OpenInput(j) \in Parts /\ Layout!OpenInput(j).kind = "open_input"
      /\ Layout!ClosedInput(j) \in Parts /\ Layout!ClosedInput(j).kind = "input"
      /\ Trail(j, t) \in Seq(Outs) /\ Those(j, Leads(j, t)) \in Seq(Outs)
  BY InputParts, TrailType, ThoseTypes
<1>3. IsTransaction(OpenForm(Layout!OpenInput(j), Trail(j, t)))
  BY <1>2, OpenFormIsTransaction
<1>4. IsTransaction(ClosedForm(Layout!ClosedInput(j), Those(j, Leads(j, t)), Trail(j, t)))
  BY <1>2, ClosedFormIsTransaction
<1> QED BY <1>1, <1>3, <1>4 DEF FormOf

\* The empty coinbase and the subsidy's are transactions, with room and without.
LEMMA OthersAreTransactions ==
    ASSUME NEW j, IsJob(j), NEW subsidy \in Nat
    PROVE  IsTransaction(Layout!EmptyCoinbase(j)) /\ IsTransaction(Layout!SubsidyOnly(j, subsidy))
<1> DEFINE pay == <<Layout!Output(subsidy, j.poolLen)>>
           none == <<>>
<1>1. /\ Layout!OpenInput(j) \in Parts /\ Layout!OpenInput(j).kind = "open_input"
      /\ Layout!ClosedInput(j) \in Parts /\ Layout!ClosedInput(j).kind = "input"
  BY InputParts
<1>2. PoolParts(j, 0) \in Seq(Outs) /\ none \in Seq(Outs) /\ none = <<>>
  BY PoolPartsTypes
<1>3. /\ pay \in Seq(Outs)
      /\ Layout!SubsidyOnly(j, subsidy) =
            IF Layout!SpaceForExtranonce(j)
            THEN OpenForm(Layout!OpenInput(j), pay) ELSE ClosedForm(Layout!ClosedInput(j), none, pay)
  BY SubsidyForm
<1>4. Layout!EmptyCoinbase(j) =
            IF Layout!SpaceForExtranonce(j)
            THEN OpenForm(Layout!OpenInput(j), PoolParts(j, 0))
            ELSE ClosedForm(Layout!ClosedInput(j), none, PoolParts(j, 0))
  BY EmptyForm
<1> HIDE DEF pay, none
<1>5. IsTransaction(OpenForm(Layout!OpenInput(j), pay)) /\ IsTransaction(ClosedForm(Layout!ClosedInput(j), none, pay))
  BY <1>1, <1>2, <1>3, OpenFormIsTransaction, ClosedFormIsTransaction
<1>6. /\ IsTransaction(OpenForm(Layout!OpenInput(j), PoolParts(j, 0)))
      /\ IsTransaction(ClosedForm(Layout!ClosedInput(j), none, PoolParts(j, 0)))
  BY <1>1, <1>2, OpenFormIsTransaction, ClosedFormIsTransaction
<1> QED BY <1>3, <1>4, <1>5, <1>6

-----------------------------------------------------------------------------
(* The request's job *)

\* What is sent is a list of the amounts and of script lengths: none, or at least 21 bytes.
LEMMA SentShape ==
    ASSUME NEW r \in Requests, NEW miner \in {PoolFeeAddress, r.miner}
    PROVE  LET sent == Sent(r, miner)
               outs == BuildOutputs(miner, Asked(r.total), RankedIn(r))
               n == FilledSlots(r.ranked) + 2
           IN  /\ sent \in Seq(Pays) /\ DOMAIN sent = 1 .. n /\ DOMAIN outs = 1 .. n /\ n \in Nat
               /\ \A i \in 1 .. n : /\ sent[i].value = outs[i].amount
                                    /\ sent[i].scriptLen = 0 \/ sent[i].scriptLen >= 21
               /\ sent[1].scriptLen = ScriptLen(miner, r.scripts) /\ outs[1].amount = FinderAmount(Asked(r.total))
<1> DEFINE total == Asked(r.total)
           ranked == r.ranked
           outs == BuildOutputs(miner, total, [i \in 1 .. ranked |-> i])
           k == FilledSlots(ranked)
           n == k + 2
           pays == [i \in 1 .. n |-> [value |-> outs[i].amount, scriptLen |-> ScriptLen(outs[i].address, r.scripts)]]
           Known == {PoolFeeAddress, r.miner} \cup 1 .. ranked
<1>1. r.total \in Nat /\ ranked \in Nat /\ \A a \in Known : ScriptLen(a, r.scripts) \in {0} \cup 21 .. 64
  BY RequestsAssumption
<1>2. total \in Nat
  BY <1>1 DEF Asked, SubsidySats
<1> HIDE DEF total, ranked, Known
<1>3. /\ k \in Nat /\ k <= ranked /\ DOMAIN outs = 1 .. n
      /\ outs[1] = Output(miner, FinderAmount(total))
      /\ \A i \in 2 .. k + 1 : outs[i] = Output(i - 1, PerSlot(total))
      /\ outs[n] = Output(PoolFeeAddress, PoolFeeOut(total, ranked))
  <2>1. ranked \in Nat
    BY <1>1
  <2>2. HasShape(outs, miner, total, ranked)
    BY <2>1, OutputsShape
  <2> HIDE DEF outs
  <2> QED BY <2>2 DEF HasShape
<1>4. \A i \in DOMAIN outs : outs[i].amount \in Nat
  BY <1>1, <1>2, OutputsSum
<1>5. Sent(r, miner) = pays /\ BuildOutputs(miner, Asked(r.total), RankedIn(r)) = outs
  BY <1>3 DEF Sent, RankedIn, total, ranked
<1> HIDE DEF outs, k
<1>6. n \in Nat /\ 1 \in 1 .. n
  BY <1>3
<1>7. \A a, x : Output(a, x).address = a /\ Output(a, x).amount = x
  BY DEF Output
<1>8. ASSUME NEW i \in 1 .. n PROVE outs[i].address \in Known
  <2>1. i = 1 \/ i \in 2 .. k + 1 \/ i = n
    BY <1>3
  <2>2. CASE i = 1
    BY <1>3, <1>7, <2>2 DEF Known
  <2>3. CASE i \in 2 .. k + 1
    <3>1. outs[i].address = i - 1 /\ i - 1 \in 1 .. ranked
      BY <1>1, <1>3, <1>7, <2>3
    <3> QED BY <3>1 DEF Known
  <2>4. CASE i = n
    BY <1>3, <1>7, <2>4 DEF Known
  <2> QED BY <2>1, <2>2, <2>3, <2>4
<1>9. ASSUME NEW i \in 1 .. n
      PROVE  /\ pays[i] \in Pays /\ pays[i].value = outs[i].amount
             /\ pays[i].scriptLen = ScriptLen(outs[i].address, r.scripts)
             /\ pays[i].scriptLen = 0 \/ pays[i].scriptLen >= 21
  <2>1. pays[i].value = outs[i].amount /\ pays[i].scriptLen = ScriptLen(outs[i].address, r.scripts)
    OBVIOUS
  <2>2. ScriptLen(outs[i].address, r.scripts) \in {0} \cup 21 .. 64
    BY <1>1, <1>8
  <2>3. pays[i] \in Pays
    <3> DEFINE x == ScriptLen(outs[i].address, r.scripts)
    <3>1. x \in {0} \cup 21 .. 64
      BY <2>2
    <3> HIDE DEF x
    <3>2. x \in Nat
      BY <3>1
    <3>3. outs[i].amount \in Nat
      BY <1>3, <1>4
    <3> QED BY <3>2, <3>3 DEF x, Pays
  <2> HIDE DEF pays
  <2>4. pays[i].scriptLen = 0 \/ pays[i].scriptLen >= 21
    BY <2>1, <2>2
  <2> QED BY <2>1, <2>3, <2>4
<1>10. DOMAIN pays = 1 .. n /\ pays \in [1 .. n -> Pays]
  BY <1>9
<1> HIDE DEF pays
<1>11. pays \in Seq(Pays)
  <2> HIDE DEF n
  <2> QED BY <1>6, <1>10, ListIsSeq
<1>12. /\ pays[1].scriptLen = ScriptLen(miner, r.scripts) /\ outs[1].amount = FinderAmount(total)
  BY <1>3, <1>6, <1>7, <1>9
<1> HIDE DEF n
<1> QED BY <1>3, <1>5, <1>6, <1>9, <1>10, <1>11, <1>12 DEF n, k, total, ranked

\* In short.
LEMMA SentType ==
    ASSUME NEW r \in Requests, NEW miner \in {PoolFeeAddress, r.miner}
    PROVE  Sent(r, miner) \in Seq(Pays)
  BY SentShape

\* The stratum job is one.
LEMMA JobIsJob ==
    ASSUME NEW r \in Requests
    PROVE  IsJob(JobOf(r)) /\ JobOf(r).value = r.total /\ JobOf(r).poolLen = 22
<1> DEFINE plain == [inputLen |-> Layout!InputLen(4, r.tags, r.uidLen),
                     value |-> r.total, poolLen |-> 22, outputs |-> <<>>,
                     txSize |-> r.template[1], txWeight |-> r.template[2]]
           sent == Answered("job", Sent(r, PoolFeeAddress))
           kept == Layout!Picked(sent, {k \in DOMAIN sent : Layout!Convertible(sent[k])})
           tags == r.tags
           a == tags[1]
           b == tags[2]
<1>1. sent \in Seq(Pays)
  <2>1. Sent(r, PoolFeeAddress) \in Seq(Pays)
    BY SentType
  <2>2. <<>> \in Seq(Pays)
    OBVIOUS
  <2> QED BY <2>1, <2>2 DEF Answered
<1>2. kept \in Seq(Pays)
  <2> HIDE DEF sent
  <2> QED BY <1>1, PickedLen
<1>3. a \in 0 .. 83 /\ b \in Nat /\ tags = <<a, b>> /\ r.uidLen \in {4, 8}
  BY RequestsAssumption
<1>4. Layout!InputLen(4, tags, r.uidLen) \in 0 .. 100
  <2> HIDE DEF tags, a, b
  <2> QED BY <1>3, InputFits
<1>5. r.total \in Nat /\ r.template[1] \in Nat /\ r.template[2] \in Nat
  BY RequestsAssumption
<1>6. JobOf(r) = [plain EXCEPT !.outputs = kept]
  BY DEF JobOf, Layout!JobWithOutputs
<1> HIDE DEF kept, sent
<1>7. /\ JobOf(r).outputs = kept /\ JobOf(r).value = r.total /\ JobOf(r).poolLen = 22
      /\ JobOf(r).inputLen = Layout!InputLen(4, tags, r.uidLen)
      /\ JobOf(r).txSize = r.template[1] /\ JobOf(r).txWeight = r.template[2]
  BY <1>6
<1> DEFINE j == JobOf(r)
           inputLen == Layout!InputLen(4, tags, r.uidLen)
<1>8. /\ j.outputs = kept /\ j.value = r.total /\ j.poolLen = 22 /\ j.inputLen = inputLen
      /\ j.txSize = r.template[1] /\ j.txWeight = r.template[2] /\ inputLen \in 0 .. 100
  BY <1>4, <1>7
<1> HIDE DEF j, inputLen
<1>9. IsJob(j)
  <2>1. j.inputLen \in Nat /\ j.poolLen \in Nat
    BY <1>8
  <2>2. j.value \in Nat /\ j.txSize \in Nat /\ j.txWeight \in Nat
    BY <1>5, <1>8
  <2>3. j.outputs \in Seq(Pays)
    BY <1>2, <1>8
  <2> QED BY <2>1, <2>2, <2>3 DEF IsJob
<1> QED BY <1>8, <1>9 DEF j

\* Once written, a coinbase is that of the request and of the answers, which stay.
AsWritten ==
    generated =>
    /\ call["job"] = "returned" /\ call["miner"] = "returned"
    /\ job = JobOf(request)
    /\ coinbases = [shared |-> Layout!SharedCoinbase(job, request.type),
                    personal |-> PersonalOf(job, request),
                    subsidy |-> Layout!SubsidyOnly(job, SubsidySats),
                    empty |-> Layout!EmptyCoinbase(job)]
    /\ paying = Layout!FitToTemplate(job, request.type)

\* A call that has returned stays so, with its answer.
LEMMA ReturnedStays ==
    ASSUME SocketInv, Next, NEW c \in Calls, call[c] = "returned"
    PROVE  call'[c] = "returned" /\ answer'[c] = answer[c]
<1>1. call \in [Calls -> {"none", "connected", "waiting", "returned"}] /\ answer \in [Calls -> Replies]
  BY DEF SocketInv, TypeOK
<1>2. ASSUME NEW d \in Calls, Gateway(d) PROVE call'[c] = "returned" /\ answer'[c] = answer[c]
  <2>1. d # c
    BY <1>1, <1>2 DEF Gateway, Connect, NotConnected, Send, NotSent, Receive, NoAnswer
  <2>2. \/ UNCHANGED answer /\ \E x : call' = [call EXCEPT ![d] = x]
        \/ \E a : Return(d, a)
    BY <1>2 DEF Gateway, Connect, NotConnected, Send, NotSent, Receive, NoAnswer
  <2> QED BY <1>1, <2>1, <2>2 DEF Return
<1>3. ASSUME NEW d \in Calls, Service(d) PROVE UNCHANGED gatewayVars
  BY <1>3 DEF Service, Accept, ScanLine, EndOfScan, RecordShare, Handle, Answer, NotAnswered
<1>4. ASSUME Die \/ Start PROVE UNCHANGED gatewayVars
  BY <1>4 DEF Die, Start
<1> QED BY <1>2, <1>3, <1>4 DEF Next, gatewayVars

\* Whatever happens.
LEMMA AsWrittenStep == CoinbaseInv /\ AsWritten /\ [CoinbaseNext]_allVars => AsWritten'
<1> SUFFICES ASSUME CoinbaseInv, AsWritten, [CoinbaseNext]_allVars PROVE AsWritten'
  OBVIOUS
<1>1. CASE Generate
  BY <1>1 DEF Generate, AsWritten, vars, JobOf, Answered, PersonalOf
<1>2. CASE ~Generate
  <2>1. UNCHANGED <<request, outputs, coinbaseVars>> /\ (Next \/ UNCHANGED vars)
    BY <1>2 DEF CoinbaseNext, SocketStep, Finished, allVars
  <2> SUFFICES ASSUME generated' PROVE AsWritten'
    BY DEF AsWritten
  <2>2. generated /\ call["job"] = "returned" /\ call["miner"] = "returned"
    BY <2>1 DEF coinbaseVars, AsWritten
  <2>3. "job" \in Calls /\ "miner" \in Calls
    BY CoinbaseAssumption
  <2>4. /\ call'["job"] = "returned" /\ answer'["job"] = answer["job"]
        /\ call'["miner"] = "returned" /\ answer'["miner"] = answer["miner"]
    <3>1. CASE Next
      BY <2>2, <2>3, <3>1, ReturnedStays DEF CoinbaseInv
    <3>2. CASE UNCHANGED vars
      BY <2>2, <3>2 DEF vars
    <3> QED BY <2>1, <3>1, <3>2
  <2>5. request' = request /\ job' = job /\ coinbases' = coinbases /\ paying' = paying
    BY <2>1 DEF coinbaseVars
  <2>6. JobOf(request)' = JobOf(request)
    BY <2>4, <2>5 DEF JobOf, Answered
  <2>7. PersonalOf(job, request)' = PersonalOf(job, request)
    BY <2>4, <2>5 DEF PersonalOf
  <2> QED BY <2>2, <2>4, <2>5, <2>6, <2>7 DEF AsWritten
<1> QED BY <1>1, <1>2

\* What has been generated stays what the request and its two answers make of it
\* (datum_coinbaser_thread), and the socket's invariant holds beside it.
THEOREM WrittenOnce == CoinbaseSpec => [](CoinbaseInv /\ AsWritten)
<1>1. CoinbaseInit => CoinbaseInv /\ AsWritten
  BY CoinbaseInitially DEF CoinbaseInit, AsWritten
<1>2. (CoinbaseInv /\ AsWritten) /\ [CoinbaseNext]_allVars => (CoinbaseInv /\ AsWritten)'
  BY CoinbaseStep, AsWrittenStep
<1> QED BY <1>1, <1>2, PTL DEF CoinbaseSpec

\* Every coinbase of a job is a transaction.
THEOREM CoinbasesAreTransactions == CoinbaseSpec => []SharedIsTransaction
<1>1. CoinbaseInv /\ AsWritten => SharedIsTransaction
  <2> SUFFICES ASSUME CoinbaseInv, AsWritten, generated PROVE SharedIsTransaction
    BY DEF SharedIsTransaction
  <2>1. request \in Requests /\ request.type \in 0 .. 5
    BY RequestsAssumption DEF CoinbaseInv
  <2>2. IsJob(job)
    BY <2>1, JobIsJob DEF AsWritten
  <2>3. /\ coinbases.empty = Layout!EmptyCoinbase(job)
        /\ coinbases.subsidy = Layout!SubsidyOnly(job, SubsidySats)
        /\ coinbases.shared = Layout!SharedCoinbase(job, request.type)
    BY DEF AsWritten
  <2>4. IsTransaction(coinbases.empty) /\ IsTransaction(coinbases.subsidy)
    <3>1. SubsidySats \in Nat
      BY DEF SubsidySats
    <3> QED BY <2>2, <2>3, <3>1, OthersAreTransactions
  <2>5. ASSUME ~Garbled PROVE IsTransaction(coinbases.shared)
    <3>1. ~Behind(job, request.type)
      BY <2>5 DEF Garbled, Behind
    <3> QED BY <2>1, <2>2, <2>3, <3>1, FormIsTransaction
  <2> QED BY <2>4, <2>5 DEF SharedIsTransaction
<1> QED BY <1>1, WrittenOnce, PTL

-----------------------------------------------------------------------------
(* More about sums *)

\* A sum in two parts.
LEMMA SumSplit ==
    ASSUME NEW f, NEW S, IsFiniteSet(S), \A x \in S : f[x] \in Int, NEW U \in SUBSET S
    PROVE  SumFunctionOnSet(f, S) = SumFunctionOnSet(f, U) + SumFunctionOnSet(f, S \ U)
<1> DEFINE Total(s) == SumFunctionOnSet(f, s)
           C == {u \in SUBSET S : Total(S) # Total(u) + Total(S \ u)}
<1> SUFFICES ASSUME C # {} PROVE FALSE
  OBVIOUS
<1>1. \A s \in SUBSET S : IsFiniteSet(s) /\ Total(s) \in Int
  BY FS_Subset, SumType
<1>2. PICK u \in C : \A x \in u : u \ {x} \notin C
  BY <1>1, SmallestSet
<1>3. u # {}
  <2>1. Total({}) = 0 /\ S \ {} = S /\ Total(S) \in Int
    BY <1>1, SumOfNone
  <2> QED BY <1>2, <2>1
<1>4. PICK x \in u : TRUE
  BY <1>3
<1> DEFINE v == u \ {x}
           r == S \ u
<1>5. u \in SUBSET S /\ v \in SUBSET S /\ r \in SUBSET S /\ x \notin r /\ f[x] \in Int /\ S \ v = r \cup {x}
  BY <1>2, <1>4
<1>6. Total(u) = f[x] + Total(v)
  BY <1>1, <1>4, <1>5, SumOfOneMore
<1>7. Total(S) = Total(v) + Total(S \ v)
  BY <1>2, <1>4, <1>5
<1>8. Total(S) # Total(u) + Total(r)
  BY <1>2
<1> HIDE DEF v, r
<1>9. Total(r \cup {x}) = f[x] + Total(r)
  BY <1>1, <1>5, SumOfAdded
<1>10. Total(v) \in Int /\ Total(r) \in Int /\ Total(S \ v) = f[x] + Total(r)
  BY <1>1, <1>5, <1>9
<1> HIDE DEF Total
<1> QED BY <1>5, <1>6, <1>7, <1>8, <1>10

\* A sum of natural numbers is one, and a part of it is no more.
LEMMA SumNat ==
    ASSUME NEW f, NEW S, IsFiniteSet(S), \A x \in S : f[x] \in Nat
    PROVE  SumFunctionOnSet(f, S) \in Nat
<1> DEFINE C == {s \in SUBSET S : SumFunctionOnSet(f, s) \notin Nat}
<1> SUFFICES ASSUME C # {} PROVE FALSE
  OBVIOUS
<1>1. \A s \in SUBSET S : IsFiniteSet(s)
  BY FS_Subset
<1>2. PICK s \in C : \A x \in s : s \ {x} \notin C
  BY <1>1, SmallestSet
<1>3. s # {}
  BY <1>2, SumOfNone
<1>4. FirstOf(s) \in s
  BY <1>3 DEF FirstOf
<1>5. SumFunctionOnSet(f, s \ {FirstOf(s)}) \in Nat
  BY <1>2, <1>4
<1>6. SumFunctionOnSet(f, s) = f[FirstOf(s)] + SumFunctionOnSet(f, s \ {FirstOf(s)})
  BY <1>1, <1>3, SumOfFirst
<1> QED BY <1>2, <1>4, <1>5, <1>6

\* A part of a sum of natural numbers is no more than the sum.
LEMMA SumGrows ==
    ASSUME NEW f, NEW S, IsFiniteSet(S), \A x \in S : f[x] \in Nat, NEW U \in SUBSET S
    PROVE  /\ SumFunctionOnSet(f, U) \in Nat /\ SumFunctionOnSet(f, S) \in Nat
           /\ SumFunctionOnSet(f, U) <= SumFunctionOnSet(f, S)
<1>1. IsFiniteSet(U) /\ IsFiniteSet(S \ U)
  BY FS_Subset
<1> DEFINE a == SumFunctionOnSet(f, U)
           b == SumFunctionOnSet(f, S \ U)
           c == SumFunctionOnSet(f, S)
<1>2. a \in Nat /\ b \in Nat /\ c \in Nat
  BY <1>1, SumNat
<1>3. c = a + b
  BY SumSplit
<1> HIDE DEF a, b, c
<1>4. a <= c
  BY <1>2, <1>3
<1> QED BY <1>2, <1>4 DEF a, c

\* A weight for every element.
Weights(T) == [T -> Int]

\* Three sequences in a row weigh what they do.
LEMMA WeighJoined ==
    ASSUME NEW T, NEW w \in Weights(T), NEW s \in Seq(T), NEW t \in Seq(T), NEW u \in Seq(T)
    PROVE  /\ Weigh(Joined(s, t, u), w) = Weigh(s, w) + Weigh(t, w) + Weigh(u, w)
           /\ Weigh(s, w) \in Int /\ Weigh(t, w) \in Int /\ Weigh(u, w) \in Int
<1>1. Cat(s, t) \in Seq(T) /\ Joined(s, t, u) = Cat(Cat(s, t), u)
  BY CatFacts
<1>2. Weigh(Cat(s, t), w) = Weigh(s, w) + Weigh(t, w)
  BY WeighConcat DEF Cat, Weights
<1> DEFINE st == Cat(s, t)
<1> HIDE DEF st
<1>3. Weigh(Cat(st, u), w) = Weigh(st, w) + Weigh(u, w)
  <2>1. st \in Seq(T)
    BY <1>1 DEF st
  <2> QED BY <2>1, WeighConcat DEF Cat, Weights
<1>4. Weigh(s, w) \in Int /\ Weigh(t, w) \in Int /\ Weigh(u, w) \in Int
  BY WeighType DEF Weights
<1> QED BY <1>1, <1>2, <1>3, <1>4 DEF st

\* One element, and three.
LEMMA WeighOne ==
    ASSUME NEW T, NEW w \in Weights(T), NEW a \in T
    PROVE  Weigh(<<a>>, w) = w[a]
<1> DEFINE none == <<>>
<1>1. none \in Seq(T) /\ <<a>> = Append(none, a) /\ Weigh(none, w) = 0
  BY WeighNone
<1> HIDE DEF none
<1>2. Weigh(Append(none, a), w) = Weigh(none, w) + w[a]
  BY <1>1, WeighMore DEF Weights
<1>3. w[a] \in Int
  BY DEF Weights
<1>4. Weigh(Append(none, a), w) = w[a]
  BY <1>1, <1>2, <1>3
<1> QED BY <1>1, <1>4

\* Three elements weigh what each weighs.
LEMMA WeighThree ==
    ASSUME NEW T, NEW w \in Weights(T), NEW a \in T, NEW b \in T, NEW c \in T
    PROVE  Weigh(<<a, b, c>>, w) = w[a] + w[b] + w[c]
<1> DEFINE s == <<a>>
           t == <<b>>
           u == <<c>>
<1>1. s \in Seq(T) /\ t \in Seq(T) /\ u \in Seq(T)
  OBVIOUS
<1>2. <<a, b, c>> = Joined(s, t, u)
  <2>1. <<a>> \o <<b>> = <<a, b>>
    BY TwoInRow
  <2>2. <<a, b>> \o <<c>> = <<a, b, c>>
    BY ThreeInRow
  <2> QED BY <2>1, <2>2 DEF Joined
<1>3. Weigh(s, w) = w[a] /\ Weigh(t, w) = w[b] /\ Weigh(u, w) = w[c]
  BY WeighOne
<1> HIDE DEF s, t, u
<1>4. Weigh(Joined(s, t, u), w) = Weigh(s, w) + Weigh(t, w) + Weigh(u, w)
  BY <1>1, WeighJoined
<1>5. Weigh(Joined(s, t, u), w) = w[a] + w[b] + w[c]
  BY <1>3, <1>4
<1> QED BY <1>2, <1>5

\* What the two forms weigh.
LEMMA OpenFormWeighs ==
    ASSUME NEW w \in Weights(Parts), NEW input \in Parts, NEW outs \in Seq(Outs)
    PROVE  /\ Weigh(Transaction(OpenForm(input, outs)), w) =
                  w[input] + w[Layout!Sequence] + w[Layout!Count(Len(outs))] + Weigh(outs, w) + w[Layout!LockTime]
           /\ Weigh(outs, w) \in Int
<1> DEFINE q == Layout!Sequence
           c == Layout!Count(Len(outs))
           l == Layout!LockTime
           s == <<input, q, c>>
           u == <<l>>
<1>1. outs \in Seq(Parts) /\ Transaction(OpenForm(input, outs)) = Framed(input, outs) /\ Len(outs) \in Nat
  BY OpenParts DEF Outs
<1>2. q \in Parts /\ c \in Parts /\ l \in Parts
  BY <1>1, FixedParts
<1>3. Framed(input, outs) = Joined(s, outs, u)
  BY DEF Framed
<1> HIDE DEF q, c, l
<1>4. s \in Seq(Parts) /\ u \in Seq(Parts)
  BY <1>2
<1>5. Weigh(s, w) = w[input] + w[q] + w[c] /\ Weigh(u, w) = w[l]
  BY <1>2, WeighOne, WeighThree
<1>6. w[input] \in Int /\ w[q] \in Int /\ w[c] \in Int /\ w[l] \in Int
  BY <1>2 DEF Weights
<1> HIDE DEF s, u
<1>7. Weigh(Joined(s, outs, u), w) = Weigh(s, w) + Weigh(outs, w) + Weigh(u, w) /\ Weigh(outs, w) \in Int
  BY <1>1, <1>4, WeighJoined
<1>8. Weigh(Joined(s, outs, u), w) = w[input] + w[q] + w[c] + Weigh(outs, w) + w[l]
  BY <1>5, <1>6, <1>7
<1> QED BY <1>1, <1>3, <1>7, <1>8 DEF q, c, l

\* What a coinbase with its extranonce in an output weighs.
LEMMA ClosedFormWeighs ==
    ASSUME NEW w \in Weights(Parts), NEW input \in Parts, NEW lead \in Seq(Outs), NEW trail \in Seq(Outs)
    PROVE  /\ Weigh(Transaction(ClosedForm(input, lead, trail)), w) =
                  w[input] + w[Layout!Sequence] + w[Layout!Count(Len(lead) + Len(trail) + 1)]
                    + (Weigh(lead, w) + w[Layout!Extranonce] + Weigh(trail, w)) + w[Layout!LockTime]
           /\ Weigh(lead, w) \in Int /\ Weigh(trail, w) \in Int
<1> DEFINE n == Len(lead) + Len(trail) + 1
           q == Layout!Sequence
           c == Layout!Count(n)
           l == Layout!LockTime
           x == Layout!Extranonce
           e == <<x>>
           s == <<input, q, c>>
           u == <<l>>
           body == ClosedBody(lead, trail)
<1>1. lead \in Seq(Parts) /\ trail \in Seq(Parts) /\ n \in Nat
  BY DEF Outs
<1>2. q \in Parts /\ c \in Parts /\ l \in Parts /\ x \in Parts
  BY <1>1, FixedParts
<1>3. /\ body \in Seq(Bodies) /\ Len(body) = n
      /\ Transaction(ClosedForm(input, lead, trail)) = Framed(input, body)
  BY ClosedParts
<1>4. body = Joined(lead, e, trail)
  BY DEF ClosedBody
<1> HIDE DEF body
<1>5. body \in Seq(Parts) /\ Framed(input, body) = Joined(s, body, u)
  BY <1>3 DEF Framed, Bodies
<1> HIDE DEF n, q, c, l, x
<1>6. s \in Seq(Parts) /\ u \in Seq(Parts) /\ e \in Seq(Parts)
  BY <1>2
<1>7. Weigh(s, w) = w[input] + w[q] + w[c] /\ Weigh(u, w) = w[l] /\ Weigh(e, w) = w[x]
  BY <1>2, WeighOne, WeighThree
<1>8. w[input] \in Int /\ w[q] \in Int /\ w[c] \in Int /\ w[l] \in Int /\ w[x] \in Int
  BY <1>2 DEF Weights
<1> HIDE DEF s, u, e
<1>9. Weigh(Joined(s, body, u), w) = Weigh(s, w) + Weigh(body, w) + Weigh(u, w)
  BY <1>5, <1>6, WeighJoined
<1>10. /\ Weigh(body, w) = Weigh(lead, w) + Weigh(e, w) + Weigh(trail, w)
       /\ Weigh(lead, w) \in Int /\ Weigh(trail, w) \in Int
  BY <1>1, <1>4, <1>6, WeighJoined
<1>11. Weigh(Joined(s, body, u), w) =
          w[input] + w[q] + w[c] + (Weigh(lead, w) + w[x] + Weigh(trail, w)) + w[l]
  BY <1>7, <1>8, <1>9, <1>10
<1> QED BY <1>3, <1>5, <1>10, <1>11 DEF n, q, c, l, x

-----------------------------------------------------------------------------
(* What a shared coinbase pays in all *)

\* What a part pays, and its bytes.
ValueIn == [p \in Parts |-> IF p.kind = "output" THEN p.value ELSE 0]
BytesIn == [p \in Parts |-> p.bytes]

\* A weight of parts that is one of the outputs they are written from.
Matches(w, v) ==
    /\ w \in Weights(Parts) /\ v \in Weights(Pays)
    /\ \A o \in Pays : w[Layout!Output(o.value, o.scriptLen)] = v[o]

\* Those two are.
LEMMA ValueMatches == Matches(ValueIn, ValueOf)
<1>1. ValueIn \in Weights(Parts)
  BY DEF ValueIn, Weights, Parts
<1>2. ValueOf \in Weights(Pays)
  BY DEF ValueOf, Weights, Pays
<1>3. ASSUME NEW o \in Pays PROVE ValueIn[Layout!Output(o.value, o.scriptLen)] = ValueOf[o]
  <2>1. o.value \in Nat /\ o.scriptLen \in Nat
    BY DEF Pays
  <2>2. Layout!Output(o.value, o.scriptLen) \in Outs
    BY <2>1, FixedParts
  <2>3. Layout!Output(o.value, o.scriptLen).value = o.value
    BY DEF Layout!Output, Layout!Part
  <2> QED BY <2>2, <2>3 DEF ValueIn, ValueOf, Outs
<1> QED BY <1>1, <1>2, <1>3 DEF Matches

\* An output that is written has the bytes it costs.
LEMMA BytesMatch == Matches(BytesIn, CostOf)
<1>1. BytesIn \in Weights(Parts)
  BY DEF BytesIn, Weights, Parts
<1>2. CostOf \in Weights(Pays)
  BY DEF CostOf, Weights, Pays
<1>3. ASSUME NEW o \in Pays PROVE BytesIn[Layout!Output(o.value, o.scriptLen)] = CostOf[o]
  <2>1. o.value \in Nat /\ o.scriptLen \in Nat
    BY DEF Pays
  <2>2. Layout!Output(o.value, o.scriptLen) \in Parts
    BY <2>1, FixedParts DEF Outs
  <2>3. Layout!Output(o.value, o.scriptLen).bytes = o.scriptLen + 9
    BY <2>1 DEF Layout!Output, Layout!Part
  <2> QED BY <2>2, <2>3 DEF BytesIn, CostOf
<1> QED BY <1>1, <1>2, <1>3 DEF Matches

\* What is written weighs what it is written from.
LEMMA WrittenWeigh ==
    ASSUME NEW w, NEW v, Matches(w, v), NEW s \in Seq(Pays)
    PROVE  Weigh(Layout!Written(s), w) = Weigh(s, v)
<1> DEFINE n == Len(s)
           q == Layout!Written(s)
           f == WeightsOf(q, w)
           g == WeightsOf(s, v)
<1>1. n \in Nat /\ \A i \in 1 .. n : s[i] \in Pays
  OBVIOUS
<1>2. Len(q) = n /\ \A i \in 1 .. n : q[i] = Layout!Output(s[i].value, s[i].scriptLen)
  BY WrittenOuts
<1> HIDE DEF q
<1>3. ASSUME NEW i \in 1 .. n PROVE f[i] = g[i] /\ f[i] \in Int
  <2>1. f[i] = w[q[i]] /\ g[i] = v[s[i]]
    BY <1>2 DEF WeightsOf
  <2>2. s[i] \in Pays /\ q[i] = Layout!Output(s[i].value, s[i].scriptLen)
    BY <1>1, <1>2
  <2>3. w[q[i]] = v[s[i]] /\ v[s[i]] \in Int
    BY <2>2 DEF Matches, Weights
  <2> QED BY <2>1, <2>3
<1>4. IsFiniteSet(1 .. n)
  BY <1>1, FS_Interval
<1> HIDE DEF n, f, g
<1>5. SumFunctionOnSet(f, 1 .. n) = SumFunctionOnSet(g, 1 .. n)
  BY <1>3, <1>4, SumSame
<1> QED BY <1>2, <1>5 DEF Weigh, n, q, f, g

\* The outputs at some places weigh what the places do.
LEMMA ThoseWeigh ==
    ASSUME NEW w, NEW v, Matches(w, v), NEW j, IsJob(j), NEW I \in SUBSET (1 .. Len(j.outputs))
    PROVE  Weigh(Those(j, I), w) = SumFunctionOnSet(WeightsOf(j.outputs, v), I)
<1> DEFINE p == Layout!Picked(j.outputs, I)
           s == j.outputs
<1>1. s \in Seq(Pays) /\ v \in [Pays -> Int]
  BY DEF IsJob, Matches, Weights
<1>2. p \in Seq(Pays)
  BY <1>1, PickedLen
<1>3. I \cap (1 .. Len(s)) = I
  OBVIOUS
<1>4. Weigh(p, v) = SumFunctionOnSet(WeightsOf(s, v), I \cap (1 .. Len(s)))
  BY <1>1, PickedWeigh
<1>5. Those(j, I) = Layout!Written(p)
  BY DEF Those
<1> HIDE DEF p, s
<1>6. Weigh(Layout!Written(p), w) = Weigh(p, v)
  BY <1>2, WrittenWeigh
<1> QED BY <1>3, <1>4, <1>5, <1>6 DEF s

\* Coinb1's outputs and those behind weigh what the chosen ones do.
InTwoParts(w, v, j, t) ==
    LET S == TheScan(j, t).chosen
        L == Leads(j, t)
    IN  /\ Weigh(Those(j, L), w) + Weigh(Those(j, S \ L), w) =
               SumFunctionOnSet(WeightsOf(j.outputs, v), S)
        /\ Weigh(Those(j, L), w) \in Int /\ Weigh(Those(j, S \ L), w) \in Int

\* So they weigh in two parts what they weigh together.
LEMMA ChosenWeigh ==
    ASSUME NEW w, NEW v, Matches(w, v), NEW j, IsJob(j), NEW t \in 0 .. 5
    PROVE  InTwoParts(w, v, j, t)
<1> DEFINE S == TheScan(j, t).chosen
           L == Leads(j, t)
           f == WeightsOf(j.outputs, v)
           D == 1 .. Len(j.outputs)
<1>1. S \in SUBSET D /\ L \in SUBSET S
  BY SharedTypes, ScanStateParts
<1>2. j.outputs \in Seq(Pays) /\ v \in [Pays -> Int]
  BY DEF IsJob, Matches, Weights
<1>3. \A J \in SUBSET D : IsFiniteSet(J) /\ SumFunctionOnSet(f, J) \in Int
  BY <1>2, WeighType
<1>4. \A k \in D : f[k] \in Int
  <2>1. \A k \in D : j.outputs[k] \in Pays
    BY <1>2
  <2> QED BY <1>2, <2>1 DEF WeightsOf
<1> HIDE DEF S, L, f
<1>5. Weigh(Those(j, L), w) = SumFunctionOnSet(f, L) /\ Weigh(Those(j, S \ L), w) = SumFunctionOnSet(f, S \ L)
  <2>1. L \in SUBSET D /\ S \ L \in SUBSET D
    BY <1>1
  <2> QED BY <2>1, ThoseWeigh DEF f
<1>6. SumFunctionOnSet(f, S) = SumFunctionOnSet(f, L) + SumFunctionOnSet(f, S \ L)
  <2>1. IsFiniteSet(S) /\ \A k \in S : f[k] \in Int
    BY <1>1, <1>3, <1>4
  <2>2. L \in SUBSET S
    BY <1>1
  <2> QED BY <2>1, <2>2, SumSplit
<1>7. SumFunctionOnSet(f, L) \in Int /\ SumFunctionOnSet(f, S \ L) \in Int
  <2>1. L \in SUBSET D /\ S \ L \in SUBSET D
    BY <1>1
  <2> QED BY <1>3, <2>1
<1> QED BY <1>5, <1>6, <1>7 DEF S, L, f, InTwoParts

\* Before the lock time the pool is paid what is left.
LEMMA PoolValue ==
    ASSUME NEW j, IsJob(j), NEW paid \in 0 .. j.value
    PROVE  Weigh(PoolParts(j, paid), ValueIn) = j.value - paid
<1> DEFINE first == IF j.value > paid THEN Layout!Output(j.value - paid, j.poolLen) ELSE Layout!DeadOutput
           a == Layout!Witness
           b == Layout!Signet
<1>1. j.value \in Nat /\ j.poolLen \in Nat /\ paid \in Nat
  BY DEF IsJob
<1>2. first \in Parts /\ first.kind = "output" /\ first.value = j.value - paid
  <2>1. CASE j.value > paid
    <3>1. j.value - paid \in Nat
      BY <1>1, <2>1
    <3>2. Layout!Output(j.value - paid, j.poolLen) \in Outs
      BY <1>1, <3>1, FixedParts
    <3> QED BY <2>1, <3>2 DEF Outs, Layout!Output, Layout!Part
  <2>2. CASE ~(j.value > paid)
    <3>1. j.value - paid = 0
      BY <1>1, <2>2
    <3>2. Layout!DeadOutput \in Outs /\ Layout!DeadOutput.value = 0
      BY FixedParts DEF Layout!DeadOutput, Layout!Output, Layout!Part
    <3> QED BY <2>2, <3>1, <3>2 DEF Outs
  <2> QED BY <2>1, <2>2
<1>3. /\ a \in Parts /\ a.value = 0
      /\ b \in Parts /\ b.value = 0
  BY FixedParts DEF Outs, Layout!Witness, Layout!Signet, Layout!Output, Layout!Part
<1>4. PoolParts(j, paid) = <<first, a, b>>
  BY DEF PoolParts
<1> HIDE DEF first, a, b
<1>5. ValueIn[first] = j.value - paid /\ ValueIn[a] = 0 /\ ValueIn[b] = 0
  BY <1>2, <1>3 DEF ValueIn
<1>6. Weigh(<<first, a, b>>, ValueIn) = ValueIn[first] + ValueIn[a] + ValueIn[b]
  BY <1>2, <1>3, ValueMatches, WeighThree DEF Matches
<1> QED BY <1>1, <1>4, <1>5, <1>6

\* What an open and a closed form pay.
LEMMA OpenFormPays ==
    ASSUME NEW input \in Parts, input.kind # "output", NEW outs \in Seq(Outs)
    PROVE  Weigh(Transaction(OpenForm(input, outs)), ValueIn) = Weigh(outs, ValueIn)
<1> DEFINE q == Layout!Sequence
           c == Layout!Count(Len(outs))
           l == Layout!LockTime
<1>1. /\ q \in Parts /\ c \in Parts /\ l \in Parts
      /\ q.kind # "output" /\ c.kind # "output" /\ l.kind # "output"
  <2>1. Len(outs) \in Nat
    OBVIOUS
  <2> QED BY <2>1, FixedParts
<1>2. ValueIn \in Weights(Parts)
  BY ValueMatches DEF Matches
<1>3. /\ Weigh(Transaction(OpenForm(input, outs)), ValueIn) =
            ValueIn[input] + ValueIn[q] + ValueIn[c] + Weigh(outs, ValueIn) + ValueIn[l]
      /\ Weigh(outs, ValueIn) \in Int
  BY <1>2, OpenFormWeighs
<1> HIDE DEF q, c, l
<1>4. ValueIn[input] = 0 /\ ValueIn[q] = 0 /\ ValueIn[c] = 0 /\ ValueIn[l] = 0
  BY <1>1 DEF ValueIn
<1> QED BY <1>3, <1>4

\* Nor does what frames the outputs pay anything there.
LEMMA ClosedFormPays ==
    ASSUME NEW input \in Parts, input.kind # "output", NEW lead \in Seq(Outs), NEW trail \in Seq(Outs)
    PROVE  Weigh(Transaction(ClosedForm(input, lead, trail)), ValueIn) =
               Weigh(lead, ValueIn) + Weigh(trail, ValueIn)
<1> DEFINE q == Layout!Sequence
           c == Layout!Count(Len(lead) + Len(trail) + 1)
           l == Layout!LockTime
           x == Layout!Extranonce
<1>1. /\ q \in Parts /\ c \in Parts /\ l \in Parts /\ x \in Parts
      /\ q.kind # "output" /\ c.kind # "output" /\ l.kind # "output" /\ x.kind # "output"
  <2>1. Len(lead) + Len(trail) + 1 \in Nat
    OBVIOUS
  <2> QED BY <2>1, FixedParts
<1>2. ValueIn \in Weights(Parts)
  BY ValueMatches DEF Matches
<1>3. /\ Weigh(Transaction(ClosedForm(input, lead, trail)), ValueIn) =
            ValueIn[input] + ValueIn[q] + ValueIn[c]
                + (Weigh(lead, ValueIn) + ValueIn[x] + Weigh(trail, ValueIn)) + ValueIn[l]
      /\ Weigh(lead, ValueIn) \in Int /\ Weigh(trail, ValueIn) \in Int
  BY <1>2, ClosedFormWeighs
<1> HIDE DEF q, c, l, x
<1>4. ValueIn[input] = 0 /\ ValueIn[q] = 0 /\ ValueIn[c] = 0 /\ ValueIn[l] = 0 /\ ValueIn[x] = 0
  BY <1>1 DEF ValueIn
<1> QED BY <1>3, <1>4

\* The outputs behind coinb1 weigh what the service's and the pool's do.
LEMMA TrailWeigh ==
    ASSUME NEW w \in Weights(Parts), NEW j, IsJob(j), NEW t \in 0 .. 5
    PROVE  /\ Weigh(Trail(j, t), w) =
                  Weigh(Those(j, TheScan(j, t).chosen \ Leads(j, t)), w) + Weigh(PoolParts(j, TheScan(j, t).sum), w)
           /\ Weigh(PoolParts(j, TheScan(j, t).sum), w) \in Int
<1> DEFINE a == Those(j, TheScan(j, t).chosen \ Leads(j, t))
           b == PoolParts(j, TheScan(j, t).sum)
<1>1. a \in Seq(Outs) /\ b \in Seq(Outs) /\ Trail(j, t) = a \o b
  <2>1. TheScan(j, t).sum \in Nat
    BY TrailType
  <2> QED BY <2>1, ThoseTypes, PoolPartsTypes DEF Trail, Cat
<1> HIDE DEF a, b
<1>2. a \in Seq(Parts) /\ b \in Seq(Parts)
  BY <1>1 DEF Outs
<1>3. Weigh(a \o b, w) = Weigh(a, w) + Weigh(b, w)
  BY <1>2, WeighConcat DEF Weights
<1>4. Weigh(b, w) \in Int
  BY <1>2, WeighType DEF Weights
<1> QED BY <1>1, <1>3, <1>4 DEF a, b

\* A shared coinbase pays the job's value, whatever was chosen.
LEMMA FormPays ==
    ASSUME NEW j, IsJob(j), NEW t \in 0 .. 5
    PROVE  Weigh(Transaction(FormOf(j, t)), ValueIn) = j.value
<1> DEFINE L == Leads(j, t)
           S == TheScan(j, t).chosen
           sum == TheScan(j, t).sum
           lead == Those(j, L)
           rest == Those(j, S \ L)
           pool == PoolParts(j, sum)
           trail == Trail(j, t)
           open == Layout!OpenInput(j)
           closed == Layout!ClosedInput(j)
<1>1. sum \in 0 .. j.value /\ sum = SumFunctionOnSet(WeightsOf(j.outputs, ValueOf), S) /\ j.value \in Nat
  <2>1. TheScan(j, t) \in ScanStates(j) /\ ScanKeeps(j, Layout!FitToTemplate(j, t), TheScan(j, t))
    BY SharedTypes
  <2>2. sum \in 0 .. j.value
    BY <2>1, ScanStateParts
  <2>3. sum = SumFunctionOnSet(WeightsOf(j.outputs, ValueOf), S)
    BY <2>1 DEF ScanKeeps
  <2> QED BY <2>2, <2>3 DEF IsJob
<1>2. /\ Weigh(lead, ValueIn) + Weigh(rest, ValueIn) = sum
      /\ Weigh(lead, ValueIn) \in Int /\ Weigh(rest, ValueIn) \in Int
  <2>1. InTwoParts(ValueIn, ValueOf, j, t)
    BY ValueMatches, ChosenWeigh
  <2> QED BY <1>1, <2>1 DEF InTwoParts
<1>3. Weigh(trail, ValueIn) = Weigh(rest, ValueIn) + Weigh(pool, ValueIn)
  BY ValueMatches, TrailWeigh DEF Matches
<1>4. Weigh(pool, ValueIn) = j.value - sum
  BY <1>1, PoolValue
<1>5. /\ open \in Parts /\ open.kind # "output" /\ closed \in Parts /\ closed.kind # "output"
      /\ trail \in Seq(Outs) /\ lead \in Seq(Outs)
  <2>1. /\ open \in Parts /\ open.kind = "open_input" /\ closed \in Parts /\ closed.kind = "input"
    BY InputParts
  <2>2. trail \in Seq(Outs)
    BY TrailType
  <2>3. lead \in Seq(Outs)
    BY ThoseTypes
  <2> QED BY <2>1, <2>2, <2>3
<1>6. CASE IsOpen(j, t)
  <2>1. L = {}
    <3>1. CASE t # 2
      BY <3>1 DEF Leads
    <3>2. CASE j.outputs = <<>>
      <4>1. L \in SUBSET S /\ S \in SUBSET (1 .. Len(j.outputs))
        BY SharedTypes, ScanStateParts
      <4>2. 1 .. Len(j.outputs) = {}
        BY <3>2
      <4> QED BY <4>1, <4>2
    <3> QED BY <1>6, <3>1, <3>2 DEF IsOpen
  <2>2. lead = <<>>
    BY <2>1, ThoseOfNone
  <2>3. Weigh(lead, ValueIn) = 0
    BY <2>2, WeighNone
  <2>4. FormOf(j, t) = OpenForm(open, trail)
    BY <1>6 DEF FormOf
  <2> HIDE DEF lead, rest, pool, trail, sum, open
  <2>5. Weigh(Transaction(OpenForm(open, trail)), ValueIn) = Weigh(trail, ValueIn)
    BY <1>5, OpenFormPays
  <2>6. Weigh(trail, ValueIn) = j.value
    BY <1>1, <1>2, <1>3, <1>4, <2>3
  <2> QED BY <2>4, <2>5, <2>6
<1>7. CASE ~IsOpen(j, t)
  <2>1. FormOf(j, t) = ClosedForm(closed, lead, trail)
    BY <1>7 DEF FormOf
  <2> HIDE DEF lead, rest, pool, trail, sum, closed
  <2>2. Weigh(Transaction(ClosedForm(closed, lead, trail)), ValueIn) = Weigh(lead, ValueIn) + Weigh(trail, ValueIn)
    BY <1>5, ClosedFormPays
  <2>3. Weigh(lead, ValueIn) + Weigh(trail, ValueIn) = j.value
    BY <1>1, <1>2, <1>3, <1>4
  <2> QED BY <2>1, <2>2, <2>3
<1> QED BY <1>6, <1>7

\* A sum over some elements of a set is one over all, where the others are noughts.
LEMMA SumOfMarked ==
    ASSUME NEW f, NEW g, NEW S, IsFiniteSet(S), NEW U, U \in SUBSET S,
           \A x \in S : (g[x] = IF x \in U THEN f[x] ELSE 0) /\ f[x] \in Int
    PROVE  SumFunctionOnSet(f, U) = SumFunctionOnSet(g, S)
<1>1. \A x \in S : g[x] = IF x \in U THEN f[x] ELSE 0
  OBVIOUS
<1>2. \A x \in U : f[x] \in Int
  OBVIOUS
<1> QED BY <1>1, <1>2, SumWithNoughts

\* The sums in the properties are weights.
LEMMA TotalIsWeight ==
    ASSUME NEW c, Transaction(c) \in Seq(Parts)
    PROVE  TotalOf(c) = Weigh(Transaction(c), ValueIn)
<1> DEFINE tx == Transaction(c)
           f == [i \in DOMAIN tx |-> tx[i].value]
           g == WeightsOf(tx, ValueIn)
           S == 1 .. Len(tx)
           U == {i \in DOMAIN tx : tx[i].kind = "output"}
<1>1. TotalOf(c) = SumFunctionOnSet(f, U)
  BY DEF TotalOf
<1>2. tx \in Seq(Parts) /\ DOMAIN tx = S /\ Len(tx) \in Nat /\ \A i \in S : tx[i] \in Parts
  BY LenProperties
<1>3. IsFiniteSet(S)
  BY <1>2, FS_Interval
<1> HIDE DEF tx
<1>4. U \in SUBSET S
  BY <1>2
<1>5. ASSUME NEW i \in S
      PROVE  g[i] = (IF i \in U THEN f[i] ELSE 0) /\ f[i] \in Int
  <2>1. g[i] = ValueIn[tx[i]] /\ f[i] = tx[i].value /\ (i \in U <=> tx[i].kind = "output")
    BY <1>2 DEF WeightsOf
  <2>2. tx[i].value \in Nat /\ ValueIn[tx[i]] = IF tx[i].kind = "output" THEN tx[i].value ELSE 0
    BY <1>2 DEF ValueIn, Parts
  <2> QED BY <2>1, <2>2
<1> HIDE DEF f, g, U, S
<1>6. U \in SUBSET S /\ \A i \in S : (g[i] = IF i \in U THEN f[i] ELSE 0) /\ f[i] \in Int
  BY <1>4, <1>5
<1>7. SumFunctionOnSet(f, U) = SumFunctionOnSet(g, S)
  BY <1>3, <1>6, SumOfMarked
<1> QED BY <1>1, <1>7 DEF Weigh, tx, g, S

\* And so is the number of bytes.
LEMMA BytesAreWeight ==
    ASSUME NEW c, Transaction(c) \in Seq(Parts)
    PROVE  BytesOf(c) = 12 + Weigh(Transaction(c), BytesIn)
<1> DEFINE tx == Transaction(c)
           f == [i \in DOMAIN tx |-> tx[i].bytes]
           g == WeightsOf(tx, BytesIn)
           S == 1 .. Len(tx)
<1>1. tx \in Seq(Parts) /\ DOMAIN tx = S /\ Len(tx) \in Nat /\ \A i \in S : tx[i] \in Parts
  BY LenProperties
<1>2. BytesOf(c) = 12 + SumFunctionOnSet(f, S)
  BY <1>1 DEF BytesOf, SumFunction
<1>3. IsFiniteSet(S)
  BY <1>1, FS_Interval
<1> HIDE DEF tx
<1>4. ASSUME NEW i \in S PROVE f[i] = g[i] /\ f[i] \in Int
  <2>1. g[i] = BytesIn[tx[i]] /\ f[i] = tx[i].bytes
    BY <1>1 DEF WeightsOf
  <2>2. tx[i].bytes \in Nat /\ BytesIn[tx[i]] = tx[i].bytes
    BY <1>1 DEF BytesIn, Parts
  <2> QED BY <2>1, <2>2
<1> HIDE DEF f, g, S
<1>5. SumFunctionOnSet(f, S) = SumFunctionOnSet(g, S)
  BY <1>3, <1>4, SumSame
<1> QED BY <1>2, <1>5 DEF Weigh, tx, g, S

\* Both forms are parts in a row.
LEMMA FormParts ==
    ASSUME NEW j, IsJob(j), NEW t \in 0 .. 5
    PROVE  Transaction(FormOf(j, t)) \in Seq(Parts)
<1>1. /\ Layout!OpenInput(j) \in Parts /\ Layout!OpenInput(j).kind = "open_input"
      /\ Layout!ClosedInput(j) \in Parts /\ Layout!ClosedInput(j).kind = "input"
  BY InputParts
<1>2. Trail(j, t) \in Seq(Outs) /\ Those(j, Leads(j, t)) \in Seq(Outs)
  BY TrailType, ThoseTypes
<1> DEFINE open == Layout!OpenInput(j)
           closed == Layout!ClosedInput(j)
           trail == Trail(j, t)
           lead == Those(j, Leads(j, t))
           body == ClosedBody(lead, trail)
<1>3. trail \in Seq(Bodies) /\ Transaction(OpenForm(open, trail)) = Framed(open, trail)
  BY <1>1, <1>2, OpenParts
<1>4. body \in Seq(Bodies) /\ Transaction(ClosedForm(closed, lead, trail)) = Framed(closed, body)
  BY <1>1, <1>2, ClosedParts
<1> HIDE DEF body
<1>5. Framed(open, trail) \in Seq(Parts)
  <2>1. Counted(Framed(open, trail), open, trail, Len(trail))
    BY <1>1, <1>3, BodyIsCounted
  <2> QED BY <2>1 DEF Counted
<1>6. Framed(closed, body) \in Seq(Parts)
  <2>1. Counted(Framed(closed, body), closed, body, Len(body))
    BY <1>1, <1>4, BodyIsCounted
  <2> QED BY <2>1 DEF Counted
<1> QED BY <1>3, <1>4, <1>5, <1>6 DEF FormOf

-----------------------------------------------------------------------------
(* The bytes of a shared coinbase *)

\* The bytes of the parts that are always written.
LEMMA FixedWeights ==
    ASSUME NEW j, IsJob(j), NEW n \in 0 .. 252
    PROVE  /\ BytesIn[Layout!Sequence] = 4 /\ BytesIn[Layout!LockTime] = 4 /\ BytesIn[Layout!Extranonce] = 13
           /\ BytesIn[Layout!Count(n)] = 1
           /\ BytesIn[Layout!OpenInput(j)] = 45 + j.inputLen /\ BytesIn[Layout!ClosedInput(j)] = 42 + j.inputLen
<1>1. /\ Layout!Sequence.bytes = 4 /\ Layout!LockTime.bytes = 4 /\ Layout!Extranonce.bytes = 13
      /\ Layout!Count(n).bytes = 1
  BY DEF Layout!Sequence, Layout!LockTime, Layout!Extranonce, Layout!Count, Layout!VarIntLen, Layout!Part
<1>2. Layout!OpenInput(j).bytes = 45 + j.inputLen /\ Layout!ClosedInput(j).bytes = 42 + j.inputLen
  <2>1. j.inputLen \in Nat
    BY DEF IsJob
  <2> QED BY <2>1 DEF Layout!OpenInput, Layout!ClosedInput, Layout!Part
<1>3. Layout!Sequence \in Parts /\ Layout!LockTime \in Parts /\ Layout!Extranonce \in Parts /\ Layout!Count(n) \in Parts
  BY FixedParts
<1>4. Layout!OpenInput(j) \in Parts /\ Layout!ClosedInput(j) \in Parts
  BY InputParts
<1> QED BY <1>1, <1>2, <1>3, <1>4 DEF BytesIn

\* The pool's output, or the dead one, and the commitments.
LEMMA PoolBytes ==
    ASSUME NEW j, IsJob(j), j.poolLen = 22, NEW paid \in Nat
    PROVE  Weigh(PoolParts(j, paid), BytesIn) \in {74, 93}
<1> DEFINE first == IF j.value > paid THEN Layout!Output(j.value - paid, j.poolLen) ELSE Layout!DeadOutput
           a == Layout!Witness
           b == Layout!Signet
<1>1. j.value \in Nat
  BY DEF IsJob
<1>2. first \in Parts /\ first.bytes \in {12, 31}
  <2>1. CASE j.value > paid
    <3>1. j.value - paid \in Nat /\ j.poolLen \in Nat
      BY <1>1, <2>1
    <3>2. Layout!Output(j.value - paid, j.poolLen) \in Outs
      BY <3>1, FixedParts
    <3> QED BY <2>1, <3>2 DEF Outs, Layout!Output, Layout!Part
  <2>2. CASE ~(j.value > paid)
    <3>1. Layout!DeadOutput \in Outs /\ Layout!DeadOutput.bytes = 12
      BY FixedParts DEF Layout!DeadOutput, Layout!Output, Layout!Part
    <3> QED BY <2>2, <3>1 DEF Outs
  <2> QED BY <2>1, <2>2
<1>3. /\ a \in Parts /\ a.bytes = 47
      /\ b \in Parts /\ b.bytes = 15
  BY FixedParts DEF Outs, Layout!Witness, Layout!Signet, Layout!Output, Layout!Part
<1>4. PoolParts(j, paid) = <<first, a, b>>
  BY DEF PoolParts
<1> HIDE DEF first, a, b
<1>5. BytesIn[first] \in {12, 31} /\ BytesIn[a] = 47 /\ BytesIn[b] = 15
  BY <1>2, <1>3 DEF BytesIn
<1>6. Weigh(<<first, a, b>>, BytesIn) = BytesIn[first] + BytesIn[a] + BytesIn[b]
  BY <1>2, <1>3, BytesMatch, WeighThree DEF Matches
<1> QED BY <1>4, <1>5, <1>6

\* The bytes of the chosen outputs.
ChosenBytes(j, t) == SumFunctionOnSet(WeightsOf(j.outputs, CostOf), TheScan(j, t).chosen)

\* They are no more than there is room for.
LEMMA ChosenFit ==
    ASSUME NEW j, IsJob(j), NEW t \in 0 .. 5
    PROVE  /\ ChosenBytes(j, t) \in Nat
           /\ ChosenBytes(j, t) = 0 \/ ChosenBytes(j, t) <= Layout!FitToTemplate(j, t)
<1> DEFINE f == WeightsOf(j.outputs, CostOf)
           p == TheScan(j, t)
           room == Layout!FitToTemplate(j, t)
<1>1. p \in ScanStates(j) /\ ScanKeeps(j, room, p)
  BY SharedTypes
<1>2. p.chosen \in SUBSET (1 .. Len(j.outputs)) /\ p.room \in Int
  BY <1>1, ScanStateParts
<1>3. room \in Int
  BY FitType
<1>4. \A k \in 1 .. Len(j.outputs) : f[k] \in Nat
  <2>1. \A k \in 1 .. Len(j.outputs) : j.outputs[k] \in Pays
    BY DEF IsJob
  <2> QED BY <2>1 DEF WeightsOf, CostOf, Pays
<1>5. IsFiniteSet(p.chosen)
  <2>1. Len(j.outputs) \in Nat
    BY DEF IsJob
  <2>2. IsFiniteSet(1 .. Len(j.outputs))
    BY <2>1, FS_Interval
  <2> QED BY <1>2, <2>2, FS_Subset
<1>6. SumFunctionOnSet(f, p.chosen) \in Nat
  <2>1. \A k \in p.chosen : f[k] \in Nat
    BY <1>2, <1>4
  <2> HIDE DEF f, p
  <2> QED BY <1>5, <2>1, SumNat
<1>7. /\ p.room = room - SumFunctionOnSet(f, p.chosen)
      /\ p.chosen # {} => p.room >= 0
  BY <1>1 DEF ScanKeeps
<1>8. CASE p.chosen = {}
  BY <1>8, SumOfNone DEF ChosenBytes
<1>9. CASE p.chosen # {}
  <2> HIDE DEF f, room
  <2>1. SumFunctionOnSet(f, p.chosen) <= room
    BY <1>2, <1>3, <1>6, <1>7, <1>9
  <2> QED BY <1>6, <2>1 DEF ChosenBytes, f, room
<1> QED BY <1>6, <1>8, <1>9 DEF ChosenBytes

\* What is left for outputs is within the type's size and the template's weight.
LEMMA FitIsBounded ==
    ASSUME NEW j, IsJob(j), NEW t \in 0 .. 5
    PROVE  LET fit == Layout!FitToTemplate(j, t)
               fixed == Layout!FixedBytes(j, t)
           IN  /\ fit = 0 \/ fit <= Layout!MaxSize[t] - fixed
               /\ fit >= 31 => 4 * (fit + fixed) + j.txWeight + 376 <= WeightLimit
<1> DEFINE m == Layout!MaxSize[t]
           fixed == Layout!FixedBytes(j, t)
           fit == Layout!FitToTemplate(j, t)
           bySize == SizeLimit - (j.txSize + 85 + 36) - fixed
           spare == WeightLimit - (j.txWeight + 340 + 36)
           byWeight == spare \div 4 - fixed
           all == m + fixed
           tooBig == all + j.txSize + 85 + 36 > SizeLimit
           tooHeavy == 4 * all + j.txWeight + 340 + 36 > WeightLimit
           room == IF tooHeavy THEN byWeight ELSE IF tooBig THEN bySize ELSE all
<1>1. fit = IF (tooBig /\ bySize < 0) \/ (tooHeavy /\ byWeight < 0) THEN 0
            ELSE IF room < m - fixed THEN room ELSE m - fixed
  BY DEF Layout!FitToTemplate
<1>2. m \in Nat /\ fixed \in Nat /\ fit \in Int
  BY FitType
<1>3. j.txSize \in Nat /\ j.txWeight \in Nat /\ SizeLimit \in Nat /\ WeightLimit \in Nat
  BY LimitsAssumption DEF IsJob
<1> HIDE DEF m, fixed, fit
<1>4. spare \in Int /\ spare \div 4 \in Int /\ 4 * (spare \div 4) <= spare
  BY <1>3
<1>5. fit = 0 \/ fit <= m - fixed
  <2>1. room \in Int
    BY <1>2, <1>3, <1>4
  <2> HIDE DEF room, tooBig, tooHeavy, bySize, byWeight
  <2> QED BY <1>1, <1>2, <2>1
<1>6. ASSUME fit >= 31 PROVE 4 * (fit + fixed) + j.txWeight + 376 <= WeightLimit
  <2>1. fit <= m - fixed
    BY <1>2, <1>5, <1>6
  <2>2. CASE tooHeavy
    <3>1. fit <= spare \div 4 - fixed
      <4>1. byWeight \in Int /\ room = byWeight
        BY <1>2, <1>4, <2>2
      <4> HIDE DEF room, tooBig, tooHeavy, bySize
      <4>2. fit <= byWeight
        <5> HIDE DEF byWeight
        <5> QED BY <1>1, <1>2, <1>6, <4>1
      <4> QED BY <4>2
    <3> DEFINE quarter == spare \div 4
    <3>2. quarter \in Int /\ 4 * quarter <= spare /\ fit <= quarter - fixed
      BY <1>4, <3>1
    <3> HIDE DEF quarter
    <3> QED BY <1>2, <1>3, <3>2
  <2>3. CASE ~tooHeavy
    BY <1>2, <1>3, <2>1, <2>3
  <2> QED BY <2>2, <2>3
<1> QED BY <1>5, <1>6 DEF m, fixed, fit
\* There are no more places than there are.
LEMMA PlacesAreFew ==
    ASSUME NEW n \in Nat, NEW p \in SUBSET (1 .. n)
    PROVE  Cardinality(p) \in Nat /\ Cardinality(p) <= n
<1>1. IsFiniteSet(1 .. n) /\ Cardinality(1 .. n) = n
  <2>1. 1 \in Int /\ n \in Int
    OBVIOUS
  <2>2. IsFiniteSet(1 .. n) /\ Cardinality(1 .. n) = IF 1 > n THEN 0 ELSE n - 1 + 1
    BY <2>1, FS_Interval
  <2> QED BY <2>2
<1>2. IsFiniteSet(p) /\ Cardinality(p) <= Cardinality(1 .. n)
  BY <1>1, FS_Subset
<1>3. Cardinality(p) \in Nat
  BY <1>2, FS_CardinalityType
<1> QED BY <1>1, <1>2, <1>3

\* There are no more chosen outputs than outputs.
LEMMA ChosenCount ==
    ASSUME NEW j, IsJob(j), NEW t \in 0 .. 5
    PROVE  /\ Cardinality(TheScan(j, t).chosen) \in Nat
           /\ Cardinality(TheScan(j, t).chosen) <= Len(j.outputs)
<1>1. TheScan(j, t).chosen \in SUBSET (1 .. Len(j.outputs)) /\ Len(j.outputs) \in Nat
  BY SharedTypes, ScanStateParts DEF IsJob
<1> QED BY <1>1, PlacesAreFew

\* The bytes of an open form whose outputs take trail: 54 and the input are fixed.
LEMMA OpenFormBytes ==
    ASSUME NEW j, IsJob(j), NEW outs \in Seq(Outs), Len(outs) <= 252
    PROVE  /\ Weigh(Transaction(OpenForm(Layout!OpenInput(j), outs)), BytesIn) =
                  54 + j.inputLen + Weigh(outs, BytesIn)
           /\ Weigh(outs, BytesIn) \in Int
<1> DEFINE input == Layout!OpenInput(j)
           n == Len(outs)
           c == Layout!Count(n)
           q == Layout!Sequence
           l == Layout!LockTime
           w == BytesIn
<1>1. n \in 0 .. 252
  <2>1. n \in Nat
    BY LenProperties
  <2> HIDE DEF input, c, q, l, w, n
  <2>2. n <= 252
    BY DEF n
  <2> QED BY <2>1, <2>2
<1>2. w \in Weights(Parts)
  BY BytesMatch DEF Matches
<1>3. input \in Parts
  BY InputParts
<1>4. w[q] = 4 /\ w[l] = 4 /\ w[c] = 1 /\ w[input] = 45 + j.inputLen
  <2> HIDE DEF n
  <2> QED BY <1>1, FixedWeights
<1>5. j.inputLen \in Nat
  BY DEF IsJob
<1> HIDE DEF input, w
<1>6. /\ Weigh(Transaction(OpenForm(input, outs)), w) = w[input] + w[q] + w[c] + Weigh(outs, w) + w[l]
      /\ Weigh(outs, w) \in Int
  BY <1>2, <1>3, OpenFormWeighs
<1> HIDE DEF c, q, l
<1>7. Weigh(Transaction(OpenForm(input, outs)), w) = 54 + j.inputLen + Weigh(outs, w)
  BY <1>4, <1>5, <1>6
<1> QED BY <1>6, <1>7 DEF input, w

\* Of a closed one, 64 and the input.
LEMMA ClosedFormBytes ==
    ASSUME NEW j, IsJob(j), NEW lead \in Seq(Outs), NEW trail \in Seq(Outs), Len(lead) + Len(trail) <= 251
    PROVE  /\ Weigh(Transaction(ClosedForm(Layout!ClosedInput(j), lead, trail)), BytesIn) =
                  64 + j.inputLen + Weigh(lead, BytesIn) + Weigh(trail, BytesIn)
           /\ Weigh(lead, BytesIn) \in Int /\ Weigh(trail, BytesIn) \in Int
<1> DEFINE input == Layout!ClosedInput(j)
           n == Len(lead) + Len(trail) + 1
           c == Layout!Count(n)
           q == Layout!Sequence
           l == Layout!LockTime
           x == Layout!Extranonce
           w == BytesIn
<1>1. n \in 0 .. 252
  <2>1. Len(lead) \in Nat /\ Len(trail) \in Nat
    BY LenProperties
  <2>2. n \in Nat /\ n <= 252
    BY <2>1
  <2> HIDE DEF input, c, q, l, x, w, n
  <2> QED BY <2>2
<1>2. w \in Weights(Parts)
  BY BytesMatch DEF Matches
<1>3. input \in Parts
  BY InputParts
<1>4. w[q] = 4 /\ w[l] = 4 /\ w[c] = 1 /\ w[x] = 13 /\ w[input] = 42 + j.inputLen
  <2> HIDE DEF n
  <2> QED BY <1>1, FixedWeights
<1>5. j.inputLen \in Nat
  BY DEF IsJob
<1> HIDE DEF input, w
<1>6. /\ Weigh(Transaction(ClosedForm(input, lead, trail)), w) =
             w[input] + w[q] + w[c] + (Weigh(lead, w) + w[x] + Weigh(trail, w)) + w[l]
      /\ Weigh(lead, w) \in Int /\ Weigh(trail, w) \in Int
  BY <1>2, <1>3, ClosedFormWeighs
<1> HIDE DEF n, c, q, l, x
<1> DEFINE all == Weigh(Transaction(ClosedForm(input, lead, trail)), w)
           a == Weigh(lead, w)
           d == Weigh(trail, w)
           len == j.inputLen
<1>7. all = 64 + len + a + d
  <2>1. all = 42 + len + 4 + 1 + (a + 13 + d) + 4
    BY <1>4, <1>6
  <2>2. len \in Nat /\ a \in Int /\ d \in Int
    BY <1>5, <1>6
  <2> HIDE DEF all, a, d, len
  <2> QED BY <2>1, <2>2
<1> QED BY <1>6, <1>7 DEF input, w

\* Beside the chosen outputs the code counts all parts but eighteen bytes.
LEMMA FormBytes ==
    ASSUME NEW j, IsJob(j), j.poolLen = 22, Len(j.outputs) <= 248, NEW t \in 0 .. 5
    PROVE  12 + Weigh(Transaction(FormOf(j, t)), BytesIn) <= Layout!FixedBytes(j, t) + ChosenBytes(j, t) + 18
<1> DEFINE L == Leads(j, t)
           S == TheScan(j, t).chosen
           lead == Those(j, L)
           trail == Trail(j, t)
           open == Layout!OpenInput(j)
           closed == Layout!ClosedInput(j)
           a == Weigh(lead, BytesIn)
           b == Weigh(Those(j, S \ L), BytesIn)
           p == Weigh(PoolParts(j, TheScan(j, t).sum), BytesIn)
           d == Weigh(trail, BytesIn)
           cost == ChosenBytes(j, t)
           len == j.inputLen
           fixed == Layout!FixedBytes(j, t)
           n == Cardinality(S)
<1>1. a + b = cost /\ a \in Int /\ b \in Int
  <2>1. InTwoParts(BytesIn, CostOf, j, t)
    BY BytesMatch, ChosenWeigh
  <2> QED BY <2>1 DEF InTwoParts, ChosenBytes
<1>2. d = b + p
  <2>1. BytesIn \in Weights(Parts)
    BY BytesMatch DEF Matches
  <2> QED BY <2>1, TrailWeigh
<1>3. p \in {74, 93}
  <2>1. TheScan(j, t).sum \in Nat
    BY TrailType
  <2> QED BY <2>1, PoolBytes
<1>4. trail \in Seq(Outs) /\ lead \in Seq(Outs)
  BY TrailType, ThoseTypes
<1>5. n \in Nat /\ n <= 248
  <2>1. n \in Nat /\ n <= Len(j.outputs)
    BY ChosenCount
  <2>2. Len(j.outputs) \in Nat
    BY DEF IsJob
  <2> HIDE DEF n
  <2> QED BY <2>1, <2>2
<1>6. /\ Len(lead) + Len(trail) = n + 3
      /\ L = {} => Len(trail) = n + 3
  BY CountOfChosen
<1>7. len \in Nat /\ fixed = 141 + len + (IF t = 2 \/ ~Layout!SpaceForExtranonce(j) THEN 10 ELSE 0)
  BY DEF IsJob, Layout!FixedBytes
<1>8. CASE IsOpen(j, t)
  <2> DEFINE all == Weigh(Transaction(OpenForm(open, trail)), BytesIn)
  <2>1. L = {}
    <3>1. CASE t # 2
      BY <3>1 DEF Leads
    <3>2. CASE j.outputs = <<>>
      <4>1. L \in SUBSET S /\ S \in SUBSET (1 .. Len(j.outputs))
        BY SharedTypes, ScanStateParts
      <4>2. 1 .. Len(j.outputs) = {}
        BY <3>2
      <4> QED BY <4>1, <4>2
    <3> QED BY <1>8, <3>1, <3>2 DEF IsOpen
  <2>2. lead = <<>>
    BY <2>1, ThoseOfNone
  <2>3. a = 0
    BY <2>2, WeighNone
  <2>4. FormOf(j, t) = OpenForm(open, trail)
    BY <1>8 DEF FormOf
  <2>5. Len(trail) <= 252
    <3> HIDE DEF n, trail
    <3> QED BY <1>5, <1>6, <2>1
  <2>6. all = 54 + len + d
    <3> HIDE DEF trail
    <3> QED BY <1>4, <2>5, OpenFormBytes
  <2> HIDE DEF all, a, b, p, d, cost, len, fixed
  <2>7. fixed >= 141 + len /\ fixed \in Int
    BY <1>7
  <2>8. 12 + all <= fixed + cost + 18
    BY <1>1, <1>2, <1>3, <1>7, <2>3, <2>6, <2>7
  <2> QED BY <2>4, <2>8 DEF all, fixed, cost
<1>9. CASE ~IsOpen(j, t)
  <2> DEFINE all == Weigh(Transaction(ClosedForm(closed, lead, trail)), BytesIn)
  <2>1. FormOf(j, t) = ClosedForm(closed, lead, trail)
    BY <1>9 DEF FormOf
  <2>2. t = 2 \/ ~Layout!SpaceForExtranonce(j)
    BY <1>9 DEF IsOpen
  <2>3. Len(lead) + Len(trail) <= 251
    <3> HIDE DEF n, trail, lead
    <3> QED BY <1>5, <1>6
  <2>4. all = 64 + len + a + d
    <3> HIDE DEF trail, lead
    <3> QED BY <1>4, <2>3, ClosedFormBytes
  <2> HIDE DEF all, a, b, p, d, cost, len, fixed
  <2>5. fixed = 151 + len
    BY <1>7, <2>2
  <2>6. 12 + all <= fixed + cost + 18
    BY <1>1, <1>2, <1>3, <1>7, <2>4, <2>5
  <2> QED BY <2>1, <2>6 DEF all, fixed, cost
<1> QED BY <1>8, <1>9

\* What the bytes depend on: the service has sent no more outputs than its slots, the
\* miner's and the pool's.
LEMMA JobIsSmall ==
    ASSUME NEW r \in Requests
    PROVE  /\ Len(JobOf(r).outputs) <= 248 /\ JobOf(r).inputLen \in 0 .. 100
           /\ JobOf(r).txWeight = r.template[2]
<1> DEFINE plain == [inputLen |-> Layout!InputLen(4, r.tags, r.uidLen),
                     value |-> r.total, poolLen |-> 22, outputs |-> <<>>,
                     txSize |-> r.template[1], txWeight |-> r.template[2]]
           all == Sent(r, PoolFeeAddress)
           sent == Answered("job", all)
           places == {k \in DOMAIN sent : Layout!Convertible(sent[k])}
           kept == Layout!Picked(sent, places)
           tags == r.tags
           a == tags[1]
           b == tags[2]
<1>1. all \in Seq(Pays) /\ Len(all) \in Nat /\ Len(all) <= 248
  <2> DEFINE total == Asked(r.total)
             ranked == r.ranked
             outs == BuildOutputs(PoolFeeAddress, total, RankedIn(r))
             n == FilledSlots(ranked) + 2
  <2>1. all \in Seq(Pays)
    BY SentType
  <2>2. ranked \in Nat
    BY RequestsAssumption
  <2>3. FilledSlots(ranked) \in Nat /\ DOMAIN outs = 1 .. n
    <3>1. outs = BuildOutputs(PoolFeeAddress, total, [i \in 1 .. ranked |-> i])
      BY DEF RankedIn
    <3> HIDE DEF total, ranked, outs
    <3>2. HasShape(outs, PoolFeeAddress, total, ranked)
      BY <2>2, <3>1, OutputsShape
    <3> QED BY <3>2 DEF HasShape
  <2>4. FilledSlots(ranked) <= MaxRankedSlots
    BY <2>2, SlotsAssumption DEF FilledSlots
  <2>5. DOMAIN all = 1 .. n
    BY <2>3 DEF Sent
  <2> HIDE DEF all
  <2>6. Len(all) \in Nat /\ DOMAIN all = 1 .. Len(all)
    BY <2>1, LenProperties
  <2>7. Len(all) = n
    <3>1. n \in Nat
      BY <2>3
    <3> HIDE DEF n
    <3> QED BY <2>5, <2>6, <3>1
  <2> QED BY <2>1, <2>3, <2>4, <2>6, <2>7, SlotsAssumption, OutputsAssumption
<1> HIDE DEF all
<1>2. sent \in Seq(Pays) /\ Len(sent) \in Nat /\ Len(sent) <= 248
  <2> DEFINE none == <<>>
  <2>1. none \in Seq(Pays) /\ Len(none) \in Nat /\ Len(none) <= 248
    OBVIOUS
  <2>2. sent = all \/ sent = none
    BY DEF Answered
  <2> HIDE DEF sent, none
  <2> QED BY <1>1, <2>1, <2>2
<1> HIDE DEF sent, places
<1>3. Len(kept) \in Nat /\ Len(kept) <= 248
  <2>1. Len(kept) = Cardinality(places \cap (1 .. Len(sent)))
    BY <1>2, PickedLen
  <2> DEFINE p == places \cap (1 .. Len(sent))
             n == Len(sent)
  <2>2. p \in SUBSET (1 .. n) /\ n \in Nat
    BY <1>2
  <2> HIDE DEF p, n
  <2>3. Cardinality(p) \in Nat /\ Cardinality(p) <= n
    BY <2>2, PlacesAreFew
  <2> QED BY <1>2, <2>1, <2>3 DEF p, n
<1>4. a \in 0 .. 83 /\ b \in Nat /\ tags = <<a, b>> /\ r.uidLen \in {4, 8}
  BY RequestsAssumption
<1>5. Layout!InputLen(4, tags, r.uidLen) \in 0 .. 100
  <2> HIDE DEF tags, a, b
  <2> QED BY <1>4, InputFits
<1>6. JobOf(r) = [plain EXCEPT !.outputs = kept]
  BY DEF JobOf, Layout!JobWithOutputs, sent, places, all
<1> HIDE DEF kept
<1>7. /\ JobOf(r).outputs = kept
      /\ JobOf(r).inputLen = Layout!InputLen(4, tags, r.uidLen)
      /\ JobOf(r).txWeight = r.template[2]
  BY <1>6
<1> QED BY <1>3, <1>5, <1>7

\* The bytes of a job's coinbase, and its weight in the template.
LEMMA FormIsBounded ==
    ASSUME NEW j, IsJob(j), j.poolLen = 22, Len(j.outputs) <= 248, j.inputLen <= 100, NEW t \in 0 .. 5
    PROVE  LET bytes == 12 + Weigh(Transaction(FormOf(j, t)), BytesIn)
               fit == Layout!FitToTemplate(j, t)
           IN  /\ bytes <= Layout!MaxSize[t] + 18
               /\ fit >= 31 => 4 * (80 + 3 + bytes) + 36 + j.txWeight <= WeightLimit + 64
<1> DEFINE b == Weigh(Transaction(FormOf(j, t)), BytesIn)
           fit == Layout!FitToTemplate(j, t)
           fixed == Layout!FixedBytes(j, t)
           m == Layout!MaxSize[t]
           cost == ChosenBytes(j, t)
           tw == j.txWeight
<1>1. 12 + b <= fixed + cost + 18
  BY FormBytes
<1>2. cost \in Nat /\ (cost = 0 \/ cost <= fit)
  BY ChosenFit
<1>3. /\ fit = 0 \/ fit <= m - fixed
      /\ fit >= 31 => 4 * (fit + fixed) + tw + 376 <= WeightLimit
  BY FitIsBounded
<1>4. fit \in Int /\ fixed \in Nat /\ m \in Nat
  BY FitType
<1>5. tw \in Nat /\ WeightLimit \in Nat
  BY LimitsAssumption DEF IsJob
<1>6. fixed <= 251
  BY DEF IsJob, Layout!FixedBytes
<1>7. m >= 500
  BY DEF Layout!MaxSize, Layout!Types
<1>8. b \in Int
  <2>1. Transaction(FormOf(j, t)) \in Seq(Parts)
    BY FormParts
  <2>2. BytesIn \in [Parts -> Int]
    BY BytesMatch DEF Matches, Weights
  <2> HIDE DEF b
  <2> QED BY <2>1, <2>2, WeighType DEF b
<1> HIDE DEF b, fit, fixed, m, cost, tw
<1>9. 12 + b <= m + 18
  BY <1>1, <1>2, <1>3, <1>4, <1>6, <1>7, <1>8
<1>10. ASSUME fit >= 31 PROVE 4 * (80 + 3 + (12 + b)) + 36 + tw <= WeightLimit + 64
  <2>1. cost <= fit
    BY <1>2, <1>4, <1>10
  <2>2. 12 + b <= fixed + fit + 18
    BY <1>1, <1>2, <1>4, <1>8, <2>1
  <2>3. 4 * (fit + fixed) + tw + 376 <= WeightLimit
    BY <1>3, <1>10
  <2> QED BY <1>4, <1>5, <1>8, <2>2, <2>3
<1> QED BY <1>9, <1>10 DEF b, fit, m, tw

\* A coinbase is eighteen bytes longer than its type's maximum at most, and one with
\* outputs weighs no more beyond the template's limit.
THEOREM OverrunsAreBounded == CoinbaseSpec => []OverrunIsBounded
<1>1. CoinbaseInv /\ AsWritten => OverrunIsBounded
  <2> SUFFICES ASSUME CoinbaseInv, AsWritten, generated, ~Garbled PROVE OverrunIsBounded
    BY DEF OverrunIsBounded
  <2> DEFINE t == request.type
             c == coinbases.shared
             b == Weigh(Transaction(FormOf(job, t)), BytesIn)
  <2>1. request \in Requests /\ t \in 0 .. 5
    BY RequestsAssumption DEF CoinbaseInv
  <2>2. /\ IsJob(job) /\ job.poolLen = 22 /\ Len(job.outputs) <= 248 /\ job.inputLen <= 100
        /\ job.txWeight = request.template[2]
    <3>1. job = JobOf(request)
      BY DEF AsWritten
    <3>2. IsJob(JobOf(request)) /\ JobOf(request).poolLen = 22
      BY <2>1, JobIsJob
    <3>3. /\ Len(JobOf(request).outputs) <= 248 /\ JobOf(request).inputLen \in 0 .. 100
          /\ JobOf(request).txWeight = request.template[2]
      BY <2>1, JobIsSmall
    <3> DEFINE j == JobOf(request)
    <3> HIDE DEF j, t, c, b
    <3>4. IsJob(j) /\ j.poolLen = 22 /\ Len(j.outputs) <= 248 /\ j.txWeight = request.template[2]
      BY <3>2, <3>3 DEF j
    <3>5. j.inputLen <= 100
      <4>1. j.inputLen \in 0 .. 100
        BY <3>3 DEF j
      <4> DEFINE len == j.inputLen
      <4> HIDE DEF len
      <4>2. len \in 0 .. 100
        BY <4>1 DEF len
      <4>3. len <= 100
        BY <4>2
      <4> QED BY <4>3 DEF len
    <3> QED BY <3>1, <3>4, <3>5, Zenon DEF j
  <2>3. c = FormOf(job, t) /\ paying = Layout!FitToTemplate(job, t)
    <3>1. ~Behind(job, t)
      BY DEF Garbled, Behind
    <3> QED BY <2>1, <2>2, <3>1, SharedForm DEF AsWritten
  <2> HIDE DEF t
  <2>4. BytesOf(c) = 12 + b
    <3>1. Transaction(FormOf(job, t)) \in Seq(Parts)
      BY <2>1, <2>2, FormParts
    <3> QED BY <2>3, <3>1, BytesAreWeight
  <2> HIDE DEF b, c
  <2>5. /\ 12 + b <= Layout!MaxSize[t] + 18
        /\ paying >= 31 => 4 * (80 + 3 + (12 + b)) + 36 + job.txWeight <= WeightLimit + 64
    BY <2>1, <2>2, <2>3, FormIsBounded DEF b
  <2>6. paying \in Int
    BY <2>1, <2>2, <2>3, FitType
  <2> QED BY <2>2, <2>4, <2>5, <2>6 DEF OverrunIsBounded, c, t
<1> QED BY <1>1, WrittenOnce, PTL

-----------------------------------------------------------------------------
(* What is kept of a row *)

\* The elements of a sequence that are in a set, in their order.
Kept(s, U) == Layout!Picked(s, {i \in 1 .. Len(s) : s[i] \in U})

\* Of nothing, nothing is.
LEMMA KeptNone ==
    ASSUME NEW U
    PROVE  Kept(<<>>, U) = <<>>
  BY PickedNone DEF Kept

\* One more element is kept or not.
KeptStep(s, x, U) == Kept(Append(s, x), U) = IF x \in U THEN Append(Kept(s, U), x) ELSE Kept(s, U)

\* It is kept in its place.
LEMMA KeptMore ==
    ASSUME NEW T, NEW s \in Seq(T), NEW x \in T, NEW U
    PROVE  /\ Kept(s, U) \in Seq(T) /\ Kept(Append(s, x), U) \in Seq(T)
           /\ KeptStep(s, x, U)
<1> DEFINE n == Len(s)
           v == Append(s, x)
           I == {i \in 1 .. n : s[i] \in U}
           J == {i \in 1 .. Len(v) : v[i] \in U}
<1>1. n \in Nat /\ v \in Seq(T) /\ Len(v) = n + 1 /\ v[n + 1] = x /\ \A i \in 1 .. n : v[i] = s[i]
  BY AppendFacts
<1> HIDE DEF v
<1>2. I \cap (1 .. n) = J \cap (1 .. n) /\ (n + 1 \in J <=> x \in U)
  BY <1>1
<1> HIDE DEF I, J
<1>3. Layout!Picked(s, I) = Layout!Picked(s, J)
  BY <1>2, PickedSame
<1>4. /\ Layout!Picked(s, J) \in Seq(T)
      /\ Layout!Picked(v, J) = IF n + 1 \in J THEN Append(Layout!Picked(s, J), x) ELSE Layout!Picked(s, J)
  BY PickedMore DEF v
<1>5. Kept(s, U) = Layout!Picked(s, I) /\ Kept(v, U) = Layout!Picked(v, J)
  BY DEF Kept, I, J
<1>6. Layout!Picked(v, J) \in Seq(T)
  BY <1>1, PickedLen
<1>7. Kept(v, U) = IF x \in U THEN Append(Kept(s, U), x) ELSE Kept(s, U)
  BY <1>2, <1>3, <1>4, <1>5
<1> QED BY <1>3, <1>4, <1>5, <1>6, <1>7 DEF v, KeptStep

\* Of two sequences in a row what is kept of each is.
LEMMA KeptCat ==
    ASSUME NEW T, NEW s \in Seq(T), NEW t \in Seq(T), NEW U
    PROVE  Kept(Cat(s, t), U) = Cat(Kept(s, U), Kept(t, U)) /\ Kept(s, U) \in Seq(T)
<1> DEFINE G == {u \in Seq(T) : Kept(Cat(s, u), U) = Cat(Kept(s, U), Kept(u, U))}
           none == <<>>
<1>1. Kept(s, U) \in Seq(T)
  BY PickedLen DEF Kept
<1>2. none \in G
  <2>1. none \in Seq(T) /\ Cat(s, none) = s
    BY DEF Cat
  <2>2. Kept(none, U) = none
    BY KeptNone
  <2>3. Cat(Kept(s, U), none) = Kept(s, U)
    BY <1>1 DEF Cat
  <2> QED BY <2>1, <2>2, <2>3
<1>3. ASSUME NEW u \in G, NEW x \in T PROVE Append(u, x) \in G
  <2> DEFINE su == Cat(s, u)
             v == Append(u, x)
             ks == Kept(s, U)
             ku == Kept(u, U)
  <2>1. u \in Seq(T) /\ v \in Seq(T) /\ su \in Seq(T)
    BY AppendFacts DEF Cat
  <2>2. Cat(s, v) = Append(su, x)
    BY <2>1 DEF Cat
  <2>3. Kept(su, U) = Cat(ks, ku) /\ ks \in Seq(T)
    BY <1>1
  <2> HIDE DEF su
  <2>4. /\ Kept(Append(su, x), U) = IF x \in U THEN Append(Kept(su, U), x) ELSE Kept(su, U)
        /\ Kept(v, U) = IF x \in U THEN Append(ku, x) ELSE ku
        /\ ku \in Seq(T)
    <3>1. su \in Seq(T)
      BY <2>1
    <3>2. KeptStep(su, x, U)
      BY <3>1, KeptMore
    <3>3. u \in Seq(T)
      BY <2>1
    <3>4. KeptStep(u, x, U) /\ Kept(u, U) \in Seq(T)
      <4> HIDE DEF v, ks, ku
      <4> QED BY <3>3, KeptMore
    <3> QED BY <3>2, <3>4 DEF KeptStep
  <2> HIDE DEF v, ks, ku
  <2>5. Cat(ks, Append(ku, x)) = Append(Cat(ks, ku), x)
    BY <2>3, <2>4 DEF Cat
  <2>6. Kept(Cat(s, v), U) = Cat(ks, Kept(v, U))
    BY <2>2, <2>3, <2>4, <2>5
  <2> QED BY <2>1, <2>6 DEF v, ks
<1>4. none = <<>> /\ G \in SUBSET Seq(T)
  OBVIOUS
<1> HIDE DEF G, none
<1>5. t \in G
  BY <1>2, <1>3, <1>4, AllSequences
<1> QED BY <1>1, <1>5 DEF G

\* Of three.
LEMMA KeptJoined ==
    ASSUME NEW T, NEW s \in Seq(T), NEW t \in Seq(T), NEW u \in Seq(T), NEW U
    PROVE  Kept(Joined(s, t, u), U) = Joined(Kept(s, U), Kept(t, U), Kept(u, U))
<1> DEFINE st == Cat(s, t)
<1>1. st \in Seq(T) /\ Joined(s, t, u) = Cat(st, u)
  BY CatFacts
<1>2. Kept(st, U) = Cat(Kept(s, U), Kept(t, U)) /\ Kept(s, U) \in Seq(T) /\ Kept(t, U) \in Seq(T) /\ Kept(u, U) \in Seq(T)
  BY KeptCat
<1> HIDE DEF st
<1>3. Kept(Cat(st, u), U) = Cat(Kept(st, U), Kept(u, U))
  BY <1>1, KeptCat
<1>4. Joined(Kept(s, U), Kept(t, U), Kept(u, U)) = Cat(Cat(Kept(s, U), Kept(t, U)), Kept(u, U))
  BY DEF Joined, Cat
<1> QED BY <1>1, <1>2, <1>3, <1>4

\* Of one element.
LEMMA KeptOne ==
    ASSUME NEW T, NEW a \in T, NEW U
    PROVE  Kept(<<a>>, U) = IF a \in U THEN <<a>> ELSE <<>>
<1> DEFINE none == <<>>
<1>1. none \in Seq(T) /\ <<a>> = Append(none, a) /\ Kept(none, U) = none
  BY KeptNone
<1> HIDE DEF none
<1>2. Kept(Append(none, a), U) = IF a \in U THEN Append(Kept(none, U), a) ELSE Kept(none, U)
  <2>1. none \in Seq(T)
    BY <1>1
  <2>2. KeptStep(none, a, U)
    BY <2>1, KeptMore
  <2> QED BY <2>2 DEF KeptStep
<1> QED BY <1>1, <1>2 DEF none

\* Of three, when only the first may be.
LEMMA KeptFirst ==
    ASSUME NEW T, NEW a \in T, NEW b \in T, NEW c \in T, NEW U, b \notin U, c \notin U
    PROVE  Kept(<<a, b, c>>, U) = IF a \in U THEN <<a>> ELSE <<>>
<1> DEFINE s == <<a>>
           t == <<b>>
           u == <<c>>
           none == <<>>
<1>1. s \in Seq(T) /\ t \in Seq(T) /\ u \in Seq(T) /\ none \in Seq(T)
  OBVIOUS
<1>2. <<a, b, c>> = Joined(s, t, u)
  <2>1. <<a>> \o <<b>> = <<a, b>>
    BY TwoInRow
  <2>2. <<a, b>> \o <<c>> = <<a, b, c>>
    BY ThreeInRow
  <2> QED BY <2>1, <2>2 DEF Joined
<1>3. Kept(s, U) = (IF a \in U THEN s ELSE none) /\ Kept(t, U) = none /\ Kept(u, U) = none
  BY KeptOne
<1>4. Joined(s, none, none) = s /\ Joined(none, none, none) = none
  BY <1>1 DEF Joined
<1> HIDE DEF s, t, u, none
<1>5. Kept(Joined(s, t, u), U) = Joined(Kept(s, U), Kept(t, U), Kept(u, U))
  BY <1>1, KeptJoined
<1>6. Kept(Joined(s, t, u), U) = IF a \in U THEN s ELSE none
  BY <1>3, <1>4, <1>5
<1> QED BY <1>2, <1>6 DEF s, none

\* What is picked at the first places and at others behind them is what is picked at all.
LEMMA PickedCut ==
    ASSUME NEW T, NEW s \in Seq(T), NEW A \in SUBSET Nat, NEW B \in SUBSET Nat,
           \A i \in A : \A k \in B : i < k
    PROVE  Cat(Layout!Picked(s, A), Layout!Picked(s, B)) = Layout!Picked(s, A \cup B)
<1> DEFINE P(u, I) == Layout!Picked(u, I)
           G == {u \in Seq(T) : Cat(P(u, A), P(u, B)) = P(u, A \cup B)}
           none == <<>>
<1>1. none \in G
  <2>1. P(none, A) = none /\ P(none, B) = none /\ P(none, A \cup B) = none
    BY PickedNone
  <2>2. none \in Seq(T) /\ Cat(none, none) = none
    BY DEF Cat
  <2> QED BY <2>1, <2>2
<1>2. ASSUME NEW u \in G, NEW x \in T PROVE Append(u, x) \in G
  <2> DEFINE n == Len(u)
             v == Append(u, x)
  <2>1. u \in Seq(T) /\ n \in Nat /\ v \in Seq(T) /\ Len(v) = n + 1
    BY AppendFacts
  <2>2. Cat(P(u, A), P(u, B)) = P(u, A \cup B)
    OBVIOUS
  <2>3. \A I : P(v, I) = (IF n + 1 \in I THEN Append(P(u, I), x) ELSE P(u, I)) /\ P(u, I) \in Seq(T)
    BY <2>1, PickedMore
  <2> HIDE DEF v, P, n
  <2>4. CASE n + 1 \in B
    <3>1. n + 1 \notin A
      BY <2>1, <2>4
    <3>2. P(v, A) = P(u, A) /\ P(v, B) = Append(P(u, B), x) /\ P(v, A \cup B) = Append(P(u, A \cup B), x)
      BY <2>3, <2>4, <3>1
    <3> DEFINE a == P(u, A)
               b == P(u, B)
    <3>3. a \in Seq(T) /\ b \in Seq(T)
      BY <2>3
    <3> HIDE DEF a, b
    <3>4. Cat(a, Append(b, x)) = Append(Cat(a, b), x)
      BY <3>3 DEF Cat
    <3> QED BY <2>1, <2>2, <3>2, <3>4 DEF a, b, v
  <2>5. CASE n + 1 \in A
    <3>1. n + 1 \notin B
      BY <2>1, <2>5
    <3>2. P(v, A) = Append(P(u, A), x) /\ P(v, B) = P(u, B) /\ P(v, A \cup B) = Append(P(u, A \cup B), x)
      BY <2>3, <2>5, <3>1
    <3>3. B \cap (1 .. n) = {}
      BY <2>1, <2>5
    <3>4. P(u, B) = none
      <4>1. P(u, B) \in Seq(T) /\ Len(P(u, B)) = Cardinality(B \cap (1 .. Len(u)))
        BY <2>1, PickedLen DEF P
      <4>2. Len(P(u, B)) = 0
        BY <3>3, <4>1, FS_EmptySet DEF n
      <4> QED BY <4>1, <4>2
    <3> DEFINE a == P(u, A)
    <3>5. a \in Seq(T)
      BY <2>3
    <3> HIDE DEF a
    <3>6. Cat(a, none) = a /\ Cat(Append(a, x), none) = Append(a, x)
      BY <3>5, AppendFacts DEF Cat
    <3> QED BY <2>1, <2>2, <3>2, <3>4, <3>6 DEF a, v
  <2>6. CASE n + 1 \notin A /\ n + 1 \notin B
    <3>1. P(v, A) = P(u, A) /\ P(v, B) = P(u, B) /\ P(v, A \cup B) = P(u, A \cup B)
      BY <2>3, <2>6
    <3> QED BY <2>1, <2>2, <3>1 DEF v
  <2> QED BY <2>4, <2>5, <2>6
<1>3. none = <<>> /\ G \in SUBSET Seq(T)
  OBVIOUS
<1> HIDE DEF G, none
<1>4. s \in G
  BY <1>1, <1>2, <1>3, AllSequences
<1> QED BY <1>4 DEF G

\* What is picked from elements of a set is of it.
LEMMA PickedWithin ==
    ASSUME NEW T, NEW s \in Seq(T), NEW I, NEW U \in SUBSET T, \A i \in I \cap (1 .. Len(s)) : s[i] \in U
    PROVE  Layout!Picked(s, I) \in Seq(U)
<1> DEFINE P(u) == Layout!Picked(u, I)
           Fine(u) == \A i \in I \cap (1 .. Len(u)) : u[i] \in U
           G == {u \in Seq(T) : Fine(u) => P(u) \in Seq(U)}
           none == <<>>
<1>1. none \in G
  <2>1. P(none) = none
    BY PickedNone
  <2>2. none \in Seq(T) /\ none \in Seq(U)
    OBVIOUS
  <2> QED BY <2>1, <2>2
<1>2. ASSUME NEW u \in G, NEW x \in T PROVE Append(u, x) \in G
  <2> DEFINE n == Len(u)
             v == Append(u, x)
  <2>1. u \in Seq(T) /\ n \in Nat /\ v \in Seq(T) /\ Len(v) = n + 1 /\ v[n + 1] = x /\ \A i \in 1 .. n : v[i] = u[i]
    BY AppendFacts
  <2>2. P(v) = IF n + 1 \in I THEN Append(P(u), x) ELSE P(u)
    BY <2>1, PickedMore
  <2>3. Fine(u) => P(u) \in Seq(U)
    OBVIOUS
  <2> HIDE DEF v, P
  <2>4. ASSUME Fine(v) PROVE Fine(u) /\ (n + 1 \in I => x \in U)
    BY <2>1, <2>4
  <2>5. ASSUME Fine(v) PROVE P(v) \in Seq(U)
    <3>1. P(u) \in Seq(U) /\ (n + 1 \in I => x \in U)
      BY <2>3, <2>4, <2>5
    <3>2. n + 1 \in I => Append(P(u), x) \in Seq(U)
      BY <3>1, AppendFacts
    <3> QED BY <2>2, <3>1, <3>2
  <2> QED BY <2>1, <2>5 DEF v
<1>3. none = <<>> /\ G \in SUBSET Seq(T)
  OBVIOUS
<1> HIDE DEF G, none
<1>4. s \in G
  BY <1>1, <1>2, <1>3, AllSequences
<1> QED BY <1>4 DEF G

-----------------------------------------------------------------------------
(* Who is paid by a shared coinbase *)

\* Outputs that pay anything, written and to be written.
PaidParts == {p \in Parts : p.kind = "output" /\ p.value > 0}
OwingPays == {o \in Pays : o.value > 0}

\* What is kept of a transaction is what is kept of its outputs.
LEMMA FramedKept ==
    ASSUME NEW input \in Parts, input.kind # "output", NEW body \in Seq(Parts)
    PROVE  Kept(Framed(input, body), PaidParts) = Kept(body, PaidParts)
<1> DEFINE q == Layout!Sequence
           c == Layout!Count(Len(body))
           l == Layout!LockTime
           s == <<input, q, c>>
           u == <<l>>
           U == PaidParts
           none == <<>>
<1>1. /\ q \in Parts /\ c \in Parts /\ l \in Parts
      /\ q.kind # "output" /\ c.kind # "output" /\ l.kind # "output"
  <2>1. Len(body) \in Nat
    OBVIOUS
  <2> QED BY <2>1, FixedParts
<1>2. Framed(input, body) = Joined(s, body, u)
  BY DEF Framed
<1>3. input \notin U /\ q \notin U /\ c \notin U /\ l \notin U
  BY <1>1 DEF PaidParts
<1> HIDE DEF q, c, l, U
<1>4. s \in Seq(Parts) /\ u \in Seq(Parts)
  BY <1>1
<1>5. Kept(s, U) = none
  <2>1. q \in Parts /\ c \in Parts /\ q \notin U /\ c \notin U
    BY <1>1, <1>3
  <2>2. Kept(<<input, q, c>>, U) = IF input \in U THEN <<input>> ELSE <<>>
    BY <2>1, KeptFirst
  <2> QED BY <1>3, <2>2
<1>6. Kept(u, U) = none
  BY <1>1, <1>3, KeptOne
<1> HIDE DEF s, u
<1>7. Kept(Joined(s, body, u), U) = Joined(Kept(s, U), Kept(body, U), Kept(u, U))
  BY <1>4, KeptJoined
<1>8. Kept(body, U) \in Seq(Parts)
  BY PickedLen DEF Kept
<1> DEFINE k == Kept(body, U)
<1> HIDE DEF k
<1>9. Joined(none, k, none) = k
  BY <1>8 DEF k, Joined
<1> QED BY <1>2, <1>5, <1>6, <1>7, <1>9 DEF k, U

\* So in the open form,
LEMMA OpenFormKept ==
    ASSUME NEW input \in Parts, input.kind # "output", NEW outs \in Seq(Outs)
    PROVE  Kept(Transaction(OpenForm(input, outs)), PaidParts) = Kept(outs, PaidParts)
<1>1. outs \in Seq(Parts) /\ Transaction(OpenForm(input, outs)) = Framed(input, outs)
  BY OpenParts DEF Outs
<1> QED BY <1>1, FramedKept

\* and in the closed one.
LEMMA ClosedFormKept ==
    ASSUME NEW input \in Parts, input.kind # "output", NEW lead \in Seq(Outs), NEW trail \in Seq(Outs)
    PROVE  Kept(Transaction(ClosedForm(input, lead, trail)), PaidParts) =
               Cat(Kept(lead, PaidParts), Kept(trail, PaidParts))
<1> DEFINE x == Layout!Extranonce
           e == <<x>>
           body == ClosedBody(lead, trail)
           U == PaidParts
           none == <<>>
<1>1. lead \in Seq(Parts) /\ trail \in Seq(Parts) /\ x \in Parts /\ x \notin U
  BY FixedParts DEF Outs, PaidParts
<1>2. body \in Seq(Bodies) /\ Transaction(ClosedForm(input, lead, trail)) = Framed(input, body)
  BY ClosedParts
<1>3. body \in Seq(Parts)
  <2> HIDE DEF body
  <2> QED BY <1>2 DEF Bodies
<1>4. body = Joined(lead, e, trail)
  BY DEF ClosedBody
<1> HIDE DEF body, x, U
<1>5. Kept(Framed(input, body), PaidParts) = Kept(body, PaidParts)
  BY <1>3, FramedKept
<1>6. e \in Seq(Parts) /\ Kept(e, U) = none
  BY <1>1, KeptOne
<1> HIDE DEF e
<1>7. Kept(Joined(lead, e, trail), U) = Joined(Kept(lead, U), Kept(e, U), Kept(trail, U))
  BY <1>1, <1>6, KeptJoined
<1>8. Kept(lead, U) \in Seq(Parts) /\ Kept(trail, U) \in Seq(Parts)
  BY <1>1, PickedLen DEF Kept
<1> DEFINE a == Kept(lead, U)
           b == Kept(trail, U)
<1> HIDE DEF a, b
<1>9. Joined(a, none, b) = Cat(a, b)
  BY <1>8 DEF a, b, Joined, Cat
<1> QED BY <1>2, <1>4, <1>5, <1>6, <1>7, <1>9 DEF a, b, U

\* What is kept of what is picked.
LEMMA KeptOfPicked ==
    ASSUME NEW T, NEW s \in Seq(T), NEW I, NEW U
    PROVE  Kept(Layout!Picked(s, I), U) = Layout!Picked(s, {i \in I \cap (1 .. Len(s)) : s[i] \in U})
<1> DEFINE J(u) == {i \in I \cap (1 .. Len(u)) : u[i] \in U}
           P(u) == Layout!Picked(u, I)
           G == {u \in Seq(T) : Kept(P(u), U) = Layout!Picked(u, J(u))}
           none == <<>>
<1>1. none \in G
  <2>1. P(none) = none /\ Layout!Picked(none, J(none)) = none /\ Kept(none, U) = none
    BY PickedNone, KeptNone
  <2>2. none \in Seq(T)
    OBVIOUS
  <2> QED BY <2>1, <2>2
<1>2. ASSUME NEW u \in G, NEW x \in T PROVE Append(u, x) \in G
  <2> DEFINE n == Len(u)
             v == Append(u, x)
             A == J(u)
             B == J(v)
  <2>1. u \in Seq(T) /\ n \in Nat /\ v \in Seq(T) /\ Len(v) = n + 1 /\ v[n + 1] = x /\ \A i \in 1 .. n : v[i] = u[i]
    BY AppendFacts
  <2>2. P(v) = (IF n + 1 \in I THEN Append(P(u), x) ELSE P(u)) /\ P(u) \in Seq(T)
    BY <2>1, PickedMore
  <2>3. Kept(P(u), U) = Layout!Picked(u, A)
    OBVIOUS
  <2> HIDE DEF v, P
  <2>4. A \cap (1 .. n) = B \cap (1 .. n) /\ (n + 1 \in B <=> n + 1 \in I /\ x \in U)
    BY <2>1
  <2> HIDE DEF A, B, J
  <2>5. Layout!Picked(u, A) = Layout!Picked(u, B)
    BY <2>1, <2>4, PickedSame
  <2>6. Layout!Picked(v, B) = IF n + 1 \in B THEN Append(Layout!Picked(u, B), x) ELSE Layout!Picked(u, B)
    BY <2>1, PickedMore DEF v
  <2>7. KeptStep(P(u), x, U)
    BY <2>2, KeptMore
  <2>8. Kept(P(v), U) = Layout!Picked(v, B)
    <3>1. CASE n + 1 \in I
      <4>1. Kept(P(v), U) = IF x \in U THEN Append(Kept(P(u), U), x) ELSE Kept(P(u), U)
        BY <2>2, <2>7, <3>1 DEF KeptStep
      <4> QED BY <2>3, <2>4, <2>5, <2>6, <3>1, <4>1
    <3>2. CASE n + 1 \notin I
      BY <2>2, <2>3, <2>4, <2>5, <2>6, <3>2
    <3> QED BY <3>1, <3>2
  <2> QED BY <2>1, <2>8 DEF v, B
<1>3. none = <<>> /\ G \in SUBSET Seq(T)
  OBVIOUS
<1> HIDE DEF G, none
<1>4. s \in G
  BY <1>1, <1>2, <1>3, AllSequences
<1> QED BY <1>4 DEF G

\* One more output written.
LEMMA WrittenMore ==
    ASSUME NEW s \in Seq(Pays), NEW o \in Pays
    PROVE  Layout!Written(Append(s, o)) = Append(Layout!Written(s), Layout!Output(o.value, o.scriptLen))
<1> DEFINE n == Len(s)
           v == Append(s, o)
           p == Layout!Output(o.value, o.scriptLen)
           a == Layout!Written(v)
           ws == Layout!Written(s)
           b == Append(ws, p)
<1>1. n \in Nat /\ v \in Seq(Pays) /\ Len(v) = n + 1 /\ v[n + 1] = o /\ \A i \in 1 .. n : v[i] = s[i]
  BY AppendFacts
<1>2. ws \in Seq(Outs) /\ Len(ws) = n /\ \A i \in 1 .. n : ws[i] = Layout!Output(s[i].value, s[i].scriptLen)
  BY WrittenOuts
<1>3. p \in Outs
  BY FixedParts DEF Pays
<1> HIDE DEF v, p
<1>4. a \in Seq(Outs) /\ Len(a) = n + 1 /\ \A i \in 1 .. n + 1 : a[i] = Layout!Output(v[i].value, v[i].scriptLen)
  BY <1>1, WrittenOuts
<1> HIDE DEF ws, a
<1>5. b \in Seq(Outs) /\ Len(b) = n + 1 /\ b[n + 1] = p /\ \A i \in 1 .. n : b[i] = ws[i]
  BY <1>2, <1>3, AppendFacts
<1> HIDE DEF b
<1>6. \A i \in 1 .. n : a[i] = b[i]
  BY <1>1, <1>2, <1>4, <1>5
<1>7. a[n + 1] = b[n + 1]
  BY <1>1, <1>4, <1>5 DEF p
<1>8. \A i \in 1 .. Len(a) : a[i] = b[i]
  BY <1>1, <1>4, <1>6, <1>7
<1>9. a = b
  BY <1>4, <1>5, <1>8, SeqEqual
<1> QED BY <1>9 DEF a, b, ws, v, p

\* Two sequences of outputs are written in a row.
LEMMA WrittenCat ==
    ASSUME NEW s \in Seq(Pays), NEW t \in Seq(Pays)
    PROVE  Cat(Layout!Written(s), Layout!Written(t)) = Layout!Written(Cat(s, t))
<1> DEFINE W(u) == Layout!Written(u)
           G == {u \in Seq(Pays) : Cat(W(s), W(u)) = W(Cat(s, u))}
           none == <<>>
<1>1. W(s) \in Seq(Outs)
  BY WrittenOuts
<1>2. none \in G
  <2>1. none \in Seq(Pays) /\ Len(none) = 0 /\ Cat(s, none) = s
    BY DEF Cat
  <2>2. W(none) = none
    <3>1. W(none) \in Seq(Outs) /\ Len(W(none)) = 0
      <4> HIDE DEF none
      <4> QED BY <2>1, WrittenOuts
    <3> QED BY <3>1
  <2>3. Cat(W(s), none) = W(s)
    BY <1>1 DEF Cat
  <2> HIDE DEF W, none
  <2>4. Cat(W(s), W(none)) = W(Cat(s, none))
    BY <2>1, <2>2, <2>3
  <2> QED BY <2>1, <2>4 DEF W
<1>3. ASSUME NEW u \in G, NEW o \in Pays PROVE Append(u, o) \in G
  <2> DEFINE su == Cat(s, u)
             v == Append(u, o)
             p == Layout!Output(o.value, o.scriptLen)
             a == W(s)
             b == W(u)
  <2>1. u \in Seq(Pays) /\ v \in Seq(Pays) /\ su \in Seq(Pays) /\ Cat(s, v) = Append(su, o)
    BY AppendFacts DEF Cat
  <2>2. Cat(a, b) = W(su)
    OBVIOUS
  <2>3. W(v) = Append(b, p)
    BY <2>1, WrittenMore
  <2> HIDE DEF su
  <2>4. W(Append(su, o)) = Append(W(su), p)
    BY <2>1, WrittenMore
  <2>5. a \in Seq(Outs) /\ b \in Seq(Outs)
    BY <1>1, <2>1, WrittenOuts
  <2>6. p \in Outs
    BY FixedParts DEF Pays
  <2> HIDE DEF a, b, p
  <2>7. Cat(a, Append(b, p)) = Append(Cat(a, b), p)
    BY <2>5, <2>6 DEF Cat
  <2>8. Cat(a, W(v)) = W(Cat(s, v))
    <3> HIDE DEF W, v
    <3> QED BY <2>1, <2>2, <2>3, <2>4, <2>7
  <2> QED BY <2>1, <2>8 DEF v, a
<1>4. none = <<>> /\ G \in SUBSET Seq(Pays)
  OBVIOUS
<1> HIDE DEF G, none
<1>5. t \in G
  BY <1>2, <1>3, <1>4, AllSequences
<1> QED BY <1>5 DEF G

\* What pays anything when written is what is owed.
LEMMA WrittenKept ==
    ASSUME NEW s \in Seq(Pays)
    PROVE  Kept(Layout!Written(s), PaidParts) = Layout!Written(Kept(s, OwingPays))
<1> DEFINE W(u) == Layout!Written(u)
           G == {u \in Seq(Pays) : Kept(W(u), PaidParts) = W(Kept(u, OwingPays))}
           none == <<>>
<1>1. none \in G
  <2>1. none \in Seq(Pays) /\ Len(none) = 0
    OBVIOUS
  <2>2. W(none) = none
    <3>1. W(none) \in Seq(Outs) /\ Len(W(none)) = 0
      <4> HIDE DEF none
      <4> QED BY <2>1, WrittenOuts
    <3> QED BY <3>1
  <2>3. Kept(none, PaidParts) = none /\ Kept(none, OwingPays) = none
    BY KeptNone
  <2> HIDE DEF W, none
  <2>4. Kept(W(none), PaidParts) = W(Kept(none, OwingPays))
    BY <2>2, <2>3
  <2> QED BY <2>1, <2>4 DEF W
<1>2. ASSUME NEW u \in G, NEW o \in Pays PROVE Append(u, o) \in G
  <2> DEFINE v == Append(u, o)
             p == Layout!Output(o.value, o.scriptLen)
             wu == W(u)
             k == Kept(u, OwingPays)
  <2>1. u \in Seq(Pays) /\ v \in Seq(Pays)
    BY AppendFacts
  <2>2. Kept(wu, PaidParts) = W(k)
    OBVIOUS
  <2>3. W(v) = Append(wu, p)
    BY <2>1, WrittenMore
  <2>4. p \in Outs /\ (p \in PaidParts <=> o \in OwingPays)
    <3>1. o.value \in Nat /\ o.scriptLen \in Nat
      BY DEF Pays
    <3>2. p \in Outs
      BY <3>1, FixedParts
    <3>3. p.value = o.value
      BY DEF Layout!Output, Layout!Part
    <3> QED BY <3>2, <3>3 DEF Outs, PaidParts, OwingPays
  <2>5. wu \in Seq(Outs)
    BY <2>1, WrittenOuts
  <2>6. k \in Seq(Pays)
    BY <2>1, PickedLen DEF Kept
  <2> HIDE DEF p, wu, k
  <2>7. KeptStep(wu, p, PaidParts)
    BY <2>4, <2>5, KeptMore
  <2>8. KeptStep(u, o, OwingPays)
    BY <2>1, KeptMore
  <2>9. W(Append(k, o)) = Append(W(k), p)
    BY <2>6, WrittenMore DEF p
  <2>10. Kept(W(v), PaidParts) = W(Kept(v, OwingPays))
    <3>1. Kept(W(v), PaidParts) = IF p \in PaidParts THEN Append(W(k), p) ELSE W(k)
      BY <2>2, <2>3, <2>7 DEF KeptStep
    <3>2. Kept(v, OwingPays) = IF o \in OwingPays THEN Append(k, o) ELSE k
      BY <2>8 DEF KeptStep, k
    <3> HIDE DEF W, v
    <3> QED BY <2>4, <2>9, <3>1, <3>2
  <2> QED BY <2>1, <2>10 DEF v
<1>3. none = <<>> /\ G \in SUBSET Seq(Pays)
  OBVIOUS
<1> HIDE DEF G, none
<1>4. s \in G
  BY <1>1, <1>2, <1>3, AllSequences
<1> QED BY <1>4 DEF G

\* The places of a job's outputs that owe anything.
Owed(j) == {k \in 1 .. Len(j.outputs) : j.outputs[k].value > 0}

\* What pays anything of the outputs at some places.
LEMMA ThoseKept ==
    ASSUME NEW j, IsJob(j), NEW I
    PROVE  Kept(Those(j, I), PaidParts) = Those(j, I \cap Owed(j))
<1> DEFINE s == j.outputs
           p == Layout!Picked(s, I)
           J == {i \in I \cap (1 .. Len(s)) : s[i] \in OwingPays}
<1>1. s \in Seq(Pays) /\ \A i \in 1 .. Len(s) : s[i] \in Pays
  BY DEF IsJob
<1>2. J = I \cap Owed(j)
  BY <1>1 DEF Owed, OwingPays
<1>3. p \in Seq(Pays)
  BY <1>1, PickedLen
<1>4. Kept(p, OwingPays) = Layout!Picked(s, J)
  <2> HIDE DEF s
  <2> QED BY <1>1, KeptOfPicked
<1>5. Those(j, I) = Layout!Written(p) /\ Those(j, J) = Layout!Written(Layout!Picked(s, J))
  BY DEF Those
<1> HIDE DEF p, J, s
<1>6. Kept(Layout!Written(p), PaidParts) = Layout!Written(Kept(p, OwingPays))
  BY <1>3, WrittenKept
<1> QED BY <1>2, <1>4, <1>5, <1>6

-----------------------------------------------------------------------------
(* When everything fits *)

\* A part of a sum of natural numbers, and one number more.
LEMMA SumWithOneMore ==
    ASSUME NEW f, NEW S, IsFiniteSet(S), \A x \in S : f[x] \in Nat, NEW U \in SUBSET S, NEW i \in S, i \notin U
    PROVE  /\ f[i] + SumFunctionOnSet(f, U) <= SumFunctionOnSet(f, S)
           /\ SumFunctionOnSet(f, U) \in Nat /\ SumFunctionOnSet(f, S) \in Nat /\ f[i] \in Nat
<1> DEFINE V == U \cup {i}
<1>1. IsFiniteSet(U) /\ V \in SUBSET S
  BY FS_Subset
<1>2. \A x \in U : f[x] \in Int
  OBVIOUS
<1>3. f[i] \in Int
  OBVIOUS
<1>4. SumFunctionOnSet(f, V) = f[i] + SumFunctionOnSet(f, U)
  BY <1>1, <1>2, <1>3, SumOfAdded
<1> HIDE DEF V
<1>5. SumFunctionOnSet(f, V) <= SumFunctionOnSet(f, S) /\ SumFunctionOnSet(f, S) \in Nat
  BY <1>1, SumGrows
<1>6. SumFunctionOnSet(f, U) \in Nat
  BY SumGrows
<1> QED BY <1>4, <1>5, <1>6

\* There is room for every output, each has a script, and they sum to no more than the
\* value of the job.
AllFit(j, room) ==
    LET D == 1 .. Len(j.outputs) IN
    /\ \A k \in D : j.outputs[k].scriptLen >= 21
    /\ SumFunctionOnSet(WeightsOf(j.outputs, CostOf), D) <= room
    /\ SumFunctionOnSet(WeightsOf(j.outputs, ValueOf), D) <= j.value

\* Then a pass chooses every output up to the last that owes anything.
ScanWhole(j, k, p) ==
    /\ ~p.over => p.chosen = 1 .. k
    /\ p.over => Owed(j) \in SUBSET p.chosen

\* It does so at each.
LEMMA VisitedWhole ==
    ASSUME NEW j, IsJob(j), NEW k \in 1 .. Len(j.outputs), NEW p \in ScanStates(j), NEW room \in Int,
           ScanKeeps(j, room, p), p.chosen \in SUBSET (1 .. k - 1),
           AllFit(j, room), ScanWhole(j, k - 1, p)
    PROVE  ScanWhole(j, k, Layout!Visited(j, k, p))
<1> DEFINE o == j.outputs[k]
           cost == o.scriptLen + 9
           leads == ~p.leadFull /\ cost <= p.leadRoom
           next == [chosen |-> p.chosen \cup {k},
                    room |-> p.room - cost,
                    sum |-> p.sum + o.value,
                    leading |-> p.leading + (IF leads THEN 1 ELSE 0),
                    leadRoom |-> p.leadRoom - (IF leads THEN cost ELSE 0),
                    leadFull |-> ~leads,
                    over |-> p.room - cost < 30 \/ p.sum + o.value >= j.value]
           q == Layout!Visited(j, k, p)
           values == WeightsOf(j.outputs, ValueOf)
           costs == WeightsOf(j.outputs, CostOf)
           D == 1 .. Len(j.outputs)
<1>1. Len(j.outputs) \in Nat /\ \A i \in D : j.outputs[i] \in Pays
  BY DEF IsJob
<1>2. o.value \in Nat /\ cost \in Nat
  BY <1>1 DEF Pays
<1>3. q = IF p.over \/ cost > p.room \/ ~Layout!StaysWithin(p.sum + o.value, j) THEN p ELSE next
  BY DEF Layout!Visited
<1>4. p.room \in Int /\ p.sum \in Nat /\ j.value \in Nat
  <2>1. p.room \in Int /\ p.sum \in 0 .. j.value
    BY ScanStateParts
  <2> QED BY <2>1 DEF IsJob
<1>5. ScanKeeps(j, room, q)
  BY VisitedKeeps
<1>6. IsFiniteSet(D) /\ \A i \in D : values[i] \in Nat /\ costs[i] \in Nat
  <2>1. IsFiniteSet(D)
    BY <1>1, FS_Interval
  <2> QED BY <1>1, <2>1 DEF WeightsOf, ValueOf, CostOf, Pays
<1>7. ASSUME NEW i \in D
      PROVE  /\ values[i] = j.outputs[i].value /\ costs[i] = j.outputs[i].scriptLen + 9 /\ costs[i] >= 30
  <2>1. values[i] = j.outputs[i].value /\ costs[i] = j.outputs[i].scriptLen + 9
    BY <1>1 DEF WeightsOf, ValueOf, CostOf
  <2>2. j.outputs[i].scriptLen >= 21 /\ j.outputs[i].scriptLen \in Nat
    BY <1>1 DEF AllFit, Pays
  <2> QED BY <2>1, <2>2
<1>8. /\ SumFunctionOnSet(costs, D) <= room
      /\ SumFunctionOnSet(values, D) <= j.value
  BY DEF AllFit
<1>9. CASE p.over
  BY <1>3, <1>9 DEF ScanWhole
<1>10. CASE ~p.over
  <2>1. p.chosen = 1 .. k - 1
    BY <1>10 DEF ScanWhole
  <2>2. p.chosen \in SUBSET D /\ k \in D /\ k \notin p.chosen
    BY <1>1, <2>1
  <2>3. /\ p.sum = SumFunctionOnSet(values, p.chosen)
        /\ p.room = room - SumFunctionOnSet(costs, p.chosen)
    BY DEF ScanKeeps
  <2>4. costs[k] = cost /\ values[k] = o.value
    BY <1>7
  <2> HIDE DEF values, costs, D, next, cost, o
  <2>5. /\ costs[k] + SumFunctionOnSet(costs, p.chosen) <= SumFunctionOnSet(costs, D)
        /\ SumFunctionOnSet(costs, p.chosen) \in Nat /\ SumFunctionOnSet(costs, D) \in Nat
    <3>1. \A i \in D : costs[i] \in Nat
      BY <1>6
    <3> QED BY <1>6, <2>2, <3>1, SumWithOneMore
  <2>6. /\ values[k] + SumFunctionOnSet(values, p.chosen) <= SumFunctionOnSet(values, D)
        /\ SumFunctionOnSet(values, p.chosen) \in Nat /\ SumFunctionOnSet(values, D) \in Nat
    <3>1. \A i \in D : values[i] \in Nat
      BY <1>6
    <3> QED BY <1>6, <2>2, <3>1, SumWithOneMore
  <2>7. ~(cost > p.room)
    BY <1>2, <1>4, <1>8, <2>3, <2>4, <2>5
  <2>8. p.sum + o.value \in 0 .. j.value
    <3>1. o.value + p.sum <= j.value
      BY <1>2, <1>4, <1>8, <2>3, <2>4, <2>6 DEF o
    <3> DEFINE v == o.value
    <3> HIDE DEF v
    <3>2. v \in Nat /\ v + p.sum <= j.value
      BY <1>2, <3>1 DEF v
    <3>3. p.sum + v \in 0 .. j.value
      BY <1>4, <3>2
    <3> QED BY <3>3 DEF v
  <2>9. q = next
    BY <1>3, <1>10, <2>7, <2>8 DEF Layout!StaysWithin
  <2>10. q.chosen = 1 .. k
    <3>1. q.chosen = p.chosen \cup {k}
      BY <2>9 DEF next
    <3>2. 1 .. k = (1 .. k - 1) \cup {k}
      BY <1>1
    <3> QED BY <2>1, <3>1, <3>2
  <2>11. q.over = (q.room < 30 \/ q.sum >= j.value)
    <3>1. /\ next.over = (p.room - cost < 30 \/ p.sum + o.value >= j.value)
          /\ next.room = p.room - cost /\ next.sum = p.sum + o.value
      BY DEF next
    <3> HIDE DEF q, next
    <3>2. q.over = (p.room - cost < 30 \/ p.sum + o.value >= j.value) /\ q.room = p.room - cost /\ q.sum = p.sum + o.value
      BY <2>9, <3>1
    <3> QED BY <3>2
  <2>12. /\ q.sum = SumFunctionOnSet(values, q.chosen)
         /\ q.room = room - SumFunctionOnSet(costs, q.chosen)
    BY <1>5 DEF ScanKeeps, values, costs
  <2> HIDE DEF q
  <2>13. ASSUME q.over, NEW i \in Owed(j) PROVE i \in q.chosen
    <3> SUFFICES ASSUME i \notin q.chosen PROVE FALSE
      OBVIOUS
    <3>1. i \in D /\ j.outputs[i].value > 0
      BY DEF Owed, D
    <3>2. q.chosen \in SUBSET D
      BY <1>1, <2>10 DEF D
    <3>3. /\ costs[i] + SumFunctionOnSet(costs, q.chosen) <= SumFunctionOnSet(costs, D)
          /\ SumFunctionOnSet(costs, q.chosen) \in Nat /\ SumFunctionOnSet(costs, D) \in Nat
          /\ costs[i] \in Nat
      <4>1. \A x \in D : costs[x] \in Nat
        BY <1>6
      <4> QED BY <1>6, <3>1, <3>2, <4>1, SumWithOneMore
    <3>4. /\ values[i] + SumFunctionOnSet(values, q.chosen) <= SumFunctionOnSet(values, D)
          /\ SumFunctionOnSet(values, q.chosen) \in Nat /\ SumFunctionOnSet(values, D) \in Nat
          /\ values[i] \in Nat
      <4>1. \A x \in D : values[x] \in Nat
        BY <1>6
      <4> QED BY <1>6, <3>1, <3>2, <4>1, SumWithOneMore
    <3>5. costs[i] >= 30 /\ values[i] > 0
      BY <1>7, <3>1
    <3>6. ~(q.room < 30)
      BY <1>8, <2>12, <3>3, <3>5
    <3>7. ~(q.sum >= j.value)
      BY <1>4, <1>8, <2>12, <3>4, <3>5
    <3> QED BY <2>11, <2>13, <3>6, <3>7
  <2> QED BY <2>10, <2>13 DEF ScanWhole, q
<1> QED BY <1>9, <1>10

\* So at the end everyone who is owed anything is chosen.
LEMMA OwedAreChosen ==
    ASSUME NEW j, IsJob(j), NEW room \in Int, NEW leadRoom \in Int, AllFit(j, room)
    PROVE  Owed(j) \in SUBSET Layout!Scan(j, room, leadRoom).chosen
<1> DEFINE n == Len(j.outputs)
           Good(k, p) == ScanKeeps(j, room, p) /\ p.chosen \in SUBSET (1 .. k) /\ ScanWhole(j, k, p)
<1>1. n \in Nat
  BY DEF IsJob
<1>2. PICK c \in ScanRuns(j, room, leadRoom) : Layout!Scan(j, room, leadRoom) = c[n]
  BY ScanSteps
<1>3. /\ c \in [0 .. n -> ScanStates(j)] /\ c[0] = Unvisited(room, leadRoom)
      /\ \A k \in 1 .. n : c[k] = Layout!Visited(j, k, c[k - 1])
  BY DEF ScanRuns
<1> DEFINE G == {k \in Nat : k <= n => Good(k, c[k])}
<1>4. 0 \in G
  <2>1. c[0].chosen = {} /\ c[0].sum = 0 /\ c[0].room = room /\ c[0].over = FALSE
    BY <1>3 DEF Unvisited
  <2>2. /\ SumFunctionOnSet(WeightsOf(j.outputs, ValueOf), {}) = 0
        /\ SumFunctionOnSet(WeightsOf(j.outputs, CostOf), {}) = 0
    BY SumOfNone
  <2>3. ScanKeeps(j, room, c[0])
    BY <2>1, <2>2 DEF ScanKeeps
  <2>4. ScanWhole(j, 0, c[0])
    BY <2>1 DEF ScanWhole
  <2> QED BY <2>1, <2>3, <2>4
<1>5. ASSUME NEW k \in G PROVE k + 1 \in G
  <2> SUFFICES ASSUME k + 1 <= n
               PROVE  Good(k + 1, c[k + 1])
    OBVIOUS
  <2> DEFINE m == k + 1
  <2>1. m \in 1 .. n /\ m - 1 = k /\ k \in 0 .. n /\ Good(k, c[k])
    BY <1>1
  <2>2. c[m] = Layout!Visited(j, m, c[k]) /\ c[k] \in ScanStates(j)
    BY <1>3, <2>1
  <2> HIDE DEF m
  <2> DEFINE p == c[k]
  <2>3. /\ m \in 1 .. Len(j.outputs) /\ p \in ScanStates(j) /\ ScanKeeps(j, room, p)
        /\ p.chosen \in SUBSET (1 .. m - 1) /\ ScanWhole(j, m - 1, p) /\ c[m] = Layout!Visited(j, m, p)
    BY <2>1, <2>2
  <2> HIDE DEF p
  <2>4. ScanKeeps(j, room, c[m]) /\ c[m].chosen \in SUBSET (1 .. m)
    BY <2>3, VisitedKeeps
  <2>5. ScanWhole(j, m, c[m])
    BY <2>3, VisitedWhole
  <2> QED BY <2>4, <2>5 DEF m
<1> HIDE DEF G
<1>6. \A k \in Nat : k \in G
  BY <1>4, <1>5, AllNumbers DEF G
<1>7. ScanWhole(j, n, c[n])
  BY <1>1, <1>6 DEF G
<1>8. c[n].over \in BOOLEAN
  BY <1>1, <1>3, ScanStateParts
<1> QED BY <1>2, <1>7, <1>8 DEF ScanWhole, Owed

-----------------------------------------------------------------------------
(* The reward that a shared coinbase pays *)

\* What is sent sums to the reward asked for.
LEMMA SentSum ==
    ASSUME NEW r \in Requests, NEW miner \in {PoolFeeAddress, r.miner}
    PROVE  Weigh(Sent(r, miner), ValueOf) = Asked(r.total)
<1> DEFINE sent == Sent(r, miner)
           total == Asked(r.total)
           ranked == r.ranked
           outs == BuildOutputs(miner, total, RankedIn(r))
           n == FilledSlots(ranked) + 2
           f == Amounts(outs)
           g == WeightsOf(sent, ValueOf)
<1>1. /\ sent \in Seq(Pays) /\ DOMAIN sent = 1 .. n /\ DOMAIN outs = 1 .. n /\ n \in Nat
      /\ \A i \in 1 .. n : sent[i].value = outs[i].amount
  BY SentShape
<1>2. SumOf(outs) = total
  <2>1. r.total \in Nat /\ ranked \in Nat
    BY RequestsAssumption
  <2>2. total \in Nat
    BY <2>1 DEF Asked, SubsidySats
  <2>3. outs = BuildOutputs(miner, total, [i \in 1 .. ranked |-> i])
    BY DEF RankedIn
  <2> HIDE DEF total, ranked, outs
  <2> QED BY <2>1, <2>2, <2>3, OutputsSum
<1> HIDE DEF n, sent, outs
<1>3. Len(sent) = n
  <2>1. Len(sent) \in Nat /\ DOMAIN sent = 1 .. Len(sent)
    BY <1>1, LenProperties
  <2> QED BY <1>1, <2>1
<1>4. ASSUME NEW i \in 1 .. n PROVE f[i] = g[i] /\ f[i] \in Int
  <2>1. sent[i] \in Pays
    BY <1>1, <1>3
  <2>2. f[i] = outs[i].amount /\ g[i] = ValueOf[sent[i]]
    BY <1>1, <1>3 DEF Amounts, WeightsOf
  <2>3. ValueOf[sent[i]] = sent[i].value /\ sent[i].value \in Nat
    BY <2>1 DEF ValueOf, Pays
  <2> QED BY <1>1, <2>2, <2>3
<1>5. SumOf(outs) = SumFunctionOnSet(f, 1 .. n)
  BY <1>1 DEF SumOf, SumFunction, Amounts
<1>6. IsFiniteSet(1 .. n)
  BY <1>1, FS_Interval
<1> HIDE DEF f, g
<1>7. SumFunctionOnSet(f, 1 .. n) = SumFunctionOnSet(g, 1 .. n)
  BY <1>4, <1>6, SumSame
<1> QED BY <1>2, <1>3, <1>5, <1>7 DEF Weigh, g, sent

\* A job's outputs are those of the answer that have a script: of 21 bytes or more; and they
\* sum to no more than was asked for.
LEMMA JobOutputs ==
    ASSUME NEW r \in Requests
    PROVE  LET outs == JobOf(r).outputs
               sent == Answered("job", Sent(r, PoolFeeAddress))
           IN  /\ outs = Layout!Picked(sent, {k \in DOMAIN sent : Layout!Convertible(sent[k])})
               /\ outs \in Seq(Pays)
               /\ \A k \in 1 .. Len(outs) : outs[k].scriptLen >= 21
               /\ Weigh(outs, ValueOf) <= Asked(r.total)
<1> DEFINE plain == [inputLen |-> Layout!InputLen(4, r.tags, r.uidLen),
                     value |-> r.total, poolLen |-> 22, outputs |-> <<>>,
                     txSize |-> r.template[1], txWeight |-> r.template[2]]
           all == Sent(r, PoolFeeAddress)
           sent == Answered("job", all)
           I == {k \in DOMAIN sent : Layout!Convertible(sent[k])}
           kept == Layout!Picked(sent, I)
           T == {o \in Pays : o.scriptLen = 0 \/ o.scriptLen >= 21}
           U == {o \in Pays : o.scriptLen >= 21}
           none == <<>>
<1>1. JobOf(r) = [plain EXCEPT !.outputs = kept]
  BY DEF JobOf, Layout!JobWithOutputs
<1>2. JobOf(r).outputs = kept
  BY <1>1
<1>3. all \in Seq(Pays) /\ \A i \in 1 .. Len(all) : all[i] \in T
  <2> DEFINE n == FilledSlots(r.ranked) + 2
  <2>1. all \in Seq(Pays) /\ DOMAIN all = 1 .. n /\ \A i \in 1 .. n : all[i].scriptLen = 0 \/ all[i].scriptLen >= 21
    BY SentShape
  <2> HIDE DEF n, all
  <2>2. DOMAIN all = 1 .. Len(all) /\ \A i \in 1 .. Len(all) : all[i] \in Pays
    BY <2>1, LenProperties
  <2> QED BY <2>1, <2>2
<1>4. Weigh(all, ValueOf) = Asked(r.total)
  BY SentSum
<1>5. Asked(r.total) \in Nat
  BY RequestsAssumption DEF Asked, SubsidySats
<1> HIDE DEF all
<1>6. sent = all \/ sent = none
  BY DEF Answered
<1>7. /\ sent \in Seq(Pays) /\ \A i \in 1 .. Len(sent) : sent[i] \in T
      /\ Weigh(sent, ValueOf) <= Asked(r.total)
  <2>1. CASE sent = all
    <3> HIDE DEF sent
    <3>1. Weigh(sent, ValueOf) <= Asked(r.total)
      BY <1>4, <1>5, <2>1
    <3> QED BY <1>3, <2>1, <3>1
  <2>2. CASE sent = none
    <3>1. none \in Seq(Pays) /\ Len(none) = 0
      OBVIOUS
    <3>2. Weigh(none, ValueOf) = 0
      BY WeighNone
    <3> HIDE DEF sent, none
    <3>3. Weigh(sent, ValueOf) <= Asked(r.total)
      BY <1>5, <2>2, <3>2
    <3>4. 1 .. Len(sent) = {}
      BY <2>2, <3>1
    <3> QED BY <2>2, <3>1, <3>3, <3>4
  <2> QED BY <1>6, <2>1, <2>2
<1> HIDE DEF sent
<1>8. kept \in Seq(Pays) /\ \A k \in 1 .. Len(kept) : kept[k] \in U
  <2>1. \A i \in I \cap (1 .. Len(sent)) : sent[i] \in U
    BY <1>7 DEF Layout!Convertible
  <2>2. U \in SUBSET Pays
    OBVIOUS
  <2> HIDE DEF I, U
  <2>3. kept \in Seq(Pays)
    BY <1>7, PickedLen
  <2>4. kept \in Seq(U)
    BY <1>7, <2>1, <2>2, PickedWithin
  <2> HIDE DEF kept
  <2>5. \A k \in 1 .. Len(kept) : kept[k] \in U
    BY <2>4
  <2> QED BY <2>3, <2>5
<1>9. Weigh(kept, ValueOf) <= Weigh(sent, ValueOf)
  <2> DEFINE D == 1 .. Len(sent)
             J == I \cap D
             f == WeightsOf(sent, ValueOf)
  <2>1. ValueOf \in [Pays -> Int]
    BY DEF ValueOf, Pays
  <2>2. Weigh(kept, ValueOf) = SumFunctionOnSet(f, J)
    <3> HIDE DEF I
    <3> QED BY <1>7, <2>1, PickedWeigh
  <2>3. IsFiniteSet(D) /\ \A i \in D : f[i] \in Nat
    <3>1. Len(sent) \in Nat /\ \A i \in D : sent[i] \in Pays
      BY <1>7, LenProperties
    <3>2. IsFiniteSet(D)
      BY <3>1, FS_Interval
    <3> QED BY <3>1, <3>2 DEF WeightsOf, ValueOf, Pays
  <2>4. J \in SUBSET D
    OBVIOUS
  <2> HIDE DEF I, J, f, D
  <2>5. SumFunctionOnSet(f, J) <= SumFunctionOnSet(f, D)
    BY <2>3, <2>4, SumGrows
  <2> QED BY <2>2, <2>5 DEF Weigh, f, D
<1>10. Weigh(kept, ValueOf) <= Asked(r.total)
  <2>1. Weigh(kept, ValueOf) \in Int /\ Weigh(sent, ValueOf) \in Int
    <3>1. ValueOf \in [Pays -> Int]
      BY DEF ValueOf, Pays
    <3> HIDE DEF kept
    <3> QED BY <1>7, <1>8, <3>1, WeighType
  <2> HIDE DEF kept
  <2> QED BY <1>5, <1>7, <1>9, <2>1
<1>11. \A k \in 1 .. Len(kept) : kept[k].scriptLen >= 21
  BY <1>8
<1> QED BY <1>2, <1>8, <1>10, <1>11 DEF kept, I, sent, all

\* Whom a shared coinbase pays: the chosen outputs that owe anything, and the pool.
LEMMA FormKept ==
    ASSUME NEW j, IsJob(j), NEW t \in 0 .. 5
    PROVE  LET chosen == TheScan(j, t).chosen IN
           Kept(Transaction(FormOf(j, t)), PaidParts) =
               Cat(Those(j, chosen \cap Owed(j)), Kept(PoolParts(j, TheScan(j, t).sum), PaidParts))
<1> DEFINE L == Leads(j, t)
           S == TheScan(j, t).chosen
           R == S \ L
           O == Owed(j)
           U == PaidParts
           pool == PoolParts(j, TheScan(j, t).sum)
           lead == Those(j, L)
           rest == Those(j, R)
           trail == Trail(j, t)
           open == Layout!OpenInput(j)
           closed == Layout!ClosedInput(j)
           kp == Kept(pool, U)
<1>1. S \in SUBSET (1 .. Len(j.outputs)) /\ L \in SUBSET S /\ j.outputs \in Seq(Pays)
  BY SharedTypes, ScanStateParts DEF IsJob
<1>2. \A i \in L : \A k \in R : i < k
  <2>1. TheScan(j, t).leading \in Nat /\ \A i \in S : i \in Nat
    BY <1>1, SharedTypes, ScanStateParts
  <2>2. \A i \in L : i \in Nat /\ i <= TheScan(j, t).leading /\ t = 2
    BY <2>1 DEF Leads, Layout!LeadingOutputs
  <2>3. ASSUME NEW k \in R, t = 2 PROVE k \in Nat /\ ~(k <= TheScan(j, t).leading)
    BY <2>1, <2>3 DEF Leads, Layout!LeadingOutputs
  <2> HIDE DEF L, S, R
  <2> QED BY <2>1, <2>2, <2>3
<1>3. pool \in Seq(Outs) /\ lead \in Seq(Outs) /\ rest \in Seq(Outs) /\ trail \in Seq(Outs)
  <2>1. TheScan(j, t).sum \in Nat
    BY TrailType
  <2> QED BY <2>1, ThoseTypes, PoolPartsTypes, TrailType
<1>4. trail = Cat(rest, pool)
  BY DEF Trail
<1>5. /\ open \in Parts /\ open.kind # "output" /\ closed \in Parts /\ closed.kind # "output"
  BY InputParts
<1>6. Kept(lead, U) = Those(j, L \cap O) /\ Kept(rest, U) = Those(j, R \cap O)
  BY ThoseKept
<1>7. Cat(Those(j, L \cap O), Those(j, R \cap O)) = Those(j, S \cap O)
  <2> DEFINE A == L \cap O
             B == R \cap O
             a == Layout!Picked(j.outputs, A)
             b == Layout!Picked(j.outputs, B)
  <2>1. A \in SUBSET Nat /\ B \in SUBSET Nat /\ A \cup B = S \cap O
    BY <1>1
  <2>2. \A i \in A : \A k \in B : i < k
    BY <1>2
  <2>3. a \in Seq(Pays) /\ b \in Seq(Pays)
    BY <1>1, PickedLen
  <2> HIDE DEF A, B
  <2>4. Cat(a, b) = Layout!Picked(j.outputs, A \cup B)
    BY <1>1, <2>1, <2>2, PickedCut
  <2> HIDE DEF a, b
  <2>5. Cat(Layout!Written(a), Layout!Written(b)) = Layout!Written(Cat(a, b))
    BY <2>3, WrittenCat
  <2> QED BY <2>1, <2>4, <2>5 DEF Those, a, b, A, B
<1>8. Kept(trail, U) = Cat(Kept(rest, U), kp) /\ kp \in Seq(Outs) /\ Kept(rest, U) \in Seq(Outs)
  <2> HIDE DEF pool, rest, trail
  <2>1. Kept(Cat(rest, pool), U) = Cat(Kept(rest, U), Kept(pool, U)) /\ Kept(rest, U) \in Seq(Outs)
    BY <1>3, KeptCat
  <2>2. Kept(pool, U) \in Seq(Outs)
    BY <1>3, PickedLen DEF Kept
  <2> QED BY <1>4, <2>1, <2>2
<1>9. CASE IsOpen(j, t)
  <2>1. L = {}
    <3>1. CASE t # 2
      BY <3>1 DEF Leads
    <3>2. CASE j.outputs = <<>>
      <4>1. 1 .. Len(j.outputs) = {}
        BY <3>2
      <4> QED BY <1>1, <4>1
    <3> QED BY <1>9, <3>1, <3>2 DEF IsOpen
  <2>2. R = S
    BY <2>1
  <2>3. FormOf(j, t) = OpenForm(open, trail)
    BY <1>9 DEF FormOf
  <2> HIDE DEF trail, open, L, R, S
  <2>4. Kept(Transaction(OpenForm(open, trail)), PaidParts) = Kept(trail, PaidParts)
    BY <1>3, <1>5, OpenFormKept
  <2> QED BY <1>6, <1>8, <2>2, <2>3, <2>4 DEF S
<1>10. CASE ~IsOpen(j, t)
  <2>1. FormOf(j, t) = ClosedForm(closed, lead, trail)
    BY <1>10 DEF FormOf
  <2> DEFINE kl == Kept(lead, U)
             kr == Kept(rest, U)
  <2>2. kl \in Seq(Outs)
    BY <1>3, PickedLen DEF Kept
  <2>3. Cat(kl, kr) = Those(j, S \cap O)
    BY <1>6, <1>7
  <2> HIDE DEF trail, closed, lead, L, R, S, rest
  <2>4. Kept(Transaction(ClosedForm(closed, lead, trail)), PaidParts) = Cat(kl, Kept(trail, U))
    BY <1>3, <1>5, ClosedFormKept
  <2> HIDE DEF kl, kp
  <2>5. Cat(kl, Cat(kr, kp)) = Cat(Cat(kl, kr), kp)
    <3>1. kr \in Seq(Outs)
      BY <1>8
    <3> HIDE DEF kr
    <3> QED BY <1>8, <2>2, <3>1, CatFacts
  <2> QED BY <1>8, <2>1, <2>3, <2>4, <2>5 DEF S, kp
<1> QED BY <1>9, <1>10

\* A sequence begins what it is the first part of.
LEMMA FirstIsPrefix ==
    ASSUME NEW T, NEW s \in Seq(T), NEW u \in Seq(T)
    PROVE  IsPrefix(s, Cat(s, u))
<1> DEFINE v == s \o u
           n == Len(s)
           a == SubSeq(s, 1, n)
           b == SubSeq(v, 1, n)
<1>1. /\ v \in Seq(T) /\ n \in Nat /\ Len(u) \in Nat /\ Len(v) = n + Len(u)
      /\ \A i \in 1 .. n : v[i] = s[i]
  BY ConcatProperties
<1> HIDE DEF v
<1>2. n <= Len(v)
  BY <1>1
<1>3. a = [i \in 1 .. n |-> s[i]] /\ b = [i \in 1 .. n |-> v[i]]
  BY <1>1
<1>4. a = b
  BY <1>1, <1>3
<1> QED BY <1>2, <1>4 DEF IsPrefix, Cat, v

\* When nobody is chosen the pool is paid it all.
LEMMA PoolKept ==
    ASSUME NEW j, IsJob(j), j.value > 0
    PROVE  Kept(PoolParts(j, 0), PaidParts) = <<Layout!Output(j.value, j.poolLen)>>
<1> DEFINE p == Layout!Output(j.value, j.poolLen)
           a == Layout!Witness
           b == Layout!Signet
           U == PaidParts
<1>1. j.value \in Nat /\ j.poolLen \in Nat
  BY DEF IsJob
<1>2. PoolParts(j, 0) = <<p, a, b>>
  <2>1. j.value - 0 = j.value
    BY <1>1
  <2> QED BY <2>1 DEF PoolParts
<1>3. p \in Parts /\ p \in U
  <2>1. p \in Outs /\ p.value = j.value
    BY <1>1, FixedParts DEF Layout!Output, Layout!Part
  <2> QED BY <2>1 DEF Outs, PaidParts
<1>4. a \in Parts /\ b \in Parts /\ a \notin U /\ b \notin U
  <2>1. a \in Outs /\ b \in Outs
    BY FixedParts
  <2>2. a.value = 0 /\ b.value = 0
    BY DEF Layout!Witness, Layout!Signet, Layout!Output, Layout!Part
  <2> QED BY <2>1, <2>2 DEF Outs, PaidParts
<1> HIDE DEF p, a, b, U
<1>5. Kept(<<p, a, b>>, U) = IF p \in U THEN <<p>> ELSE <<>>
  <2>1. p \in Parts /\ a \in Parts /\ b \in Parts /\ a \notin U /\ b \notin U
    BY <1>3, <1>4
  <2> QED BY <2>1, KeptFirst
<1> QED BY <1>2, <1>3, <1>5 DEF p, U

\* The shared coinbase pays the reward, whoever is left out; nobody is, when all fit.
THEOREM SharedCoinbasesPay == CoinbaseSpec => []SharedPaysTheReward
<1>1. CoinbaseInv /\ AsWritten => SharedPaysTheReward
  <2> SUFFICES ASSUME CoinbaseInv, AsWritten, generated, ~Garbled PROVE SharedPaysTheReward
    BY DEF SharedPaysTheReward
  <2> DEFINE t == request.type
             c == coinbases.shared
             form == FormOf(job, t)
             tx == Transaction(c)
             outs == job.outputs
             D == 1 .. Len(outs)
             fit == Layout!FitToTemplate(job, t)
             chosen == TheScan(job, t).chosen
             pool == PoolParts(job, TheScan(job, t).sum)
             paid == Layout!Picked(tx, {i \in DOMAIN tx : tx[i].kind = "output" /\ tx[i].value > 0})
             owed == Layout!Written(Layout!Picked(outs, {k \in DOMAIN outs : outs[k].value > 0}))
             cost == SumFunction([k \in DOMAIN outs |-> outs[k].scriptLen + 9])
             sent == Answered("job", Sent(request, PoolFeeAddress))
  <2>1. request \in Requests /\ t \in 0 .. 5 /\ request.total \in Nat
    BY RequestsAssumption DEF CoinbaseInv
  <2>2. job = JobOf(request) /\ IsJob(job) /\ job.value = request.total
    <3>1. job = JobOf(request)
      BY DEF AsWritten
    <3>2. IsJob(JobOf(request)) /\ JobOf(request).value = request.total
      BY <2>1, JobIsJob
    <3> QED BY <3>1, <3>2
  <2>3. c = form /\ paying = fit
    <3>1. ~Behind(job, t)
      BY DEF Garbled, Behind
    <3> QED BY <2>1, <2>2, <3>1, SharedForm DEF AsWritten
  <2>4. tx \in Seq(Parts)
    <3>1. Transaction(form) \in Seq(Parts)
      BY <2>1, <2>2, FormParts
    <3> QED BY <2>3, <3>1
  <2>5. TotalOf(c) = request.total
    <3>1. TotalOf(c) = Weigh(tx, ValueIn)
      BY <2>4, TotalIsWeight
    <3>2. Weigh(Transaction(form), ValueIn) = job.value
      BY <2>1, <2>2, FormPays
    <3> QED BY <2>2, <2>3, <3>1, <3>2
  <2>6. paid = Kept(tx, PaidParts)
    <3>1. DOMAIN tx = 1 .. Len(tx) /\ \A i \in 1 .. Len(tx) : tx[i] \in Parts
      BY <2>4, LenProperties
    <3> HIDE DEF tx
    <3>2. {i \in DOMAIN tx : tx[i].kind = "output" /\ tx[i].value > 0} = {i \in 1 .. Len(tx) : tx[i] \in PaidParts}
      BY <3>1 DEF PaidParts
    <3> QED BY <3>2 DEF Kept
  <2>7. paid = Cat(Those(job, chosen \cap Owed(job)), Kept(pool, PaidParts))
    <3>1. Kept(Transaction(form), PaidParts) = Cat(Those(job, chosen \cap Owed(job)), Kept(pool, PaidParts))
      BY <2>1, <2>2, FormKept
    <3> QED BY <2>3, <2>6, <3>1
  <2>8. Those(job, chosen \cap Owed(job)) \in Seq(Outs) /\ Kept(pool, PaidParts) \in Seq(Outs)
    <3>1. TheScan(job, t).sum \in Nat
      BY <2>1, <2>2, TrailType
    <3>2. pool \in Seq(Outs)
      BY <2>2, <3>1, PoolPartsTypes
    <3>3. Kept(pool, PaidParts) \in Seq(Outs)
      <4> HIDE DEF pool
      <4> QED BY <3>2, PickedLen DEF Kept
    <3>4. Those(job, chosen \cap Owed(job)) \in Seq(Outs)
      BY <2>2, ThoseTypes
    <3> QED BY <3>3, <3>4
  <2>9. outs \in Seq(Pays) /\ DOMAIN outs = D /\ Len(outs) \in Nat /\ \A k \in D : outs[k] \in Pays
    BY <2>2, LenProperties DEF IsJob
  <2>10. owed = Those(job, Owed(job))
    BY <2>9 DEF Those, Owed
  <2>11. cost = SumFunctionOnSet(WeightsOf(outs, CostOf), D)
    <3> DEFINE f == [k \in D |-> outs[k].scriptLen + 9]
               g == WeightsOf(outs, CostOf)
    <3>1. cost = SumFunctionOnSet(f, D)
      BY <2>9 DEF SumFunction
    <3>2. IsFiniteSet(D)
      BY <2>9, FS_Interval
    <3>3. ASSUME NEW k \in D PROVE f[k] = g[k] /\ f[k] \in Int
      <4>1. outs[k].scriptLen \in Nat /\ CostOf[outs[k]] = outs[k].scriptLen + 9
        BY <2>9 DEF Pays, CostOf
      <4>2. f[k] = outs[k].scriptLen + 9 /\ g[k] = CostOf[outs[k]]
        BY DEF WeightsOf
      <4> HIDE DEF f, g, outs
      <4> QED BY <4>1, <4>2
    <3> HIDE DEF f, g, D, cost
    <3>4. SumFunctionOnSet(f, D) = SumFunctionOnSet(g, D)
      BY <3>2, <3>3, SumSame
    <3> QED BY <3>1, <3>4 DEF g
  <2>12. /\ \A k \in D : outs[k].scriptLen >= 21
         /\ Weigh(outs, ValueOf) <= Asked(request.total)
         /\ outs = Layout!Picked(sent, {k \in DOMAIN sent : Layout!Convertible(sent[k])})
    BY <2>1, <2>2, JobOutputs
  <2>13. ASSUME cost <= paying, request.total >= SubsidySats PROVE IsPrefix(owed, paid)
    <3>1. Asked(request.total) = request.total
      BY <2>1, <2>13 DEF Asked, SubsidySats
    <3>2. AllFit(job, fit)
      <4>1. SumFunctionOnSet(WeightsOf(outs, ValueOf), D) <= job.value
        BY <2>2, <2>12, <3>1 DEF Weigh
      <4>2. SumFunctionOnSet(WeightsOf(outs, CostOf), D) <= fit
        BY <2>3, <2>11, <2>13
      <4> QED BY <2>12, <4>1, <4>2 DEF AllFit
    <3>3. Owed(job) \in SUBSET chosen
      <4> DEFINE leadRoom == IF t = 2 THEN Layout!LeadRoom(job) ELSE 0
      <4>1. leadRoom \in Int
        BY <2>2, LeadRoomType
      <4>2. fit \in Int
        BY <2>1, <2>2, FitType
      <4>3. TheScan(job, t) = Layout!Scan(job, fit, leadRoom)
        BY DEF TheScan
      <4> HIDE DEF leadRoom, fit, t
      <4> QED BY <2>2, <3>2, <4>1, <4>2, <4>3, OwedAreChosen
    <3>4. chosen \cap Owed(job) = Owed(job)
      BY <3>3
    <3> HIDE DEF paid, owed, chosen, pool, t
    <3>5. paid = Cat(owed, Kept(pool, PaidParts)) /\ owed \in Seq(Outs) /\ Kept(pool, PaidParts) \in Seq(Outs)
      BY <2>7, <2>8, <2>10, <3>4
    <3> QED BY <3>5, FirstIsPrefix
  <2>14. ASSUME answer["job"] = "none", request.total > 0
         PROVE  paid = <<Layout!Output(request.total, job.poolLen)>>
    <3>1. sent = <<>>
      BY <2>14 DEF Answered
    <3>2. outs = <<>>
      <4> DEFINE I == {k \in DOMAIN sent : Layout!Convertible(sent[k])}
      <4>1. outs = Layout!Picked(<<>>, I)
        BY <2>12, <3>1
      <4> HIDE DEF I
      <4> QED BY <4>1, PickedNone
    <3>3. chosen = {} /\ chosen \cap Owed(job) = {}
      <4>1. chosen \in SUBSET (1 .. Len(outs))
        BY <2>1, <2>2, SharedTypes, ScanStateParts
      <4>2. 1 .. Len(outs) = {}
        BY <3>2
      <4> QED BY <4>1, <4>2
    <3>4. TheScan(job, t).sum = 0
      <4>1. TheScan(job, t).sum = SumFunctionOnSet(WeightsOf(job.outputs, ValueOf), TheScan(job, t).chosen)
        BY <2>1, <2>2, SharedTypes DEF ScanKeeps
      <4> QED BY <3>3, <4>1, SumOfNone
    <3>5. Those(job, chosen \cap Owed(job)) = <<>>
      BY <2>2, <3>3, ThoseOfNone
    <3>6. Kept(pool, PaidParts) = <<Layout!Output(job.value, job.poolLen)>>
      BY <2>2, <2>14, <3>4, PoolKept
    <3>7. paid = <<>> \o Kept(pool, PaidParts)
      BY <2>7, <3>5 DEF Cat
    <3> HIDE DEF paid, pool
    <3>8. paid = Kept(pool, PaidParts)
      BY <2>8, <3>7
    <3> QED BY <2>2, <3>6, <3>8
  <2> QED BY <2>5, <2>13, <2>14, Zenon DEF SharedPaysTheReward
<1> QED BY <1>1, WrittenOnce, PTL

-----------------------------------------------------------------------------
(* A miner's own coinbase *)

\* The sum that the layout takes.
LEMMA SumOfLayout ==
    ASSUME NEW f, NEW S
    PROVE  Layout!SumFunctionOnSet(f, S) = SumFunctionOnSet(f, S)
<1>1. Layout!SumFunctionOnSet(f, S) = Sums(f, S)[S]
  BY DEF Layout!SumFunctionOnSet, Layout!FoldFunctionOnSet, Layout!MapThenFoldSet, Sums, IsSums, FirstOf
<1> QED BY <1>1, SumsValue

\* What a miner's outputs are worth is their weight.
LEMMA ValuesAreWeight ==
    ASSUME NEW s \in Seq(Pays)
    PROVE  Layout!SumOfValues(s) = Weigh(s, ValueOf) /\ Weigh(s, ValueOf) \in Nat
<1> DEFINE f == [k \in DOMAIN s |-> s[k].value]
           g == WeightsOf(s, ValueOf)
           D == 1 .. Len(s)
<1>1. DOMAIN s = D /\ Len(s) \in Nat /\ \A k \in D : s[k] \in Pays
  BY LenProperties
<1>2. Layout!SumOfValues(s) = Layout!SumFunctionOnSet(f, DOMAIN f) /\ DOMAIN f = D
  BY <1>1 DEF Layout!SumOfValues, Layout!SumFunction
<1>3. \A k \in D : g[k] = f[k] /\ f[k] \in Nat
  BY <1>1 DEF WeightsOf, ValueOf, Pays
<1>4. IsFiniteSet(D)
  BY <1>1, FS_Interval
<1> HIDE DEF f, g, D
<1>5. Layout!SumFunctionOnSet(f, D) = SumFunctionOnSet(f, D)
  BY SumOfLayout
<1>6. \A k \in D : f[k] = g[k] /\ f[k] \in Int
  BY <1>3
<1>7. SumFunctionOnSet(f, D) = SumFunctionOnSet(g, D)
  BY <1>4, <1>6, SumSame
<1>8. SumFunctionOnSet(f, D) \in Nat
  BY <1>3, <1>4, SumNat
<1> QED BY <1>2, <1>5, <1>7, <1>8 DEF Weigh, g, D

\* What a miner's coinbase has between the count and the lock time.
OwnOutputs(j, paid) == Cat(Layout!Written(paid), PoolParts(j, Weigh(paid, ValueOf)))

\* With room for the extranonce, the job's coinb2 begins with a sequence number.
LEMMA EnInInput ==
    ASSUME NEW j, IsJob(j), Layout!SpaceForExtranonce(j)
    PROVE  Head(Layout!SharedCoinbase(j, 0).coinb2) = Layout!Sequence
<1> DEFINE q == Layout!Sequence
           c == Layout!Count(Len(Trail(j, 0)))
           rest == Cat(Trail(j, 0), <<Layout!LockTime>>)
           a == <<q, c>>
           tail == Cat(a, rest)
<1>1. 0 \in 0 .. 5 /\ ~Behind(j, 0) /\ IsOpen(j, 0)
  BY DEF Behind, IsOpen
<1>2. Layout!SharedCoinbase(j, 0) = FormOf(j, 0)
  BY <1>1, SharedForm
<1>3. Trail(j, 0) \in Seq(Outs) /\ Layout!OpenInput(j) \in Parts
  BY <1>1, TrailType, InputParts
<1>4. FormOf(j, 0) = OpenForm(Layout!OpenInput(j), Trail(j, 0))
  BY <1>1 DEF FormOf
<1>5. Layout!SharedCoinbase(j, 0).coinb2 = tail
  BY <1>2, <1>4 DEF OpenForm, Layout!Coinbase, Cat
<1>6. q \in Parts /\ c \in Parts /\ Layout!LockTime \in Parts
  <2>1. Len(Trail(j, 0)) \in Nat
    BY <1>3
  <2> QED BY <2>1, FixedParts
<1>7. rest \in Seq(Parts)
  BY <1>3, <1>6 DEF Cat, Outs
<1> HIDE DEF q, c, rest
<1>8. a \in Seq(Parts) /\ Len(a) = 2 /\ a[1] = q
  BY <1>6
<1> HIDE DEF a
<1>9. Head(tail) = q
  <2>1. /\ tail \in Seq(Parts) /\ Len(tail) = Len(a) + Len(rest)
        /\ \A i \in 1 .. Len(a) : tail[i] = a[i]
    <3>1. a \in Seq(Parts) /\ rest \in Seq(Parts)
      BY <1>7, <1>8
    <3>2. /\ a \o rest \in Seq(Parts) /\ Len(a \o rest) = Len(a) + Len(rest)
          /\ \A i \in 1 .. Len(a) : (a \o rest)[i] = a[i]
      BY <3>1, ConcatProperties
    <3> QED BY <3>2 DEF Cat
  <2>2. Len(tail) > 0 /\ tail[1] = q
    BY <1>7, <1>8, <2>1
  <2> HIDE DEF tail
  <2> QED BY <2>1, <2>2
<1> QED BY <1>5, <1>9 DEF q

\* Which form a miner's coinbase has that is sent his own outputs.
PersonalForm(j, outs) ==
    OpenForm(Layout!OpenInput(j), OwnOutputs(j, Layout!Paid(outs)))

\* Whether the gateway falls back to the shared one.
FallsBack(j, outs) == Layout!Paid(outs) = <<>> \/ Weigh(Layout!Paid(outs), ValueOf) > j.value

\* The outputs that he is paid by, and what comes behind them.
LEMMA PaidTypes ==
    ASSUME NEW j, IsJob(j), NEW outs \in Seq(Pays)
    PROVE  LET paid == Layout!Paid(outs) IN
           /\ paid \in Seq(Pays) /\ Len(paid) \in Nat /\ Weigh(paid, ValueOf) \in Nat
           /\ Layout!SumOfValues(paid) = Weigh(paid, ValueOf)
           /\ Layout!Written(paid) \in Seq(Outs)
           /\ PoolParts(j, Weigh(paid, ValueOf)) \in Seq(Outs)
           /\ OwnOutputs(j, paid) \in Seq(Outs) /\ Len(OwnOutputs(j, paid)) = Len(paid) + 3
<1> DEFINE paid == Layout!Paid(outs)
           w == Layout!Written(paid)
           pool == PoolParts(j, Weigh(paid, ValueOf))
<1>1. paid \in Seq(Pays)
  BY PickedLen DEF Layout!Paid
<1> HIDE DEF paid
<1>2. Len(paid) \in Nat
  BY <1>1
<1>3. Layout!SumOfValues(paid) = Weigh(paid, ValueOf) /\ Weigh(paid, ValueOf) \in Nat
  BY <1>1, ValuesAreWeight
<1>4. w \in Seq(Outs) /\ Len(w) = Len(paid)
  BY <1>1, WrittenOuts
<1>5. pool \in Seq(Outs) /\ Len(pool) = 3
  BY <1>3, PoolPartsTypes
<1> HIDE DEF w, pool
<1>6. Cat(w, pool) \in Seq(Outs) /\ Len(Cat(w, pool)) = Len(w) + Len(pool)
  BY <1>4, <1>5, ConcatProperties DEF Cat
<1>7. OwnOutputs(j, paid) = Cat(w, pool)
  BY DEF OwnOutputs, w, pool
<1> QED BY <1>1, <1>2, <1>3, <1>4, <1>5, <1>6, <1>7 DEF paid, w, pool

\* His coinb2, with the extranonce in the input.
LEMMA PersonalEnds ==
    ASSUME NEW j, IsJob(j), Layout!SpaceForExtranonce(j), NEW outs \in Seq(Pays)
    PROVE  Layout!PersonalCoinb2(j, outs) =
               IF FallsBack(j, outs) THEN <<>> ELSE PersonalForm(j, outs).coinb2
<1> DEFINE paid == Layout!Paid(outs)
           sum == Weigh(paid, ValueOf)
           w == Layout!Written(paid)
           pool == PoolParts(j, sum)
           h == <<Layout!Sequence, Layout!Count(Len(paid) + 3)>>
           l == <<Layout!LockTime>>
<1>1. /\ paid \in Seq(Pays) /\ Len(paid) \in Nat /\ sum \in Nat /\ Layout!SumOfValues(paid) = sum
      /\ w \in Seq(Outs) /\ pool \in Seq(Outs)
      /\ OwnOutputs(j, paid) \in Seq(Outs) /\ Len(OwnOutputs(j, paid)) = Len(paid) + 3
  BY PaidTypes
<1>2. Layout!Rest(j, sum) = Cat(pool, l)
  <2> HIDE DEF sum
  <2> QED BY <1>1, PoolPartsTypes
<1>3. Head(Layout!SharedCoinbase(j, 0).coinb2) = Layout!Sequence
  BY EnInInput
<1>4. Layout!PersonalCoinb2(j, outs) =
          IF FallsBack(j, outs) THEN <<>> ELSE Cat(Cat(h, w), Cat(pool, l))
  <2>1. Layout!PersonalCoinb2(j, outs) =
            IF paid = <<>> \/ sum > j.value THEN <<>> ELSE h \o w \o Layout!Rest(j, sum)
    BY <1>1, <1>3 DEF Layout!PersonalCoinb2, Layout!NoCoinb2
  <2>2. FallsBack(j, outs) <=> paid = <<>> \/ sum > j.value
    BY DEF FallsBack
  <2> HIDE DEF paid, sum, w, h, l, pool
  <2> QED BY <1>2, <2>1, <2>2 DEF Cat
<1>5. h \in Seq(Parts) /\ l \in Seq(Parts) /\ w \in Seq(Parts) /\ pool \in Seq(Parts)
  <2>1. Len(paid) + 3 \in Nat
    BY <1>1
  <2>2. Layout!Sequence \in Parts /\ Layout!Count(Len(paid) + 3) \in Parts /\ Layout!LockTime \in Parts
    BY <2>1, FixedParts
  <2>3. \A s \in Seq(Outs) : s \in Seq(Parts)
    BY DEF Outs
  <2> HIDE DEF paid, sum, w, pool
  <2> QED BY <1>1, <2>2, <2>3
<1>6. PersonalForm(j, outs).coinb2 = Cat(h, Cat(Cat(w, pool), l))
  <2>1. PersonalForm(j, outs) =
            Layout!Coinbase(<<Layout!OpenInput(j)>>,
                            Cat(<<Layout!Sequence, Layout!Count(Len(OwnOutputs(j, paid)))>>,
                                Cat(OwnOutputs(j, paid), l)))
    BY DEF PersonalForm, OpenForm, Cat
  <2>2. OwnOutputs(j, paid) = Cat(w, pool)
    BY DEF OwnOutputs
  <2> HIDE DEF paid, w, pool, l
  <2> QED BY <1>1, <2>1, <2>2 DEF Layout!Coinbase
<1> HIDE DEF paid, sum, w, h, l, pool
<1>7. Cat(Cat(h, w), Cat(pool, l)) = Cat(h, Cat(Cat(w, pool), l))
  <2>1. Cat(pool, l) \in Seq(Parts)
    BY <1>5, CatFacts
  <2>2. Cat(Cat(h, w), Cat(pool, l)) = Cat(h, Cat(w, Cat(pool, l)))
    BY <1>5, <2>1, CatFacts
  <2>3. Cat(w, Cat(pool, l)) = Cat(Cat(w, pool), l)
    BY <1>5, CatFacts
  <2> QED BY <2>2, <2>3
<1> QED BY <1>4, <1>6, <1>7

\* A miner's own coinbase is the shared one, or has its form.
LEMMA PersonalIs ==
    ASSUME NEW j, IsJob(j), Layout!SpaceForExtranonce(j), NEW t \in 0 .. 5, t # 2, NEW outs \in Seq(Pays)
    PROVE  /\ Layout!SharedCoinbase(j, t) = FormOf(j, t) /\ IsOpen(j, t)
           /\ Layout!PersonalCoinbase(j, t, outs) =
                 IF FallsBack(j, outs) THEN FormOf(j, t) ELSE PersonalForm(j, outs)
<1>1. ~Behind(j, t) /\ IsOpen(j, t)
  BY DEF Behind, IsOpen
<1>2. Layout!SharedCoinbase(j, t) = FormOf(j, t)
  BY <1>1, SharedForm
<1>3. FormOf(j, t).coinb1 = <<Layout!OpenInput(j)>>
  BY <1>1 DEF FormOf, OpenForm, Layout!Coinbase
<1>4. Layout!PersonalCoinb2(j, outs) =
          IF FallsBack(j, outs) THEN <<>> ELSE PersonalForm(j, outs).coinb2
  BY PersonalEnds
<1>5. PersonalForm(j, outs).coinb2 # <<>>
  <2> DEFINE own == OwnOutputs(j, Layout!Paid(outs))
             h == <<Layout!Sequence, Layout!Count(Len(own))>>
             rest == own \o <<Layout!LockTime>>
  <2>1. own \in Seq(Outs) /\ Len(own) \in Nat
    BY PaidTypes
  <2>2. PersonalForm(j, outs).coinb2 = h \o rest
    BY DEF PersonalForm, OpenForm, Layout!Coinbase
  <2>3. Layout!Sequence \in Parts /\ Layout!Count(Len(own)) \in Parts /\ Layout!LockTime \in Parts
    <3> HIDE DEF own
    <3> QED BY <2>1, FixedParts
  <2>4. rest \in Seq(Parts)
    <3> HIDE DEF own
    <3> QED BY <2>1, <2>3 DEF Outs
  <2>5. h \in Seq(Parts) /\ Len(h) = 2
    <3> HIDE DEF own
    <3> QED BY <2>3
  <2> HIDE DEF rest, h
  <2>6. Len(h \o rest) = Len(h) + Len(rest) /\ Len(rest) \in Nat
    <3>1. h \in Seq(Parts) /\ rest \in Seq(Parts)
      BY <2>4, <2>5
    <3>2. Len(h \o rest) = Len(h) + Len(rest)
      BY <3>1, ConcatProperties
    <3> QED BY <3>1, <3>2
  <2>7. Len(<<>>) = 0
    OBVIOUS
  <2> QED BY <2>2, <2>5, <2>6, <2>7
<1>6. PersonalForm(j, outs) = Layout!Coinbase(<<Layout!OpenInput(j)>>, PersonalForm(j, outs).coinb2)
  BY DEF PersonalForm, OpenForm, Layout!Coinbase
<1>7. CASE FallsBack(j, outs)
  <2>1. Layout!PersonalCoinbase(j, t, outs) = Layout!SharedCoinbase(j, t)
    BY <1>4, <1>7 DEF Layout!PersonalCoinbase, Layout!NoCoinb2
  <2> QED BY <1>1, <1>2, <1>7, <2>1
<1>8. CASE ~FallsBack(j, outs)
  <2>1. Layout!PersonalCoinbase(j, t, outs) =
            Layout!Coinbase(Layout!SharedCoinbase(j, t).coinb1, PersonalForm(j, outs).coinb2)
    BY <1>4, <1>5, <1>8 DEF Layout!PersonalCoinbase, Layout!NoCoinb2
  <2> QED BY <1>1, <1>2, <1>3, <1>6, <1>8, <2>1
<1> QED BY <1>7, <1>8

\* His own form is a transaction, and pays the block's value.
LEMMA PersonalFormPays ==
    ASSUME NEW j, IsJob(j), NEW outs \in Seq(Pays), ~FallsBack(j, outs)
    PROVE  /\ IsTransaction(PersonalForm(j, outs))
           /\ Transaction(PersonalForm(j, outs)) \in Seq(Parts)
           /\ TotalOf(PersonalForm(j, outs)) = j.value
<1> DEFINE paid == Layout!Paid(outs)
           sum == Weigh(paid, ValueOf)
           w == Layout!Written(paid)
           pool == PoolParts(j, sum)
           own == OwnOutputs(j, paid)
           input == Layout!OpenInput(j)
<1>1. /\ paid \in Seq(Pays) /\ sum \in Nat /\ w \in Seq(Outs) /\ pool \in Seq(Outs) /\ own \in Seq(Outs)
  BY PaidTypes
<1>2. sum \in 0 .. j.value
  BY <1>1 DEF FallsBack, IsJob
<1>3. Weigh(pool, ValueIn) = j.value - sum
  <2> HIDE DEF sum
  <2> QED BY <1>2, PoolValue
<1>4. Weigh(w, ValueIn) = sum
  <2> HIDE DEF paid
  <2> QED BY <1>1, ValueMatches, WrittenWeigh
<1>5. Weigh(own, ValueIn) = Weigh(w, ValueIn) + Weigh(pool, ValueIn)
  <2>1. ValueIn \in [Parts -> Int]
    BY ValueMatches DEF Matches, Weights
  <2>2. w \in Seq(Parts) /\ pool \in Seq(Parts)
    BY <1>1 DEF Outs
  <2>3. own = w \o pool
    BY DEF OwnOutputs, Cat
  <2> HIDE DEF w, pool, own
  <2>4. Weigh(w \o pool, ValueIn) = Weigh(w, ValueIn) + Weigh(pool, ValueIn)
    BY <2>1, <2>2, WeighConcat
  <2> QED BY <2>3, <2>4
<1>6. Weigh(own, ValueIn) = j.value
  <2>1. j.value \in Nat
    BY DEF IsJob
  <2> HIDE DEF own, w, pool, sum
  <2> QED BY <1>1, <1>3, <1>4, <1>5, <2>1
<1>7. input \in Parts /\ input.kind = "open_input" /\ input.kind # "output"
  BY InputParts
<1>8. PersonalForm(j, outs) = OpenForm(input, own)
  BY DEF PersonalForm
<1> HIDE DEF own, input
<1>9. IsTransaction(OpenForm(input, own))
  BY <1>1, <1>7, OpenFormIsTransaction
<1>10. Weigh(Transaction(OpenForm(input, own)), ValueIn) = Weigh(own, ValueIn)
  BY <1>1, <1>7, OpenFormPays
<1>11. Transaction(OpenForm(input, own)) \in Seq(Parts)
  <2>1. own \in Seq(Bodies) /\ Transaction(OpenForm(input, own)) = Framed(input, own)
    BY <1>1, <1>7, OpenParts
  <2>2. Counted(Framed(input, own), input, own, Len(own))
    BY <1>7, <2>1, BodyIsCounted
  <2> QED BY <2>1, <2>2 DEF Counted
<1>12. TotalOf(OpenForm(input, own)) = Weigh(Transaction(OpenForm(input, own)), ValueIn)
  BY <1>11, TotalIsWeight
<1> QED BY <1>6, <1>8, <1>9, <1>10, <1>11, <1>12

\* The first element, if it is picked, is the first one picked.
LEMMA PickedHead ==
    ASSUME NEW T, NEW s \in Seq(T), s # <<>>, NEW I, 1 \in I
    PROVE  Layout!Picked(s, I) \in Seq(T) /\ Layout!Picked(s, I) # <<>> /\ Layout!Picked(s, I)[1] = s[1]
<1> DEFINE p(q) == Layout!Picked(q, I)
           Good(q) == q # <<>> => Len(p(q)) >= 1 /\ p(q)[1] = q[1]
           G == {q \in Seq(T) : Good(q)}
<1>1. <<>> \in G
  OBVIOUS
<1>2. ASSUME NEW q \in G, NEW x \in T PROVE Append(q, x) \in G
  <2> DEFINE v == Append(q, x)
  <2>1. q \in Seq(T) /\ Good(q)
    BY <1>2
  <2>2. v \in Seq(T) /\ Len(v) = Len(q) + 1 /\ v[Len(q) + 1] = x /\ \A i \in 1 .. Len(q) : v[i] = q[i]
    BY <2>1, AppendFacts
  <2>3. p(q) \in Seq(T) /\ p(v) = IF Len(q) + 1 \in I THEN Append(p(q), x) ELSE p(q)
    <3> HIDE DEF Good
    <3> QED BY <2>1, PickedMore
  <2>4. /\ Append(p(q), x) \in Seq(T) /\ Len(Append(p(q), x)) = Len(p(q)) + 1
        /\ Append(p(q), x)[Len(p(q)) + 1] = x
        /\ \A i \in 1 .. Len(p(q)) : Append(p(q), x)[i] = p(q)[i]
    <3>1. p(q) \in Seq(T)
      BY <2>3
    <3> HIDE DEF p, Good
    <3> QED BY <3>1, AppendFacts
  <2>5. ASSUME q = <<>> PROVE Good(v)
    <3>1. Len(q) = 0 /\ p(q) = <<>>
      BY <2>5, PickedNone
    <3>2. Len(p(q)) = 0
      BY <3>1
    <3> HIDE DEF p, v
    <3>3. p(v) = Append(p(q), x) /\ Len(p(v)) = 1 /\ p(v)[1] = x /\ v[1] = x
      BY <2>2, <2>3, <2>4, <3>1, <3>2
    <3> QED BY <3>3
  <2>6. ASSUME q # <<>> PROVE Good(v)
    <3>1. Len(q) >= 1 /\ Len(q) \in Nat
      BY <2>1, <2>6
    <3>2. Len(p(q)) \in Nat /\ Len(p(q)) >= 1 /\ p(q)[1] = q[1]
      BY <2>1, <2>3, <2>6
    <3> HIDE DEF p, v
    <3>3. v[1] = q[1] /\ Append(p(q), x)[1] = p(q)[1]
      BY <2>2, <2>4, <3>1, <3>2
    <3>4. Len(p(v)) >= 1 /\ p(v)[1] = v[1]
      BY <2>3, <2>4, <3>2, <3>3
    <3> QED BY <3>4
  <2>7. Good(v) /\ v \in Seq(T)
    BY <2>2, <2>5, <2>6
  <2> HIDE DEF Good
  <2> QED BY <2>7
<1>3. G \in SUBSET Seq(T)
  OBVIOUS
<1>4. \A q \in Seq(T) : q \in G
  <2> HIDE DEF G
  <2> QED BY <1>1, <1>2, <1>3, AllSequences
<1>5. Good(s)
  <2> HIDE DEF Good
  <2> QED BY <1>4 DEF G
<1>6. p(s) \in Seq(T)
  BY PickedLen
<1> HIDE DEF p
<1>7. Len(p(s)) >= 1 /\ p(s)[1] = s[1]
  BY <1>5
<1>8. p(s) # <<>>
  BY <1>6, <1>7
<1> QED BY <1>6, <1>7, <1>8 DEF p

\* His own form pays him first what he is sent first, if that can be paid.
LEMMA PersonalFormStarts ==
    ASSUME NEW j, IsJob(j), NEW outs \in Seq(Pays), outs # <<>>, Layout!Payable(outs[1])
    PROVE  /\ Layout!Paid(outs) # <<>>
           /\ Transaction(PersonalForm(j, outs))[4] = Layout!Output(outs[1].value, outs[1].scriptLen)
<1> DEFINE paid == Layout!Paid(outs)
           I == {k \in DOMAIN outs : Layout!Payable(outs[k])}
           w == Layout!Written(paid)
           pool == PoolParts(j, Weigh(paid, ValueOf))
           own == OwnOutputs(j, paid)
           input == Layout!OpenInput(j)
<1>1. 1 \in I
  OBVIOUS
<1>2. paid = Layout!Picked(outs, I)
  BY DEF Layout!Paid
<1>3. paid \in Seq(Pays) /\ paid # <<>> /\ paid[1] = outs[1]
  <2> HIDE DEF I, paid
  <2> QED BY <1>1, <1>2, PickedHead
<1>4. w \in Seq(Outs) /\ pool \in Seq(Outs) /\ own \in Seq(Outs)
  BY PaidTypes
<1>5. PersonalForm(j, outs) = OpenForm(input, own)
  BY DEF PersonalForm
<1>6. own = w \o pool
  BY DEF OwnOutputs, Cat
<1> HIDE DEF paid
<1>7. /\ Len(paid) \in Nat /\ Len(paid) >= 1 /\ Len(w) = Len(paid)
      /\ w[1] = Layout!Output(outs[1].value, outs[1].scriptLen)
  <2>1. Len(paid) \in Nat /\ Len(paid) >= 1
    BY <1>3
  <2>2. Len(w) = Len(paid) /\ \A i \in 1 .. Len(paid) : w[i] = Layout!Output(paid[i].value, paid[i].scriptLen)
    BY <1>3, WrittenOuts
  <2> HIDE DEF w
  <2> QED BY <1>3, <2>1, <2>2
<1> HIDE DEF w, pool, own
<1>8. own[1] = w[1] /\ Len(own) \in Nat /\ Len(own) >= 1
  <2>1. /\ Len(w \o pool) = Len(w) + Len(pool)
        /\ \A i \in 1 .. Len(w) : (w \o pool)[i] = w[i]
    BY <1>4, ConcatProperties
  <2>2. Len(pool) \in Nat
    BY <1>4
  <2> QED BY <1>6, <1>7, <2>1, <2>2
<1>9. input \in Parts /\ input.kind = "open_input"
  BY InputParts
<1> HIDE DEF input
<1>10. Transaction(OpenForm(input, own))[4] = own[1]
  <2>1. own \in Seq(Bodies) /\ Transaction(OpenForm(input, own)) = Framed(input, own)
    BY <1>4, <1>9, OpenParts
  <2>2. Counted(Framed(input, own), input, own, Len(own))
    BY <1>9, <2>1, BodyIsCounted
  <2>3. Framed(input, own)[3 + 1] = own[1]
    BY <1>8, <2>2 DEF Counted
  <2> QED BY <2>1, <2>3
<1> QED BY <1>3, <1>5, <1>7, <1>8, <1>10 DEF paid

\* What he is paid is a part of what he is sent.
LEMMA PaidIsLess ==
    ASSUME NEW outs \in Seq(Pays)
    PROVE  Weigh(Layout!Paid(outs), ValueOf) <= Weigh(outs, ValueOf)
<1> DEFINE I == {k \in DOMAIN outs : Layout!Payable(outs[k])}
           paid == Layout!Picked(outs, I)
           D == 1 .. Len(outs)
           J == I \cap D
           f == WeightsOf(outs, ValueOf)
<1>1. Layout!Paid(outs) = paid
  BY DEF Layout!Paid
<1>2. Weigh(paid, ValueOf) = SumFunctionOnSet(f, J)
  <2>1. ValueOf \in [Pays -> Int]
    BY DEF ValueOf, Pays
  <2> HIDE DEF I
  <2> QED BY <2>1, PickedWeigh
<1>3. IsFiniteSet(D) /\ \A i \in D : f[i] \in Nat
  <2>1. Len(outs) \in Nat /\ \A i \in D : outs[i] \in Pays
    BY LenProperties
  <2>2. IsFiniteSet(D)
    BY <2>1, FS_Interval
  <2> QED BY <2>1, <2>2 DEF WeightsOf, ValueOf, Pays
<1>4. J \in SUBSET D
  OBVIOUS
<1> HIDE DEF J, f, D
<1>5. SumFunctionOnSet(f, J) <= SumFunctionOnSet(f, D)
  BY <1>3, <1>4, SumGrows
<1> QED BY <1>1, <1>2, <1>5 DEF Weigh, f, D

\* A miner's own coinbase is a transaction that pays the reward, and him the bonus first,
\* with any outputs, of a service that divides more, or that does not answer.
THEOREM PersonalCoinbasesPay == CoinbaseSpec => []PersonalPaysTheReward
<1>1. CoinbaseInv /\ AsWritten => PersonalPaysTheReward
  <2> SUFFICES ASSUME CoinbaseInv, AsWritten,
                      generated, request.type # 2, Layout!SpaceForExtranonce(job)
               PROVE  PersonalPaysTheReward
    BY DEF PersonalPaysTheReward
  <2> DEFINE t == request.type
             c == coinbases.personal
             tx == Transaction(c)
             miner == request.miner
             total == request.total
             outs == Sent(request, miner)
             bonus == Layout!Output(FinderAmount(total), ScriptLen(miner, request.scripts))
  <2>1. request \in Requests /\ t \in 0 .. 5 /\ total \in Nat
    BY RequestsAssumption DEF CoinbaseInv
  <2>2. job = JobOf(request) /\ IsJob(job) /\ job.value = total
    <3>1. job = JobOf(request)
      BY DEF AsWritten
    <3>2. IsJob(JobOf(request)) /\ JobOf(request).value = total
      BY <2>1, JobIsJob
    <3> QED BY <3>1, <3>2
  <2>3. outs \in Seq(Pays)
    BY <2>1, SentType
  <2>4. c = IF answer["miner"] = "ok" THEN Layout!PersonalCoinbase(job, t, outs)
            ELSE Layout!SharedCoinbase(job, t)
    BY DEF AsWritten, PersonalOf
  <2> HIDE DEF outs, t
  <2>5. /\ Layout!SharedCoinbase(job, t) = FormOf(job, t)
        /\ Layout!PersonalCoinbase(job, t, outs) =
              IF FallsBack(job, outs) THEN FormOf(job, t) ELSE PersonalForm(job, outs)
        /\ ~Behind(job, t)
    <3>1. t # 2
      BY DEF t
    <3> QED BY <2>1, <2>2, <2>3, <3>1, PersonalIs DEF Behind
  <2>6. IsTransaction(FormOf(job, t)) /\ TotalOf(FormOf(job, t)) = total
    <3>1. IsTransaction(Layout!SharedCoinbase(job, t))
      BY <2>1, <2>2, <2>5, FormIsTransaction
    <3>2. Transaction(FormOf(job, t)) \in Seq(Parts)
      BY <2>1, <2>2, FormParts
    <3>3. TotalOf(FormOf(job, t)) = Weigh(Transaction(FormOf(job, t)), ValueIn)
      BY <3>2, TotalIsWeight
    <3>4. Weigh(Transaction(FormOf(job, t)), ValueIn) = job.value
      BY <2>1, <2>2, FormPays
    <3> QED BY <2>2, <2>5, <3>1, <3>3, <3>4
  <2>7. ~FallsBack(job, outs) =>
            IsTransaction(PersonalForm(job, outs)) /\ TotalOf(PersonalForm(job, outs)) = total
    BY <2>2, <2>3, PersonalFormPays
  <2>8. IsTransaction(c) /\ TotalOf(c) = total
    <3> HIDE DEF c
    <3> QED BY <2>4, <2>5, <2>6, <2>7
  <2>9. ASSUME answer["miner"] = "ok", total >= SubsidySats, bonus.value > 0, bonus.bytes > 9
        PROVE  tx[4] = bonus
    <3> DEFINE n == FilledSlots(request.ranked) + 2
               l == ScriptLen(miner, request.scripts)
               parts == BuildOutputs(miner, Asked(total), RankedIn(request))
    <3>1. Asked(total) = total
      BY <2>1, <2>9 DEF Asked, SubsidySats
    <3>2. l \in Nat
      BY <2>1, RequestsAssumption
    <3>3. FinderAmount(total) > 0 /\ l > 0
      BY <2>9, <3>2 DEF Layout!Output, Layout!Part
    <3>4. /\ DOMAIN outs = 1 .. n /\ DOMAIN parts = 1 .. n /\ n \in Nat
          /\ \A i \in 1 .. n : outs[i].value = parts[i].amount
          /\ outs[1].scriptLen = l /\ parts[1].amount = FinderAmount(Asked(total))
      BY <2>1, SentShape DEF outs
    <3>5. 1 \in 1 .. n
      BY <2>1, RequestsAssumption, SlotsAssumption DEF FilledSlots
    <3> HIDE DEF n, l, parts
    <3>6. outs[1].value = FinderAmount(total) /\ outs[1].scriptLen = l
      BY <3>1, <3>4, <3>5
    <3>7. outs # <<>> /\ Layout!Payable(outs[1])
      BY <3>3, <3>4, <3>5, <3>6 DEF Layout!Payable, Layout!Convertible
    <3>8. Layout!Paid(outs) # <<>> /\ Transaction(PersonalForm(job, outs))[4] = bonus
      BY <2>2, <2>3, <3>6, <3>7, PersonalFormStarts DEF l
    <3>9. Weigh(Layout!Paid(outs), ValueOf) <= total
      <4>1. Weigh(outs, ValueOf) = total
        BY <2>1, <3>1, SentSum DEF outs
      <4>2. Weigh(Layout!Paid(outs), ValueOf) <= Weigh(outs, ValueOf)
        BY <2>3, PaidIsLess
      <4> QED BY <4>1, <4>2
    <3>10. ~FallsBack(job, outs)
      <4>1. Weigh(Layout!Paid(outs), ValueOf) \in Nat
        BY <2>2, <2>3, PaidTypes
      <4> QED BY <2>1, <2>2, <3>8, <3>9, <4>1 DEF FallsBack
    <3>11. c = PersonalForm(job, outs)
      BY <2>4, <2>5, <2>9, <3>10
    <3> QED BY <3>8, <3>11
  <2> QED BY <2>8, <2>9 DEF PersonalPaysTheReward
<1> QED BY <1>1, WrittenOnce, PTL

=============================================================================
