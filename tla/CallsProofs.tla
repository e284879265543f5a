----------------------------- MODULE CallsProofs -----------------------------
(***************************************************************************)
(* Facts about the frames of Calls, for every depth of calls.              *)
(***************************************************************************)
EXTENDS Calls, SequenceTheorems, TLAPS

-----------------------------------------------------------------------------
(* Sequences *)

(* A sequence is one over its own elements.                                 *)
LEMMA OwnElements ==
  ASSUME NEW S, NEW s \in Seq(S)
  PROVE  s \in Seq({s[i] : i \in DOMAIN s})
BY SeqOfRange DEF Range

(* Appending an element keeps the others where they are.                    *)
LEMMA Appended ==
  ASSUME NEW S, NEW s \in Seq(S), NEW x
  PROVE  /\ Append(s, x) \in Seq(S \cup {x})
         /\ Len(s) \in Nat /\ Len(Append(s, x)) = Len(s) + 1
         /\ DOMAIN Append(s, x) = DOMAIN s \cup {Len(Append(s, x))}
         /\ \A i \in DOMAIN s : Append(s, x)[i] = s[i]
         /\ Append(s, x)[Len(Append(s, x))] = x
<1>1. s \in Seq(S \cup {x}) /\ Len(s) \in Nat /\ DOMAIN s = 1 .. Len(s)
  BY LenProperties, SeqMonotonic
<1> DEFINE t == Append(s, x)
<1>2. /\ t \in Seq(S \cup {x})
      /\ Len(t) = Len(s) + 1
      /\ \A i \in 1 .. Len(s) : t[i] = s[i]
      /\ t[Len(s) + 1] = x
  BY <1>1, AppendProperties
<1> HIDE DEF t
<1>3. DOMAIN t = 1 .. Len(t)
  BY <1>2, LenProperties
<1>4. QED
  BY <1>1, <1>2, <1>3 DEF t

(* Dropping the last element keeps the others where they are.               *)
LEMMA FrontOfSeq ==
  ASSUME NEW S, NEW s \in Seq(S), s # <<>>
  PROVE  /\ SubSeq(s, 1, Len(s) - 1) \in Seq(S)
         /\ Len(s) \in Nat \ {0} /\ Len(s) \in DOMAIN s
         /\ Len(SubSeq(s, 1, Len(s) - 1)) = Len(s) - 1
         /\ DOMAIN SubSeq(s, 1, Len(s) - 1) \subseteq DOMAIN s
         /\ \A i \in DOMAIN SubSeq(s, 1, Len(s) - 1) :
              SubSeq(s, 1, Len(s) - 1)[i] = s[i]
<1>1. /\ Len(s) \in Nat \ {0} /\ DOMAIN s = 1 .. Len(s)
      /\ \A i \in 1 .. Len(s) - 1 : s[i] \in S
  BY LenProperties, EmptySeq
<1> DEFINE n == Len(s) - 1
           t == SubSeq(s, 1, n)
<1>2. n \in Int /\ (1 <= n => n - 1 + 1 = n) /\ (~(1 <= n) => n = 0)
  BY <1>1
<1> HIDE DEF n
<1>3. /\ t \in Seq(S) /\ Len(t) = IF 1 <= n THEN n - 1 + 1 ELSE 0
      /\ \A i \in 1 .. n - 1 + 1 : t[i] = s[1 + i - 1]
  <2>1. 1 \in Int /\ n \in Int /\ \A i \in 1 .. n : s[i] \in S
    BY <1>1, <1>2 DEF n
  <2>2. QED
    BY <2>1, SubSeqProperties
<1>4. Len(t) = n /\ DOMAIN t = 1 .. n
  BY <1>2, <1>3, LenProperties
<1>5. \A i \in DOMAIN t : t[i] = s[i]
  BY <1>2, <1>3, <1>4
<1>6. QED
  BY <1>1, <1>3, <1>4, <1>5 DEF n

-----------------------------------------------------------------------------
(* A transaction may start.                                                 *)
LEMMA NoCallsOK == NoCalls => CallsInv /\ DOMAIN stack = {}
<1> SUFFICES ASSUME NoCalls PROVE CallsInv /\ DOMAIN stack = {}
  OBVIOUS
<1>1. stack = <<>> /\ DOMAIN stack = {} /\ Len(stack) = 0
  BY EmptySeq DEF NoCalls
<1>2. stack \in Seq({stack[i] : i \in DOMAIN stack})
  BY <1>1, EmptySeq
<1>3. QED
  BY <1>1, <1>2, MaxCallsAssumption DEF NoCalls, CallsInv

(* A call that ends at once keeps the stack, and spends gas only inside a   *)
(* transaction, where MayCall has checked that there is some.               *)
LEMMA DoneOK ==
  ASSUME CallsInv, NEW a, MayCall(a), Done
  PROVE  CallsInv' /\ stack' = stack
<1>1. Len(stack) \in Nat
  BY LenProperties DEF CallsInv
<1>2. QED
  BY <1>1, MaxCallsAssumption DEF CallsInv, Done, SpendGas, MayCall

(* A call that waits for a callback adds its frame, and spends gas unless   *)
(* it starts the transaction.                                               *)
LEMMA PushOK ==
  ASSUME CallsInv, NEW a, MayCall(a), NEW frame, Push(frame)
  PROVE  /\ CallsInv'
         /\ DOMAIN stack' = DOMAIN stack \cup {Len(stack')}
         /\ \A i \in DOMAIN stack : stack'[i] = stack[i]
         /\ stack'[Len(stack')] = frame
<1>1. /\ stack' \in Seq({stack'[i] : i \in DOMAIN stack'})
      /\ Len(stack) \in Nat /\ Len(stack') = Len(stack) + 1
      /\ DOMAIN stack' = DOMAIN stack \cup {Len(stack')}
      /\ \A i \in DOMAIN stack : stack'[i] = stack[i]
      /\ stack'[Len(stack')] = frame
  <2> DEFINE S == {stack[i] : i \in DOMAIN stack}
  <2>1. stack \in Seq(S) /\ stack' = Append(stack, frame)
    BY DEF CallsInv, Push
  <2> HIDE DEF S
  <2>2. /\ stack' \in Seq(S \cup {frame})
        /\ Len(stack) \in Nat /\ Len(stack') = Len(stack) + 1
        /\ DOMAIN stack' = DOMAIN stack \cup {Len(stack')}
        /\ \A i \in DOMAIN stack : stack'[i] = stack[i]
        /\ stack'[Len(stack')] = frame
    BY <2>1, Appended
  <2>3. stack' \in Seq({stack'[i] : i \in DOMAIN stack'})
    BY <2>2, OwnElements
  <2>4. QED
    BY <2>2, <2>3
<1>2. stack' # <<>> /\ (stack = <<>> => Len(stack) = 0)
  BY <1>1, EmptySeq
<1>3. CallsInv'
  BY <1>1, <1>2, MaxCallsAssumption DEF CallsInv, Push, SpendGas, MayCall
<1>4. QED
  BY <1>1, <1>3

(* When a function ends, its frame goes; with the last one the transaction  *)
(* ends, and the next transaction has gas of its own.                       *)
LEMMA LeaveOK ==
  ASSUME CallsInv, stack # <<>>, Leave
  PROVE  /\ CallsInv'
         /\ Len(stack) \in DOMAIN stack
         /\ DOMAIN stack' \subseteq DOMAIN stack
         /\ \A i \in DOMAIN stack' : stack'[i] = stack[i]
<1>1. /\ stack' \in Seq({stack'[i] : i \in DOMAIN stack'})
      /\ Len(stack) \in Nat \ {0} /\ Len(stack) \in DOMAIN stack
      /\ Len(stack') = Len(stack) - 1
      /\ DOMAIN stack' \subseteq DOMAIN stack
      /\ \A i \in DOMAIN stack' : stack'[i] = stack[i]
  <2> DEFINE S == {stack[i] : i \in DOMAIN stack}
  <2>1. stack \in Seq(S) /\ stack' = SubSeq(stack, 1, Len(stack) - 1)
    BY DEF CallsInv, Leave
  <2> HIDE DEF S
  <2>2. /\ stack' \in Seq(S)
        /\ Len(stack) \in Nat \ {0} /\ Len(stack) \in DOMAIN stack
        /\ Len(stack') = Len(stack) - 1
        /\ DOMAIN stack' \subseteq DOMAIN stack
        /\ \A i \in DOMAIN stack' : stack'[i] = stack[i]
    BY <2>1, FrontOfSeq
  <2>3. stack' \in Seq({stack'[i] : i \in DOMAIN stack'})
    BY <2>2, OwnElements
  <2>4. QED
    BY <2>2, <2>3
<1>2. Len(<<>>) = 0
  BY EmptySeq
<1>3. /\ gas' \in 0 .. MaxCalls
      /\ stack' = <<>> => gas' = MaxCalls
      /\ Len(stack') + gas' <= MaxCalls + 1
  <2>1. /\ gas \in 0 .. MaxCalls /\ Len(stack) + gas <= MaxCalls + 1
        /\ gas' = IF Len(stack) = 1 THEN MaxCalls ELSE gas
    BY DEF CallsInv, Leave
  <2>2. Len(stack) \in Nat \ {0} /\ Len(stack') = Len(stack) - 1
    BY <1>1
  <2>3. stack' = <<>> => Len(stack) = 1
    BY <1>2, <2>2
  <2>4. CASE Len(stack) = 1
    <3>1. gas' = MaxCalls /\ Len(stack') = 0
      BY <2>1, <2>2, <2>4
    <3>2. QED
      BY <3>1, MaxCallsAssumption
  <2>5. CASE Len(stack) # 1
    <3>1. gas' = gas /\ stack' # <<>>
      BY <2>1, <2>3, <2>5
    <3>2. QED
      BY <2>1, <2>2, <3>1, MaxCallsAssumption
  <2>6. QED
    BY <2>4, <2>5
<1>4. CallsInv'
  BY <1>1, <1>3 DEF CallsInv
<1>5. QED
  BY <1>1, <1>4

(* A sequence of frames that is not empty has a first one.                  *)
LEMMA FirstFrame ==
  ASSUME NEW s, s \in Seq({s[i] : i \in DOMAIN s})
  PROVE  IF s = <<>> THEN DOMAIN s = {} ELSE 1 \in DOMAIN s
<1> DEFINE S == {s[i] : i \in DOMAIN s}
<1>1. s \in Seq(S)
  OBVIOUS
<1> HIDE DEF S
<1>2. Len(s) \in Nat /\ DOMAIN s = 1 .. Len(s) /\ (Len(s) = 0 => s = <<>>)
  BY <1>1, LenProperties, EmptySeq
<1>3. CASE s = <<>>
  BY <1>3, EmptySeq
<1>4. CASE s # <<>>
  BY <1>2, <1>4
<1>5. QED
  BY <1>3, <1>4

=============================================================================
