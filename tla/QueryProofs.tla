----------------------------- MODULE QueryProofs -----------------------------
(***************************************************************************)
(* Theorems about Query for every command length, reply size, number of    *)
(* queries and set of faults.                                              *)
(***************************************************************************)
EXTENDS Query, SequenceTheorems, TLAPS

-----------------------------------------------------------------------------
(* Frames.                                                                 *)

(* Lengths are natural numbers, and a data byte makes a DS2 length at      *)
(* least 4.                                                                *)
LEMMA FrameSizes ==
    ASSUME NEW x \in Exchanges(Nat)
    PROVE  /\ EchoLength(x.protocol) \in Nat \ {0}
           /\ PaddingLength(x.protocol) \in Nat
           /\ ReplyLength(x.protocol, x.size) \in Nat \ {0}
           /\ LengthField(x.protocol, CommandLength) \in Nat
           /\ LengthField(x.protocol, x.size) \in Nat
           /\ x.size \in Nat \ {0}
           /\ x.id \in Nat
           /\ x.stray \in Nat
           /\ ~GarbageLength(x.protocol, LengthField(x.protocol, x.size))
           /\ BodyLength(x.protocol, LengthField(x.protocol, x.size)) = x.size + 1
  <1>1. /\ x.size \in Nat \ {0} /\ x.id \in Nat /\ x.stray \in Nat
        /\ x.protocol \in {"DS2", "KWP"}
        /\ CommandLength \in Nat \ {0}
    BY QueryAssumption DEF Exchanges
  <1> USE <1>1 DEF EchoLength, PaddingLength, ReplyLength, LengthField,
                   GarbageLength, BodyLength
  <1>2. CASE x.protocol = "DS2"
    BY <1>2
  <1>3. CASE x.protocol = "KWP"
    BY <1>3
  <1> QED
    BY <1>1, <1>2, <1>3

LEMMA ByteType ==
    ASSUME NEW x \in Exchanges(Nat), NEW i \in Nat
    PROVE  ByteAt(x, i) \in Byte
  <1>1. LengthField(x.protocol, CommandLength) \in Nat
    BY FrameSizes
  <1>2. LengthField(x.protocol, x.size) \in Nat
    BY FrameSizes
  <1>3. x.stray \in Nat /\ x.id \in Nat
    BY FrameSizes
  <1> QED
    BY <1>1, <1>2, <1>3 DEF ByteAt, Byte

(* The length byte of the reply carries the length field of its data.      *)
LEMMA LengthByte ==
    ASSUME NEW x \in Exchanges(Nat)
    PROVE  ByteAt(x, EchoLength(x.protocol) + PaddingLength(x.protocol) + 2).val
              = LengthField(x.protocol, x.size)
  <1>1. EchoLength(x.protocol) + PaddingLength(x.protocol) + 2
           # EchoLengthAt(x.protocol)
    BY QueryAssumption DEF Exchanges, EchoLength, PaddingLength, EchoLengthAt
  <1> QED
    BY <1>1 DEF ByteAt

LEMMA EchoType ==
    ASSUME NEW x \in Exchanges(Nat)
    PROVE  /\ Echo(x) \in Seq(Byte)
           /\ Len(Echo(x)) = EchoLength(x.protocol)
           /\ \A i \in 1..EchoLength(x.protocol): Echo(x)[i] = ByteAt(x, i)
  <1> DEFINE n == EchoLength(x.protocol)
  <1>1. n \in Nat
    BY FrameSizes
  <1>2. \A i \in 1..n: ByteAt(x, i) \in Byte
    BY <1>1, ByteType
  <1>3. Echo(x) \in [1..n -> Byte]
    BY <1>2 DEF Echo
  <1>4. Echo(x) \in Seq(Byte) /\ Len(Echo(x)) = n
    BY <1>1, <1>3
  <1> QED
    BY <1>4 DEF Echo

LEMMA ReplyType ==
    ASSUME NEW x \in Exchanges(Nat)
    PROVE  /\ Reply(x) \in Seq(Byte)
           /\ Len(Reply(x)) = ReplyLength(x.protocol, x.size)
           /\ \A i \in 1..ReplyLength(x.protocol, x.size):
                Reply(x)[i] = ByteAt(x, EchoLength(x.protocol) + i)
  <1> DEFINE n == ReplyLength(x.protocol, x.size)
  <1>1. n \in Nat /\ EchoLength(x.protocol) \in Nat
    BY FrameSizes
  <1>2. \A i \in 1..n: ByteAt(x, EchoLength(x.protocol) + i) \in Byte
    BY <1>1, ByteType
  <1>3. Reply(x) \in [1..n -> Byte]
    BY <1>2 DEF Reply
  <1>4. Reply(x) \in Seq(Byte) /\ Len(Reply(x)) = n
    BY <1>1, <1>3
  <1> QED
    BY <1>4 DEF Reply

-----------------------------------------------------------------------------
(* Type correctness.  That the header call asks for two bytes is what      *)
(* makes got[2] a byte.                                                    *)
TypeInv ==
    /\ TypeOK
    /\ phase = "header" => want = 2

LEMMA NoBytes == <<>> \in Seq(Byte) /\ Len(<<>>) = 0
  BY EmptySeq

LEMMA InitType == Init => TypeInv
  <1> SUFFICES ASSUME Init PROVE TypeInv
    OBVIOUS
  <1>1. request \in Exchanges(Nat)
    BY DEF Init, Exchanges
  <1> QED
    <2>1. FlagsOK
      BY DEF Init, FlagsOK
    <2> QED
      BY <1>1, <2>1, NoBytes DEF Init, TypeInv, TypeOK, RetryBudget

(* query() is left with an exception, or with a packet.                    *)
LEMMA ThrowType ==
    ASSUME TypeInv,
           NEW e \in {"timeout", "ios_failure", "invalid_argument", "runtime_error"},
           Throw(e), UNCHANGED <<port, wireVars>>,
           request' \in Exchanges(Nat), waited' \in Nat
    PROVE  TypeInv'
  <1>1. FlagsOK'
    BY DEF FlagsOK, Throw, NoRead
  <1>2. outcome' \in [kind: {"none", "packet", "timeout", "ios_failure",
                            "invalid_argument", "runtime_error"},
                     bytes: Seq(Byte)]
    BY NoBytes DEF Throw
  <1> QED
    BY <1>1, <1>2, NoBytes
    DEF TypeInv, TypeOK, Throw, NoRead, wireVars, RetryBudget

LEMMA ReturnType ==
    ASSUME TypeInv, NEW bytes \in Seq(Byte), Return(bytes),
           UNCHANGED <<port, wireVars>>,
           request' \in Exchanges(Nat), waited' \in Nat
    PROVE  TypeInv'
  <1>1. outcome' \in [kind: {"none", "packet", "timeout", "ios_failure",
                            "invalid_argument", "runtime_error"},
                     bytes: Seq(Byte)]
    BY DEF Return
  <1>2. FlagsOK'
    BY DEF TypeInv, TypeOK, FlagsOK, Return, NoRead
  <1> QED
    BY <1>1, <1>2, NoBytes
    DEF TypeInv, TypeOK, Return, NoRead, wireVars, RetryBudget

(* A refused query only counts.                                            *)
LEMMA CountedType ==
    ASSUME TypeInv, request' = [request EXCEPT !.id = @ + 1]
    PROVE  request' \in Exchanges(Nat)
  <1>1. request \in Exchanges(Nat)
    BY DEF TypeInv, TypeOK
  <1> QED
    BY <1>1 DEF Exchanges

(* What a control unit or the wire puts on the line is a sequence of bytes.*)
LEMMA AnswerType ==
    ASSUME TypeInv, NEW x \in heard, NEW bytes \in Seq(Byte),
           Answer(x, bytes), FlagsOK'
    PROVE  TypeInv'
  <1>1. line' \in Seq(Byte) /\ Len(line') = Len(line) + Len(bytes)
    BY ConcatProperties DEF TypeInv, TypeOK, Answer
  <1>2. Len(line) \in Nat /\ Len(bytes) \in Nat
    BY LenProperties DEF TypeInv, TypeOK
  <1>3. arrived' \in 0..Len(line')
    BY <1>1, <1>2 DEF TypeInv, TypeOK, Answer
  <1> QED
    BY <1>1, <1>3 DEF TypeInv, TypeOK, Answer, readVars

(* The two flags, apart from the other variables: the solver handles       *)
(* Boolean variables badly beside arithmetic.                              *)
LEMMA FlagsType == FlagsOK /\ [Next]_vars => FlagsOK'
  <1> SUFFICES ASSUME FlagsOK, [Next]_vars PROVE FlagsOK'
    OBVIOUS
  <1> USE DEF FlagsOK
  <1>1. CASE Caller
    BY <1>1 DEF Caller, SetFd, RefuseClosedPort, RefuseProtocol, ShortWrite,
                Send, Throw, Return, NoRead, ReadBytes, readVars
  <1>2. CASE Loop
    BY <1>2 DEF Loop, ReadByte, ReadFails, Expire, TimeOut, Throw, NoRead,
                ArmedAfterExpiry
  <1>3. CASE Continue
    BY <1>3 DEF Continue, EchoRead, PaddingRead, HeaderRead, BodyRead, Throw,
                Return, NoRead, ReadBytes
  <1>4. CASE Wire
    BY <1>4 DEF Wire, Arrive, Replies, StaysSilent, BreaksOff, IsGarbled,
                Answer, readVars
  <1>5. CASE HangUp
    BY <1>5 DEF HangUp, readVars
  <1>6. CASE UNCHANGED vars
    BY <1>6 DEF vars, readVars
  <1> QED
    BY <1>1, <1>2, <1>3, <1>4, <1>5, <1>6 DEF Next

LEMMA NextType == TypeInv /\ [Next]_vars => TypeInv'
  <1> SUFFICES ASSUME TypeInv, [Next]_vars PROVE TypeInv'
    OBVIOUS
  <1> USE DEF TypeInv, TypeOK
  <1> USE NoBytes
  <1>0. FlagsOK'
    BY FlagsType
  <1> USE <1>0
  <1>1. CASE SetFd
    BY <1>1 DEF SetFd, readVars, wireVars
  <1>2. CASE RefuseClosedPort
    BY <1>2, CountedType, ThrowType DEF RefuseClosedPort, Submit
  <1>3. CASE RefuseProtocol
    BY <1>3, CountedType, ThrowType DEF RefuseProtocol, Submit
  <1>4. CASE ShortWrite
    BY <1>4, CountedType, ReturnType DEF ShortWrite, Submit
  <1>5. ASSUME NEW x \in Exchanges({request.id + 1}), Send(x) PROVE TypeInv'
    <2>1. x \in Exchanges(Nat)
      BY DEF Exchanges
    <2>2. EchoLength(x.protocol) \in Nat
      BY <2>1, FrameSizes
    <2>3. line' \in Seq(Byte) /\ Len(line') = Len(line) + Len(Echo(x))
      BY <2>1, <1>5, EchoType, ConcatProperties DEF Send
    <2>4. Len(Echo(x)) \in Nat
      BY <2>1, EchoType
    <2>5. arrived' \in 0..Len(line')
      BY <2>3, <2>4, <1>5 DEF Send
    <2> QED
      BY <2>1, <2>2, <2>3, <2>5, <1>5 DEF Send, Submit, ReadBytes, RetryBudget
  <1>6. CASE ReadByte
    <2>1. line # <<>>
      BY <1>6 DEF ReadByte
    <2>2. Head(line) \in Byte /\ line' \in Seq(Byte) /\ Len(line') = Len(line) - 1
      BY <2>1, <1>6, HeadTailProperties DEF ReadByte
    <2>3. got' \in Seq(Byte)
      BY <2>2, <1>6 DEF ReadByte
    <2>4. arrived' \in 0..Len(line')
      BY <2>2, <1>6 DEF ReadByte
    <2> QED
      BY <2>2, <2>3, <2>4, <1>6 DEF ReadByte
  <1>7. CASE ReadFails
    BY <1>7, ThrowType DEF ReadFails
  <1>8. CASE Expire
    BY <1>8 DEF Expire, MayWaitAgain, BudgetAfterExpiry, ArmedAfterExpiry,
                wireVars, RetryBudget
  <1>9. CASE TimeOut
    BY <1>9, ThrowType DEF TimeOut
  <1>10. CASE EchoRead
    <2>1. PaddingLength(request.protocol) \in Nat
      BY FrameSizes
    <2>2. want' \in Nat /\ phase' \in {"padding", "header"}
      BY <2>1, <1>10 DEF EchoRead, ReadBytes
    <2>3. phase' = "header" => want' = 2
      BY <1>10 DEF EchoRead, ReadBytes
    <2>4. got' = <<>> /\ remaining' = 5
      BY <1>10 DEF EchoRead, ReadBytes, RetryBudget
    <2> QED
      BY <2>2, <2>3, <2>4, <1>10 DEF EchoRead, wireVars, RetryBudget
  <1>11. CASE PaddingRead
    BY <1>11 DEF PaddingRead, ReadBytes, wireVars, RetryBudget
  <1>12. CASE HeaderRead
    <2> DEFINE length == got[2].val
    <2>0. got \in Seq(Byte) /\ Len(got) = 2
      BY <1>12 DEF HeaderRead, ReadDone
    <2>1. got[2] \in Byte
      <3>1. 2 \in 1..Len(got)
        BY <2>0
      <3> QED
        BY <3>1, <2>0, ElementOfSeq
    <2>2. length \in Nat
      BY <2>1 DEF Byte
    <2>3. CASE GarbageLength(request.protocol, length)
      BY <2>3, <1>12, ThrowType DEF HeaderRead
    <2>4. CASE ~GarbageLength(request.protocol, length)
      <3>1. request.protocol \in {"DS2", "KWP"}
        BY DEF Exchanges
      <3>2. BodyLength(request.protocol, length) \in Nat
        BY <2>2, <2>4, <3>1 DEF GarbageLength, BodyLength
      <3>3. /\ phase' = "body" /\ header' = got /\ got' = <<>> /\ remaining' = 5
            /\ want' \in Nat
            /\ UNCHANGED <<port, request, wireVars, waited, outcome>>
        BY <3>2, <2>4, <1>12 DEF HeaderRead, ReadBytes, RetryBudget, Throw
      <3> QED
        BY <3>3 DEF wireVars, RetryBudget
    <2> QED
      BY <2>3, <2>4
  <1>13. CASE BodyRead
    <2>1. header \o got \in Seq(Byte)
      BY ConcatProperties
    <2> QED
      BY <2>1, <1>13, ReturnType DEF BodyRead
  <1>14. CASE Arrive
    BY <1>14 DEF Arrive, readVars
  <1>15. ASSUME NEW x \in heard, Replies(x) PROVE TypeInv'
    <2>1. x \in Exchanges(Nat)
      OBVIOUS
    <2> QED
      BY <2>1, <1>15, ReplyType, AnswerType DEF Replies
  <1>16. ASSUME NEW x \in heard, StaysSilent(x) PROVE TypeInv'
    BY <1>16, AnswerType DEF StaysSilent
  <1>17. ASSUME NEW x \in heard, BreaksOff(x) PROVE TypeInv'
    <2>1. PICK n \in 1..ReplyLength(x.protocol, x.size) - 1:
             Answer(x, SubSeq(Reply(x), 1, n))
      BY <1>17 DEF BreaksOff
    <2>2. x \in Exchanges(Nat)
      OBVIOUS
    <2>5. /\ Reply(x) \in Seq(Byte)
          /\ Len(Reply(x)) = ReplyLength(x.protocol, x.size)
          /\ ReplyLength(x.protocol, x.size) \in Nat
      BY <2>2, ReplyType, FrameSizes
    <2>3. \A i \in 1..n: Reply(x)[i] \in Byte
      BY <2>5, ElementOfSeq
    <2>4. SubSeq(Reply(x), 1, n) \in Seq(Byte)
      BY <2>3, SubSeqProperties
    <2> QED
      BY <2>1, <2>4, <1>17, AnswerType DEF BreaksOff
  <1>18. ASSUME NEW x \in heard, IsGarbled(x) PROVE TypeInv'
    <2>1. PICK i \in {PaddingLength(x.protocol) + 2,
                      ReplyLength(x.protocol, x.size)}, v \in StrayValues:
             Answer(x, [Reply(x) EXCEPT ![i] = [of |-> x.id, pos |-> 0, val |-> v]])
      BY <1>18 DEF IsGarbled
    <2>2. x \in Exchanges(Nat)
      OBVIOUS
    <2>6. /\ Len(Reply(x)) = ReplyLength(x.protocol, x.size)
          /\ PaddingLength(x.protocol) \in Nat /\ x.size \in Nat
      BY <2>2, ReplyType, FrameSizes
    <2>3. i \in 1..Len(Reply(x))
      BY <2>6, <2>1 DEF ReplyLength
    <2>4. [of |-> x.id, pos |-> 0, val |-> v] \in Byte
      BY <2>2, FrameSizes, QueryAssumption DEF Byte
    <2>5. [Reply(x) EXCEPT ![i] = [of |-> x.id, pos |-> 0, val |-> v]] \in Seq(Byte)
      BY <2>2, <2>3, <2>4, ReplyType, ExceptSeq
    <2> QED
      BY <2>1, <2>5, <1>18, AnswerType DEF IsGarbled
  <1>19. CASE HangUp
    BY <1>19 DEF HangUp, readVars
  <1>20. CASE UNCHANGED vars
    BY <1>20 DEF vars, readVars, wireVars
  <1> QED
    BY <1>1, <1>2, <1>3, <1>4, <1>5, <1>6, <1>7, <1>8, <1>9, <1>10, <1>11,
       <1>12, <1>13, <1>14, <1>15, <1>16, <1>17, <1>18, <1>19, <1>20
    DEF Next, Caller, Loop, Continue, Wire

(* Type correctness of query(): in particular the counter of select        *)
(* periods stays between 1 and 5, and the body of a reply is never read    *)
(* with a negative length.                                                 *)
THEOREM TypeCorrect == Spec => []TypeOK
  <1>1. Spec => []TypeInv
    BY InitType, NextType, PTL DEF Spec
  <1>2. TypeInv => TypeOK
    BY DEF TypeInv
  <1> QED
    BY <1>1, <1>2, PTL

-----------------------------------------------------------------------------
(* Bounded waiting.                                                        *)

(* Within a query waited mirrors remaining: once a select has expired fd   *)
(* is out of the set, so the call it belongs to can only time out.         *)
WaitInv ==
    /\ waited <= RetryBudget
    /\ phase # "idle" => waited = RetryBudget - remaining
    /\ phase # "idle" /\ armed => remaining = RetryBudget
    /\ phase # "idle" /\ ~armed => Len(got) < want

LEMMA InitWait == Init => WaitInv
  BY DEF Init, WaitInv, RetryBudget

(* The wire never touches what query() and readBytes keep.                 *)
LEMMA WireFrame ==
    ASSUME Wire
    PROVE  UNCHANGED <<port, request, phase, want, got, armed, remaining,
                       header, outcome, waited>>
  <1>1. CASE Arrive
    BY <1>1 DEF Arrive, readVars
  <1>2. ASSUME NEW x \in heard, NEW bytes, Answer(x, bytes)
        PROVE  UNCHANGED <<port, request, phase, want, got, armed, remaining,
                           header, outcome, waited>>
    BY <1>2 DEF Answer, readVars
  <1> QED
    BY <1>1, <1>2 DEF Wire, Replies, StaysSilent, BreaksOff, IsGarbled

(* Between two calls nothing has been waited for.                          *)
LEMMA DoneWait ==
    ASSUME TypeInv, WaitInv, ReadDone
    PROVE  waited = 0
  <1>1. Len(got) \in Nat /\ want \in Nat
    BY LenProperties DEF TypeInv, TypeOK
  <1>2. armed
    BY <1>1 DEF WaitInv, ReadDone
  <1> QED
    BY <1>2 DEF WaitInv, ReadDone, RetryBudget

LEMMA NextWait == TypeInv /\ TypeInv' /\ WaitInv /\ [Next]_vars => WaitInv'
  <1> SUFFICES ASSUME TypeInv, TypeInv', WaitInv, [Next]_vars PROVE WaitInv'
    OBVIOUS
  <1> USE DEF WaitInv
  <1>0. /\ remaining \in 1..5 /\ want \in Nat /\ waited \in Nat
        /\ RetryBudget = 5
    BY DEF TypeInv, TypeOK, RetryBudget
  <1> USE <1>0
  <1>1. CASE SetFd
    BY <1>1 DEF SetFd, readVars
  <1>2. CASE RefuseClosedPort \/ RefuseProtocol \/ ShortWrite
    BY <1>2 DEF RefuseClosedPort, RefuseProtocol, ShortWrite, Submit, Throw, Return
  <1>3. ASSUME NEW x \in Exchanges({request.id + 1}), Send(x) PROVE WaitInv'
    BY <1>3 DEF Send, Submit, ReadBytes
  <1>4. CASE ReadByte
    BY <1>4 DEF ReadByte
  <1>5. CASE ReadFails
    BY <1>5 DEF ReadFails, Throw
  <1>6. CASE Expire
    BY <1>6 DEF Expire, Reading, MayWaitAgain, BudgetAfterExpiry, ArmedAfterExpiry
  <1>7. CASE TimeOut
    BY <1>7 DEF TimeOut, Reading, MayWaitAgain, Throw
  <1>8. CASE EchoRead
    <2>1. waited = 0 /\ UNCHANGED waited
      BY <1>8, DoneWait DEF EchoRead
    <2>2. remaining' = 5 /\ armed'
      BY <1>8 DEF EchoRead, ReadBytes
    <2> QED
      BY <2>1, <2>2
  <1>9. CASE PaddingRead
    BY <1>9, DoneWait DEF PaddingRead, ReadBytes
  <1>10. CASE HeaderRead
    <2>1. waited = 0 /\ UNCHANGED waited
      BY <1>10, DoneWait DEF HeaderRead
    <2>2. phase' = "idle" \/ (remaining' = 5 /\ armed')
      BY <1>10 DEF HeaderRead, ReadBytes, Throw
    <2> QED
      BY <2>1, <2>2
  <1>11. CASE BodyRead
    BY <1>11 DEF BodyRead, Return
  <1>12. CASE Wire
    BY <1>12, WireFrame
  <1>13. CASE HangUp
    BY <1>13 DEF HangUp, readVars
  <1>14. CASE UNCHANGED vars
    BY <1>14 DEF vars, readVars
  <1> QED
    BY <1>1, <1>2, <1>3, <1>4, <1>5, <1>6, <1>7, <1>8, <1>9, <1>10, <1>11,
       <1>12, <1>13, <1>14
    DEF Next, Caller, Loop, Continue

(* One query waits through at most five select periods, whatever its       *)
(* frames and the faults of the wire: manager.cpp grants five to each of   *)
(* its readBytes calls, and the first one to expire is the last call.      *)
THEOREM BoundedWait == Spec => []WaitIsBounded
  <1> DEFINE Inv == TypeInv /\ WaitInv
  <1>1. Init => Inv
    BY InitType, InitWait
  <1>2. Inv /\ [Next]_vars => Inv'
    BY NextType, NextWait
  <1>3. Inv => WaitIsBounded
    BY DEF WaitInv, WaitIsBounded
  <1>4. Spec => []Inv
    <2> HIDE DEF Inv
    <2> QED
      BY <1>1, <1>2, PTL DEF Spec
  <1> QED
    BY <1>3, <1>4, PTL

-----------------------------------------------------------------------------
(* The alignment of query() with the bytes of its exchange.                *)

EchoSize == EchoLength(request.protocol)
PaddingSize == PaddingLength(request.protocol)
ReplySize == ReplyLength(request.protocol, request.size)

(* Position in the exchange before the first byte of the running call, and *)
(* the number of bytes the call should ask for.                            *)
Start == CASE phase = "echo" -> 0
           [] phase = "padding" -> EchoSize
           [] phase = "header" -> EchoSize + PaddingSize
           [] OTHER -> EchoSize + PaddingSize + 2
Due == CASE phase = "echo" -> EchoSize
         [] phase = "padding" -> PaddingSize
         [] phase = "header" -> 2
         [] OTHER -> request.size + 1

Consumed == Start + Len(got)

(* What has been read and what is still on the line are consecutive bytes  *)
(* of the exchange, and the reply is still owed or ends with the line.     *)
InStep ==
    /\ want = Due
    /\ Len(got) <= want
    /\ \A i \in 1..Len(got): got[i] = ByteAt(request, Start + i)
    /\ \A i \in 1..Len(line): line[i] = ByteAt(request, Consumed + i)
    /\ Consumed + Len(line) <= EchoSize + ReplySize
    /\ heard \subseteq {request}
    /\ heard # {} => Consumed + Len(line) = EchoSize
    /\ phase = "body" =>
         header = <<ByteAt(request, EchoSize + PaddingSize + 1),
                    ByteAt(request, EchoSize + PaddingSize + 2)>>

AlignInv ==
    /\ port = "hungup" => abandoned
    /\ ~abandoned /\ phase = "idle" => line = <<>> /\ heard = {}
    /\ ~abandoned /\ phase # "idle" => InStep
    /\ ~abandoned => IsAnswer

LEMMA InitAlign == Init => AlignInv
  BY DEF Init, AlignInv, IsAnswer

(* The sizes of the current exchange.                                      *)
LEMMA Sizes ==
    ASSUME TypeInv
    PROVE  /\ request \in Exchanges(Nat)
           /\ EchoSize \in Nat \ {0} /\ PaddingSize \in Nat
           /\ request.size \in Nat \ {0}
           /\ ReplySize = PaddingSize + 2 + request.size + 1
           /\ Start \in Nat
           /\ Len(got) \in Nat /\ Len(line) \in Nat
  <1>1. request \in Exchanges(Nat) /\ got \in Seq(Byte) /\ line \in Seq(Byte)
    BY DEF TypeInv, TypeOK
  <1>2. EchoSize \in Nat \ {0} /\ PaddingSize \in Nat /\ request.size \in Nat \ {0}
    BY <1>1, FrameSizes DEF EchoSize, PaddingSize
  <1>3. Start \in Nat
    BY <1>2 DEF Start
  <1> QED
    BY <1>1, <1>2, <1>3, LenProperties DEF ReplySize, ReplyLength, PaddingSize

(* An exception leaves nothing misaligned that is not counted as loss.     *)
LEMMA ThrowAlign ==
    ASSUME AlignInv, NEW e, e # "packet", Throw(e), UNCHANGED <<port, wireVars>>
    PROVE  AlignInv'
  BY DEF AlignInv, IsAnswer, Throw, wireVars

(* A module that sends the first bytes of its reply keeps query() in step. *)
LEMMA AnswerAlign ==
    ASSUME TypeInv, AlignInv, NEW x \in heard, NEW bytes \in Seq(Byte),
           Answer(x, bytes), abandoned' = abandoned,
           Len(bytes) <= ReplyLength(x.protocol, x.size),
           \A i \in 1..Len(bytes): bytes[i] = ByteAt(x, EchoLength(x.protocol) + i)
    PROVE  AlignInv'
  <1>1. CASE abandoned
    BY <1>1 DEF AlignInv, Answer
  <1>2. CASE ~abandoned
    <2>1. phase # "idle" /\ InStep
      BY <1>2 DEF AlignInv
    <2>2. x = request /\ heard' = {}
      BY <2>1 DEF InStep, Answer
    <2>3. Consumed + Len(line) = EchoSize
      BY <2>1 DEF InStep
    <2>4. UNCHANGED <<port, request, phase, want, got, header, outcome>>
      BY DEF Answer, readVars
    <2>5. /\ Len(line') = Len(line) + Len(bytes)
          /\ \A i \in 1..Len(line) + Len(bytes): line'[i] =
               IF i <= Len(line) THEN line[i] ELSE bytes[i - Len(line)]
      BY ConcatProperties DEF Answer, TypeInv, TypeOK
    <2>6. /\ Consumed' = Consumed /\ Start' = Start /\ Due' = Due
          /\ EchoSize' = EchoSize /\ PaddingSize' = PaddingSize
          /\ ReplySize' = ReplySize
      BY <2>4 DEF Consumed, Start, Due, EchoSize, PaddingSize, ReplySize
    <2>7. Consumed \in Nat /\ Len(bytes) \in Nat /\ Len(line) \in Nat
          /\ ReplySize \in Nat /\ EchoSize \in Nat
      BY Sizes, LenProperties DEF Consumed
    <2>8. ASSUME NEW i \in 1..Len(line')
          PROVE  line'[i] = ByteAt(request, Consumed + i)
      <3>1. CASE i <= Len(line)
        BY <3>1, <2>1, <2>5, <2>7 DEF InStep
      <3>2. CASE i > Len(line)
        <4>1. i - Len(line) \in 1..Len(bytes)
          BY <3>2, <2>5, <2>7
        <4>2. line'[i] = bytes[i - Len(line)]
          BY <3>2, <2>5, <2>7
        <4>3. bytes[i - Len(line)] = ByteAt(request, EchoSize + (i - Len(line)))
          BY <4>1, <2>2 DEF EchoSize
        <4>4. EchoSize + (i - Len(line)) = Consumed + i
          BY <2>3, <2>7
        <4> QED
          BY <4>2, <4>3, <4>4
      <3> QED
        BY <3>1, <3>2, <2>5, <2>7
    <2>9. Consumed + Len(line') <= EchoSize + ReplySize
      BY <2>2, <2>3, <2>5, <2>7 DEF ReplySize
    <2>10. InStep'
      BY <2>1, <2>2, <2>4, <2>6, <2>8, <2>9 DEF InStep
    <2> QED
      BY <2>1, <2>4, <2>10 DEF AlignInv, IsAnswer
  <1> QED
    BY <1>1, <1>2

(* Sending a command on a quiet line starts in step.                       *)
LEMMA SendAlign ==
    ASSUME TypeInv, AlignInv, NEW x \in Exchanges({request.id + 1}), Send(x)
    PROVE  AlignInv'
  <1>1. CASE abandoned
    BY <1>1 DEF AlignInv, Send
  <1>2. CASE ~abandoned
    <2>1. line = <<>> /\ heard = {}
      BY <1>2 DEF AlignInv, Send, Submit
    <2>2. request.id + 1 \in Nat
      BY DEF TypeInv, TypeOK, Exchanges
    <2>3. x \in Exchanges(Nat)
      BY <2>2 DEF Exchanges
    <2>4. line' = Echo(x) /\ heard' = {x}
      BY <2>1, <2>3, EchoType, ConcatEmptySeq DEF Send
    <2>5. request' = x /\ phase' = "echo" /\ want' = EchoLength(x.protocol)
          /\ got' = <<>>
      BY DEF Send, ReadBytes
    <2>6. /\ EchoSize' = EchoLength(x.protocol)
          /\ ReplySize' = ReplyLength(x.protocol, x.size)
          /\ Start' = 0 /\ Consumed' = 0
      BY <2>5, NoBytes DEF EchoSize, ReplySize, Start, Consumed
    <2>7. Due' = EchoLength(x.protocol)
      BY <2>5, <2>6 DEF Due
    <2>8. /\ Len(line') = EchoLength(x.protocol)
          /\ \A i \in 1..EchoLength(x.protocol): line'[i] = ByteAt(x, i)
      BY <2>3, <2>4, EchoType
    <2>9. EchoLength(x.protocol) \in Nat /\ ReplyLength(x.protocol, x.size) \in Nat
      BY <2>3, FrameSizes
    <2>10. \A i \in 1..Len(line'): line'[i] = ByteAt(request', Consumed' + i)
      BY <2>5, <2>6, <2>8, <2>9
    <2>11. InStep'
      BY <2>4, <2>5, <2>6, <2>7, <2>8, <2>9, <2>10, NoBytes DEF InStep
    <2> QED
      BY <2>5, <2>11, <1>2 DEF AlignInv, IsAnswer, Send
  <1> QED
    BY <1>1, <1>2

(* Reading a byte moves it from the line to the call that reads.           *)
LEMMA ReadAlign ==
    ASSUME TypeInv, AlignInv, ReadByte
    PROVE  AlignInv'
  <1>1. CASE abandoned
    BY <1>1 DEF AlignInv, ReadByte
  <1>2. CASE ~abandoned
    <2>1. InStep
      BY <1>2 DEF AlignInv, ReadByte, Reading
    <2>2. line # <<>> /\ line \in Seq(Byte) /\ got \in Seq(Byte)
      BY DEF ReadByte, TypeInv, TypeOK
    <2>3. Head(line) \in Byte /\ Head(line) = line[1]
      BY <2>2, HeadTailProperties
    <2>4. /\ Len(line') = Len(line) - 1
          /\ \A i \in 1..Len(line'): line'[i] = line[i + 1]
      BY <2>2, HeadTailProperties DEF ReadByte
    <2>5. /\ Len(got') = Len(got) + 1
          /\ \A i \in 1..Len(got): got'[i] = got[i]
          /\ got'[Len(got) + 1] = line[1]
      BY <2>2, <2>3 DEF ReadByte
    <2>6. UNCHANGED <<port, request, phase, want, header, heard, outcome, abandoned>>
      BY DEF ReadByte
    <2>7. /\ Start' = Start /\ Due' = Due /\ EchoSize' = EchoSize
          /\ PaddingSize' = PaddingSize /\ ReplySize' = ReplySize
      BY <2>6 DEF Start, Due, EchoSize, PaddingSize, ReplySize
    <2>8. Start \in Nat /\ Len(got) \in Nat /\ Len(line) \in Nat
      BY Sizes
    <2>9. Consumed' = Consumed + 1 /\ Consumed \in Nat
      BY <2>5, <2>7, <2>8 DEF Consumed
    <2>10. Len(line) >= 1
      BY <2>2, <2>8, EmptySeq
    <2>11. line[1] = ByteAt(request, Consumed + 1)
      BY <2>1, <2>8, <2>10 DEF InStep
    <2>12. \A i \in 1..Len(got'): got'[i] = ByteAt(request, Start + i)
      <3>1. ASSUME NEW i \in 1..Len(got')
            PROVE  got'[i] = ByteAt(request, Start + i)
        <4>1. CASE i <= Len(got)
          BY <4>1, <2>1, <2>5, <2>8 DEF InStep
        <4>2. CASE i = Len(got) + 1
          BY <4>2, <2>5, <2>8, <2>11 DEF Consumed
        <4> QED
          BY <4>1, <4>2, <2>5, <2>8
      <3> QED
        BY <3>1
    <2>13. \A i \in 1..Len(line'): line'[i] = ByteAt(request, Consumed' + i)
      <3>1. ASSUME NEW i \in 1..Len(line')
            PROVE  line'[i] = ByteAt(request, Consumed' + i)
        <4>1. i + 1 \in 1..Len(line)
          BY <2>4, <2>8
        <4>2. line'[i] = ByteAt(request, Consumed + (i + 1))
          BY <4>1, <2>1, <2>4 DEF InStep
        <4>3. Consumed + (i + 1) = Consumed' + i
          BY <2>9
        <4> QED
          BY <4>2, <4>3
      <3> QED
        BY <3>1
    <2>14. Len(got') <= want
      <3>1. want \in Nat
        BY DEF TypeInv, TypeOK
      <3> QED
        BY <3>1, <2>5, <2>8 DEF ReadByte, Reading
    <2>15. Consumed' + Len(line') = Consumed + Len(line)
      BY <2>4, <2>8, <2>9
    <2>16. InStep'
      BY <2>1, <2>6, <2>7, <2>12, <2>13, <2>14, <2>15 DEF InStep
    <2> QED
      BY <2>6, <2>16, <1>2 DEF AlignInv, IsAnswer, ReadByte, Reading
  <1> QED
    BY <1>1, <1>2

(* A call that asks for what is due next, after one that was complete.     *)
LEMMA NextCallAlign ==
    ASSUME TypeInv, AlignInv, ReadDone,
           UNCHANGED <<port, request, line, heard, outcome, abandoned>>,
           phase' # "idle", got' = <<>>,
           ~abandoned => /\ Start' = Start + Len(got)
                         /\ want' = Due'
                         /\ phase' = "body" =>
                              header' = <<ByteAt(request, EchoSize + PaddingSize + 1),
                                          ByteAt(request, EchoSize + PaddingSize + 2)>>
    PROVE  AlignInv'
  <1>1. CASE abandoned
    BY <1>1 DEF AlignInv
  <1>2. CASE ~abandoned
    <2>1. InStep
      BY <1>2 DEF AlignInv, ReadDone
    <2>2. /\ EchoSize' = EchoSize /\ PaddingSize' = PaddingSize
          /\ ReplySize' = ReplySize
      BY DEF EchoSize, PaddingSize, ReplySize
    <2>3. Start \in Nat /\ Len(got) \in Nat
      BY Sizes
    <2>4. Consumed' = Consumed
      BY <1>2, <2>3, NoBytes DEF Consumed
    <2>5. Due' >= 0
      <3>1. /\ EchoLength(request.protocol) \in Nat
            /\ PaddingLength(request.protocol) \in Nat /\ request.size \in Nat
        BY Sizes, FrameSizes
      <3> QED
        BY <3>1, <2>2 DEF Due, EchoSize, PaddingSize
    <2>6. InStep'
      BY <1>2, <2>1, <2>2, <2>4, <2>5, NoBytes DEF InStep
    <2> QED
      BY <1>2, <2>6 DEF AlignInv, IsAnswer
  <1> QED
    BY <1>1, <1>2

LEMMA EchoReadAlign ==
    ASSUME TypeInv, AlignInv, EchoRead
    PROVE  AlignInv'
  <1>1. /\ UNCHANGED <<port, request, line, heard, outcome, abandoned>>
        /\ got' = <<>> /\ ReadDone /\ phase = "echo"
    BY DEF EchoRead, ReadBytes, wireVars
  <1>2. CASE PaddingSize > 0
    <2>1. phase' = "padding" /\ want' = PaddingSize
      BY <1>2 DEF EchoRead, ReadBytes, PaddingSize
    <2>2. Start = 0 /\ Start' = EchoSize /\ Due' = PaddingSize
      BY <1>1, <2>1 DEF Start, Due, EchoSize, PaddingSize
    <2>3. ~abandoned => Len(got) = EchoSize
      BY <1>1 DEF AlignInv, InStep, Due, ReadDone
    <2>4. EchoSize \in Nat
      BY Sizes
    <2> QED
      BY <1>1, <2>1, <2>2, <2>3, <2>4, NextCallAlign
  <1>3. CASE ~(PaddingSize > 0)
    <2>1. phase' = "header" /\ want' = 2
      BY <1>3 DEF EchoRead, ReadBytes, PaddingSize
    <2>2. EchoSize \in Nat /\ PaddingSize = 0
      BY <1>3, Sizes
    <2>3. Start = 0 /\ Start' = EchoSize /\ Due' = 2
      BY <1>1, <2>1, <2>2 DEF Start, Due, EchoSize, PaddingSize
    <2>4. ~abandoned => Len(got) = EchoSize
      BY <1>1 DEF AlignInv, InStep, Due, ReadDone
    <2> QED
      BY <1>1, <2>1, <2>2, <2>3, <2>4, NextCallAlign
  <1> QED
    BY <1>2, <1>3

LEMMA PaddingReadAlign ==
    ASSUME TypeInv, AlignInv, PaddingRead
    PROVE  AlignInv'
  <1>1. /\ UNCHANGED <<port, request, line, heard, outcome, abandoned>>
        /\ got' = <<>> /\ ReadDone /\ phase = "padding"
        /\ phase' = "header" /\ want' = 2
    BY DEF PaddingRead, ReadBytes, wireVars
  <1>2. Start = EchoSize /\ Start' = EchoSize + PaddingSize /\ Due' = 2
    BY <1>1 DEF Start, Due, EchoSize, PaddingSize
  <1>3. ~abandoned => Len(got) = PaddingSize
    BY <1>1 DEF AlignInv, InStep, Due, ReadDone
  <1> QED
    BY <1>1, <1>2, <1>3, NextCallAlign

(* Because the header call started in step, the number the code takes for  *)
(* the length is the length of the reply, in the unit of its protocol.     *)
LEMMA HeaderReadAlign ==
    ASSUME TypeInv, AlignInv, HeaderRead
    PROVE  AlignInv'
  <1> DEFINE length == got[2].val
             first == EchoSize + PaddingSize
  <1>1. CASE GarbageLength(request.protocol, length)
    <2>1. Throw("ios_failure") /\ UNCHANGED <<port, wireVars>>
      BY <1>1 DEF HeaderRead
    <2> QED
      BY <2>1, ThrowAlign
  <1>2. CASE ~GarbageLength(request.protocol, length)
    <2>1. /\ UNCHANGED <<port, request, line, heard, outcome, abandoned>>
          /\ got' = <<>> /\ ReadDone /\ phase = "header" /\ phase' = "body"
          /\ header' = got
          /\ want' = BodyLength(request.protocol, length)
      BY <1>2 DEF HeaderRead, ReadBytes, wireVars
    <2>2. /\ request \in Exchanges(Nat) /\ EchoSize \in Nat /\ PaddingSize \in Nat
          /\ got \in Seq(Byte)
      BY Sizes DEF TypeInv, TypeOK
    <2>3. Start = first /\ Start' = first + 2 /\ Due' = request.size + 1
      BY <2>1 DEF Start, Due, EchoSize, PaddingSize
    <2>4. ASSUME ~abandoned
          PROVE  /\ Start' = Start + Len(got)
                 /\ want' = Due'
                 /\ header' = <<ByteAt(request, first + 1), ByteAt(request, first + 2)>>
      <3>1. InStep
        BY <2>1, <2>4 DEF AlignInv
      <3>2. Len(got) = 2
        BY <2>1, <3>1 DEF InStep, Due, ReadDone
      <3>3. got[1] = ByteAt(request, first + 1) /\ got[2] = ByteAt(request, first + 2)
        BY <3>1, <3>2, <2>3 DEF InStep
      <3>4. got = <<got[1], got[2]>>
        BY <2>2, <3>2
      <3>5. length = LengthField(request.protocol, request.size)
        BY <2>2, <3>3, LengthByte DEF EchoSize, PaddingSize
      <3>6. want' = request.size + 1
        BY <2>1, <2>2, <3>5, FrameSizes
      <3> QED
        BY <2>1, <2>3, <3>2, <3>3, <3>4, <3>6
    <2> QED
      BY <2>1, <2>4, NextCallAlign
  <1> QED
    BY <1>1, <1>2

(* The body that follows a header in step completes the reply.             *)
LEMMA BodyReadAlign ==
    ASSUME TypeInv, AlignInv, BodyRead
    PROVE  AlignInv'
  <1>1. CASE abandoned
    BY <1>1 DEF AlignInv, BodyRead, Return
  <1>2. CASE ~abandoned
    <2> DEFINE first == EchoSize + PaddingSize
               a == ByteAt(request, first + 1)
               l == ByteAt(request, first + 2)
    <2>1. /\ UNCHANGED <<port, request, line, heard, abandoned>>
          /\ phase' = "idle" /\ phase = "body" /\ ReadDone
          /\ outcome' = [kind |-> "packet", bytes |-> header \o got]
      BY DEF BodyRead, Return, wireVars
    <2>2. InStep
      BY <1>2, <2>1 DEF AlignInv
    <2>3. /\ request \in Exchanges(Nat) /\ EchoSize \in Nat \ {0}
          /\ PaddingSize \in Nat /\ request.size \in Nat \ {0}
          /\ ReplySize = PaddingSize + 2 + request.size + 1
          /\ Len(line) \in Nat
      BY Sizes
    <2>4. /\ Start = first + 2 /\ Len(got) = request.size + 1
          /\ header = <<a, l>>
      BY <2>1, <2>2 DEF InStep, Start, Due, ReadDone
    <2>5. Consumed = EchoSize + ReplySize
      BY <2>3, <2>4 DEF Consumed
    <2>6. line = <<>> /\ heard = {}
      <3>1. Len(line) = 0
        BY <2>2, <2>3, <2>5 DEF InStep
      <3>2. line = <<>>
        BY <3>1, EmptySeq DEF TypeInv, TypeOK
      <3>3. heard = {}
        BY <2>2, <2>3, <2>5 DEF InStep
      <3> QED
        BY <3>2, <3>3
    <2>7. header \in Seq(Byte) /\ got \in Seq(Byte) /\ Len(header) = 2
      BY <2>4 DEF TypeInv, TypeOK
    <2> DEFINE n == 2 + request.size + 1
               packet == PacketOf(request)
    <2>8. /\ header \o got \in Seq(Byte)
          /\ Len(header \o got) = n
          /\ \A i \in 1..n: (header \o got)[i] =
                IF i <= 2 THEN header[i] ELSE got[i - 2]
      <3>1. Len(header) + Len(got) = n
        BY <2>3, <2>4, <2>7
      <3>2. /\ header \o got \in Seq(Byte)
            /\ Len(header \o got) = Len(header) + Len(got)
            /\ \A i \in 1..Len(header) + Len(got): (header \o got)[i] =
                  IF i <= Len(header) THEN header[i] ELSE got[i - Len(header)]
        BY <2>7, ConcatProperties
      <3> HIDE DEF n
      <3> QED
        BY <2>7, <3>1, <3>2
    <2>9. /\ packet \in Seq(Byte) /\ Len(packet) = n
          /\ \A i \in 1..n: packet[i] = ByteAt(request, first + i)
      <3>1. \A i \in 1..n: ByteAt(request, first + i) \in Byte
        BY <2>3, ByteType
      <3>2. packet = [i \in 1..n |-> ByteAt(request, first + i)]
        BY DEF PacketOf, EchoSize, PaddingSize
      <3>3. n \in Nat
        BY <2>3
      <3> HIDE DEF n, first, packet
      <3>4. packet \in [1..n -> Byte]
        BY <3>1, <3>2
      <3> QED
        BY <3>2, <3>3, <3>4
    <2>10. ASSUME NEW i \in 1..n
           PROVE  (header \o got)[i] = packet[i]
      <3>0. /\ (header \o got)[i] = IF i <= 2 THEN header[i] ELSE got[i - 2]
            /\ packet[i] = ByteAt(request, first + i)
            /\ i \in Nat \ {0} /\ i <= n
        <4>1. n \in Nat
          BY <2>3
        <4> HIDE DEF n, first, packet
        <4>2. i \in Nat \ {0} /\ i <= n
          BY <4>1
        <4> QED
          BY <2>8, <2>9, <4>2
      <3>1. CASE i <= 2
        <4>1. header[1] = a /\ header[2] = l
          BY <2>4
        <4>2. i = 1 \/ i = 2
          BY <3>0, <3>1
        <4> QED
          BY <3>0, <3>1, <4>1, <4>2
      <3>2. CASE i > 2
        <4>1. i - 2 \in 1..Len(got)
          BY <3>0, <3>2, <2>3, <2>4
        <4>2. got[i - 2] = ByteAt(request, Start + (i - 2))
          BY <4>1, <2>2 DEF InStep
        <4>3. Start + (i - 2) = first + i
          BY <2>3, <2>4
        <4> QED
          BY <3>0, <3>2, <4>2, <4>3
      <3> QED
        BY <3>0, <3>1, <3>2
    <2>11. header \o got = packet
      <3> HIDE DEF n, packet
      <3> QED
        BY <2>8, <2>9, <2>10, SeqEqual
    <2> QED
      BY <1>2, <2>1, <2>6, <2>11 DEF AlignInv, IsAnswer
  <1> QED
    BY <1>1, <1>2

LEMMA NextAlign == TypeInv /\ AlignInv /\ [Next]_vars => AlignInv'
  <1> SUFFICES ASSUME TypeInv, AlignInv, [Next]_vars PROVE AlignInv'
    OBVIOUS
  <1>1. CASE SetFd
    <2>1. UNCHANGED <<request, phase, want, got, header, line, heard, outcome, abandoned>>
      BY <1>1 DEF SetFd, readVars, wireVars
    <2>2. port' # "hungup" /\ phase = "idle"
      BY <1>1 DEF SetFd
    <2> QED
      BY <2>1, <2>2 DEF AlignInv, IsAnswer
  <1>2. CASE RefuseClosedPort
    BY <1>2, ThrowAlign DEF RefuseClosedPort
  <1>3. CASE RefuseProtocol
    BY <1>3, ThrowAlign DEF RefuseProtocol
  <1>4. CASE ShortWrite
    BY <1>4 DEF ShortWrite, Return, AlignInv
  <1>5. ASSUME NEW x \in Exchanges({request.id + 1}), Send(x) PROVE AlignInv'
    BY <1>5, SendAlign
  <1>6. CASE ReadByte
    BY <1>6, ReadAlign
  <1>7. CASE ReadFails
    BY <1>7, ThrowAlign DEF ReadFails
  <1>8. CASE Expire
    <2>1. UNCHANGED <<port, request, phase, want, got, header, line, heard, outcome, abandoned>>
      BY <1>8 DEF Expire, wireVars
    <2> QED
      BY <2>1 DEF AlignInv, IsAnswer, InStep, Consumed, Start, Due, EchoSize,
                  PaddingSize, ReplySize
  <1>9. CASE TimeOut
    BY <1>9, ThrowAlign DEF TimeOut
  <1>10. CASE EchoRead
    BY <1>10, EchoReadAlign
  <1>11. CASE PaddingRead
    BY <1>11, PaddingReadAlign
  <1>12. CASE HeaderRead
    BY <1>12, HeaderReadAlign
  <1>13. CASE BodyRead
    BY <1>13, BodyReadAlign
  <1>14. CASE Arrive
    <2>1. UNCHANGED <<port, request, phase, want, got, header, line, heard, outcome, abandoned>>
      BY <1>14 DEF Arrive, readVars
    <2> QED
      BY <2>1 DEF AlignInv, IsAnswer, InStep, Consumed, Start, Due, EchoSize,
                  PaddingSize, ReplySize
  <1>15. ASSUME NEW x \in heard PROVE Replies(x) => AlignInv'
    <2>1. x \in Exchanges(Nat)
      BY DEF TypeInv, TypeOK
    <2>2. /\ Reply(x) \in Seq(Byte)
          /\ Len(Reply(x)) <= ReplyLength(x.protocol, x.size)
          /\ \A i \in 1..Len(Reply(x)):
               Reply(x)[i] = ByteAt(x, EchoLength(x.protocol) + i)
      BY <2>1, ReplyType, FrameSizes
    <2> QED
      BY <2>2, AnswerAlign DEF Replies
  <1>16. ASSUME NEW x \in heard PROVE StaysSilent(x) => AlignInv'
    <2>1. x \in Exchanges(Nat)
      BY DEF TypeInv, TypeOK
    <2>2. Len(<<>>) <= ReplyLength(x.protocol, x.size)
      BY <2>1, NoBytes, FrameSizes
    <2>3. \A i \in 1..Len(<<>>): <<>>[i] = ByteAt(x, EchoLength(x.protocol) + i)
      BY NoBytes
    <2> QED
      BY <2>2, <2>3, NoBytes, AnswerAlign DEF StaysSilent
  <1>17. ASSUME NEW x \in heard PROVE BreaksOff(x) => AlignInv'
    <2> SUFFICES ASSUME NEW n \in 1..ReplyLength(x.protocol, x.size) - 1,
                        Answer(x, SubSeq(Reply(x), 1, n)), abandoned' = abandoned
                 PROVE  AlignInv'
      BY DEF BreaksOff
    <2>1. x \in Exchanges(Nat)
      BY DEF TypeInv, TypeOK
    <2>2. /\ Reply(x) \in Seq(Byte)
          /\ Len(Reply(x)) = ReplyLength(x.protocol, x.size)
          /\ ReplyLength(x.protocol, x.size) \in Nat
          /\ \A i \in 1..ReplyLength(x.protocol, x.size):
               Reply(x)[i] = ByteAt(x, EchoLength(x.protocol) + i)
      BY <2>1, ReplyType, FrameSizes
    <2> DEFINE part == SubSeq(Reply(x), 1, n)
    <2>3. \A i \in 1..n: Reply(x)[i] \in Byte
      BY <2>2, ElementOfSeq
    <2>4. part \in Seq(Byte) /\ Len(part) = n /\ \A i \in 1..n: part[i] = Reply(x)[i]
      BY <2>3, SubSeqProperties
    <2>5. /\ Len(part) <= ReplyLength(x.protocol, x.size)
          /\ \A i \in 1..Len(part): part[i] = ByteAt(x, EchoLength(x.protocol) + i)
      BY <2>2, <2>4
    <2> HIDE DEF part
    <2> QED
      BY <2>4, <2>5, AnswerAlign DEF part
  <1>18. ASSUME NEW x \in heard PROVE IsGarbled(x) => AlignInv'
    BY DEF IsGarbled, AlignInv
  <1>19. CASE HangUp
    BY <1>19 DEF HangUp, AlignInv
  <1>20. CASE UNCHANGED vars
    <2>1. UNCHANGED <<port, request, phase, want, got, header, line, heard, outcome, abandoned>>
      BY <1>20 DEF vars, readVars, wireVars
    <2> QED
      BY <2>1 DEF AlignInv, IsAnswer, InStep, Consumed, Start, Due, EchoSize,
                  PaddingSize, ReplySize
  <1> QED
    BY <1>1, <1>2, <1>3, <1>4, <1>5, <1>6, <1>7, <1>8, <1>9, <1>10, <1>11,
       <1>12, <1>13, <1>14, <1>15, <1>16, <1>17, <1>18, <1>19, <1>20
    DEF Next, Caller, Loop, Continue, Wire

LEMMA Aligned == Spec => [](TypeInv /\ AlignInv)
  <1> DEFINE Inv == TypeInv /\ AlignInv
  <1>1. Init => Inv
    BY InitType, InitAlign
  <1>2. Inv /\ [Next]_vars => Inv'
    BY NextType, NextAlign
  <1> HIDE DEF Inv
  <1>3. Spec => []Inv
    BY <1>1, <1>2, PTL DEF Spec
  <1> QED
    BY <1>3 DEF Inv

(* Whatever the wire does, a packet that is not the reply to the command   *)
(* just sent is preceded by the loss of bytes: an exception that left some *)
(* behind, noise, or the adapter going away.                               *)
THEOREM WrongAnswerNeedsLoss == Spec => []WrongOnlyAfterLoss
  <1>1. AlignInv => WrongOnlyAfterLoss
    BY DEF AlignInv, WrongOnlyAfterLoss
  <1> QED
    BY <1>1, Aligned, PTL

(* Until such a loss every path out of query() leaves the wire quiet.      *)
THEOREM QuietLine == Spec => []QuietBetweenQueries
  <1>1. AlignInv => QuietBetweenQueries
    BY DEF AlignInv, QuietBetweenQueries
  <1> QED
    BY <1>1, Aligned, PTL

-----------------------------------------------------------------------------
(* A timely wire: replies may be missing or cut off, but not late or       *)
(* garbled, and the adapter stays.                                         *)
Timely == Faults \subseteq {"absent", "truncate"}

(* Nothing is lost, because a select only ever expires on a quiet wire.    *)
TimelyInv ==
    /\ ~abandoned
    /\ phase # "idle" /\ ~armed => line = <<>> /\ heard = {}

LEMMA InitTimely == Init => TimelyInv
  BY DEF Init, TimelyInv

(* In step, the length byte is never taken for garbage.                    *)
LEMMA NoGarbage ==
    ASSUME TypeInv, AlignInv, ~abandoned, phase = "header", ReadDone
    PROVE  ~GarbageLength(request.protocol, got[2].val)
  <1>1. InStep
    BY DEF AlignInv
  <1>2. Start = EchoSize + PaddingSize /\ Len(got) = 2
    BY <1>1 DEF InStep, Start, Due, ReadDone
  <1>3. got[2] = ByteAt(request, EchoSize + PaddingSize + 2)
    BY <1>1, <1>2 DEF InStep
  <1>4. got[2].val = LengthField(request.protocol, request.size)
    BY <1>3, Sizes, LengthByte DEF EchoSize, PaddingSize
  <1> QED
    BY <1>4, Sizes, FrameSizes

(* A readBytes call that expires on a timely wire finds it quiet.          *)
LEMMA QuietAtExpiry ==
    ASSUME Timely, TimelyInv, Reading, Silence
    PROVE  line = <<>> /\ heard = {}
  BY DEF Timely, TimelyInv, Reading, Silence

LEMMA NextTimely ==
    ASSUME Timely
    PROVE  TypeInv /\ AlignInv /\ TimelyInv /\ [Next]_vars => TimelyInv'
  <1> SUFFICES ASSUME TypeInv, AlignInv, TimelyInv, [Next]_vars PROVE TimelyInv'
    OBVIOUS
  <1>1. phase = "idle" => line = <<>> /\ heard = {}
    BY DEF AlignInv, TimelyInv
  <1>2. port # "hungup"
    BY DEF AlignInv, TimelyInv
  <1>3. CASE SetFd
    BY <1>3 DEF SetFd, TimelyInv
  <1>4. CASE RefuseClosedPort \/ RefuseProtocol \/ ShortWrite
    BY <1>1, <1>2, <1>4
    DEF RefuseClosedPort, RefuseProtocol, ShortWrite, Submit, Throw, TimelyInv
  <1>5. ASSUME NEW x \in Exchanges({request.id + 1}), Send(x) PROVE TimelyInv'
    BY <1>5 DEF Send, ReadBytes, TimelyInv
  <1>6. CASE ReadByte
    BY <1>6 DEF ReadByte, TimelyInv
  <1>7. CASE ReadFails
    BY <1>2, <1>7 DEF ReadFails
  <1>8. CASE Expire
    BY <1>8, QuietAtExpiry DEF Expire, TimelyInv, wireVars
  <1>9. CASE TimeOut
    BY <1>9, QuietAtExpiry DEF TimeOut, Throw, TimelyInv
  <1>10. CASE EchoRead \/ PaddingRead
    BY <1>10 DEF EchoRead, PaddingRead, ReadBytes, TimelyInv
  <1>11. CASE HeaderRead
    <2>1. ~GarbageLength(request.protocol, got[2].val)
      BY <1>11, NoGarbage DEF HeaderRead, TimelyInv
    <2> QED
      BY <1>11, <2>1 DEF HeaderRead, ReadBytes, TimelyInv
  <1>12. CASE BodyRead
    BY <1>12 DEF BodyRead, Return, TimelyInv
  <1>13. CASE Wire
    <2>1. CASE Arrive
      BY <2>1 DEF Arrive, readVars, TimelyInv
    <2>2. ASSUME NEW x \in heard, Replies(x) \/ StaysSilent(x) \/ BreaksOff(x)
          PROVE  TimelyInv'
      BY <2>2 DEF Replies, StaysSilent, BreaksOff, Answer, readVars, TimelyInv
    <2>3. ASSUME NEW x \in heard PROVE ~IsGarbled(x)
      BY DEF IsGarbled, Timely
    <2> QED
      BY <1>13, <2>1, <2>2, <2>3 DEF Wire
  <1>14. ~HangUp
    BY DEF HangUp, Timely
  <1>15. CASE UNCHANGED vars
    BY <1>15 DEF vars, readVars, wireVars, TimelyInv
  <1> QED
    BY <1>3, <1>4, <1>5, <1>6, <1>7, <1>8, <1>9, <1>10, <1>11, <1>12, <1>13,
       <1>14, <1>15
    DEF Next, Caller, Loop, Continue

LEMMA TimelyAligned ==
    ASSUME Timely
    PROVE  Spec => [](TypeInv /\ AlignInv /\ TimelyInv)
  <1> DEFINE Inv == TypeInv /\ AlignInv /\ TimelyInv
  <1>1. Init => Inv
    BY InitType, InitAlign, InitTimely
  <1>2. Inv /\ [Next]_vars => Inv'
    BY NextType, NextAlign, NextTimely
  <1> HIDE DEF Inv
  <1>3. Spec => []Inv
    BY <1>1, <1>2, PTL DEF Spec
  <1> QED
    BY <1>3 DEF Inv

(* On a timely wire every packet answers its own query, also after any     *)
(* number of timeouts and broken replies.                                  *)
THEOREM TimelyAnswers ==
    ASSUME Timely
    PROVE  Spec => []AnswersOwnQuery
  <1>1. AlignInv /\ TimelyInv => AnswersOwnQuery
    BY DEF AlignInv, TimelyInv, AnswersOwnQuery
  <1> QED
    BY <1>1, TimelyAligned, PTL

-----------------------------------------------------------------------------
(* Refinement of Transport.                                                *)

LEMMA InitPromise == Init => Promise!Init
  BY DEF Init, Promise!Init, Promise!NoResult, ResultSeen, Exchanges

(* Every exception and every early exit is a Refuse or a Fail.             *)
LEMMA ThrowPromise ==
    ASSUME NEW e \in {"timeout", "ios_failure", "invalid_argument", "runtime_error"},
           Throw(e)
    PROVE  phase' = "idle" /\ ResultSeen' = Promise!Failure
  BY DEF Throw, ResultSeen, Promise!Failure

LEMMA UnchangedPromise ==
    ASSUME UNCHANGED <<request, outcome>>, (phase' = "idle") <=> (phase = "idle")
    PROVE  UNCHANGED Promise!vars
  BY DEF Promise!vars, ResultSeen

LEMMA NextPromise ==
    ASSUME Timely
    PROVE  /\ TypeInv /\ AlignInv /\ TimelyInv
           /\ AlignInv' /\ TimelyInv'
           /\ [Next]_vars
           => [Promise!Next]_(Promise!vars)
  <1> SUFFICES ASSUME TypeInv, AlignInv, TimelyInv, AlignInv', TimelyInv', [Next]_vars
               PROVE  [Promise!Next]_(Promise!vars)
    OBVIOUS
  <1>0. request \in Exchanges(Nat)
    BY Sizes
  <1>1. CASE SetFd
    BY <1>1, UnchangedPromise DEF SetFd
  <1>2. CASE RefuseClosedPort \/ RefuseProtocol
    <2>1. phase = "idle" /\ request'.id = request.id + 1
      BY <1>0, <1>2 DEF RefuseClosedPort, RefuseProtocol, Submit, Exchanges
    <2>2. phase' = "idle" /\ ResultSeen' = Promise!Failure
      BY <1>2, ThrowPromise DEF RefuseClosedPort, RefuseProtocol
    <2>3. Promise!Refuse
      BY <2>1, <2>2 DEF Promise!Refuse
    <2> QED
      BY <2>3 DEF Promise!Next
  <1>3. ~ShortWrite
    BY DEF ShortWrite, AlignInv, TimelyInv
  <1>4. ASSUME NEW x \in Exchanges({request.id + 1}), Send(x)
        PROVE  Promise!Ask
    <2>1. phase = "idle" /\ phase' = "echo" /\ request' = x
      BY <1>4 DEF Send, Submit
    <2>2. x.id = request.id + 1
      BY DEF Exchanges
    <2>3. ResultSeen' = Promise!NoResult
      BY <1>4 DEF Send, ResultSeen, Promise!NoResult
    <2> QED
      BY <2>1, <2>2, <2>3 DEF Promise!Ask
  <1>5. CASE ReadByte \/ Expire
    BY <1>5, UnchangedPromise DEF ReadByte, Expire
  <1>6. CASE ReadFails \/ TimeOut
    <2>1. phase # "idle" /\ UNCHANGED request
      BY <1>6 DEF ReadFails, TimeOut, Reading
    <2>2. phase' = "idle" /\ ResultSeen' = Promise!Failure
      BY <1>6, ThrowPromise DEF ReadFails, TimeOut
    <2>3. Promise!Fail
      BY <2>1, <2>2 DEF Promise!Fail
    <2> QED
      BY <2>3 DEF Promise!Next
  <1>7. CASE EchoRead \/ PaddingRead
    BY <1>7, UnchangedPromise DEF EchoRead, PaddingRead
  <1>8. CASE HeaderRead
    <2>1. ~GarbageLength(request.protocol, got[2].val)
      BY <1>8, NoGarbage DEF HeaderRead, TimelyInv
    <2> QED
      BY <1>8, <2>1, UnchangedPromise DEF HeaderRead
  <1>9. CASE BodyRead
    <2>1. phase # "idle" /\ phase' = "idle" /\ UNCHANGED request
          /\ outcome'.kind = "packet"
      BY <1>9 DEF BodyRead, Return
    <2>2. outcome'.bytes = PacketOf(request)'
      BY <2>1 DEF AlignInv, TimelyInv, IsAnswer
    <2>3. ResultSeen' = Promise!AnswerTo(request.id)
      BY <2>1, <2>2 DEF ResultSeen, Promise!AnswerTo
    <2>4. Promise!GetAnswer
      BY <2>1, <2>3 DEF Promise!GetAnswer
    <2> QED
      BY <2>4 DEF Promise!Next
  <1>10. CASE Wire
    BY <1>10, WireFrame, UnchangedPromise
  <1>11. ~HangUp
    BY DEF HangUp, Timely
  <1>12. CASE UNCHANGED vars
    BY <1>12, UnchangedPromise DEF vars
  <1> QED
    BY <1>1, <1>2, <1>3, <1>4, <1>5, <1>6, <1>7, <1>8, <1>9, <1>10, <1>11, <1>12
    DEF Next, Caller, Loop, Continue, Promise!Next

(* On a timely wire query() implements the synchronous exchange its        *)
(* callers assume: one query at a time, each of which is refused, fails or *)
(* yields its own answer.                                                  *)
THEOREM QueryRefinesTransport ==
    ASSUME Timely
    PROVE  Spec => ImplementsTransport
  <1> DEFINE Inv == TypeInv /\ AlignInv /\ TimelyInv
  <1>1. Init => Promise!Init
    BY InitPromise
  <1>2. Inv /\ Inv' /\ [Next]_vars => [Promise!Next]_(Promise!vars)
    BY NextPromise
  <1>3. Spec => []Inv
    BY TimelyAligned
  <1> HIDE DEF Inv
  <1> QED
    BY <1>1, <1>2, <1>3, PTL DEF Spec, ImplementsTransport, Promise!Spec
=============================================================================
