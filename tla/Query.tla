-------------------------------- MODULE Query --------------------------------
(***************************************************************************)
(* Manager::query and readBytes (libds2/manager.cpp): one query at a time  *)
(* over the K-line, a half-duplex serial wire on which the tester first    *)
(* reads back its own frame (the echo) and then the frame of the control   *)
(* unit that answers.                                                      *)
(*                                                                         *)
(* A byte is known by the query whose exchange it belongs to, its position *)
(* in that exchange (echo first, then reply) and the number the code sees  *)
(* when it takes the byte for a length field.  What the bytes mean, the    *)
(* usleep calls and the trace output are left out.                         *)
(***************************************************************************)
EXTENDS Naturals, Sequences

CONSTANTS
    MaxQueries,     \* bound: how many queries the tester sends
    CommandLength,  \* data bytes of a command
    DataLengths,    \* numbers of data bytes a control unit answers with
    StrayValues,    \* values of the bytes that are not length fields
    Faults          \* what the wire and the control units may do wrong

FaultKinds == {"absent", "truncate", "late", "garble", "hangup"}

(* A reply carries at least one data byte (the DS2 status byte).           *)
ASSUME QueryAssumption ==
    /\ MaxQueries \in Nat
    /\ CommandLength \in Nat \ {0}
    /\ DataLengths \subseteq Nat \ {0}
    /\ StrayValues \subseteq Nat
    /\ Faults \subseteq FaultKinds

VARIABLES
    port,       \* the descriptor _fd: "closed", "open" or "hungup"
    request,    \* the exchange of the query last submitted
    phase,      \* which readBytes call of query() is running
    want,       \* its argument length
    got,        \* its ret
    armed,      \* fd is in the fd_set given to select
    remaining,  \* its remainingTimeouts
    header,     \* the two header bytes of the reply being read
    line,       \* bytes sent and not yet read, oldest first
    arrived,    \* how many of them the serial driver has buffered
    heard,      \* exchanges whose control unit has not answered yet
    outcome,    \* what the last query returned or threw
    waited,     \* history: select calls of this query that expired
    abandoned   \* history: bytes were left behind, garbled or dropped

readVars == <<want, got, armed, remaining>>
wireVars == <<line, arrived, heard>>
vars == <<port, request, phase, readVars, header, wireVars, outcome,
          waited, abandoned>>

-----------------------------------------------------------------------------
(* Frames.                                                                 *)

(* toByteArray of the command: DS2 target, length, data, checksum; KWP     *)
(* magic byte, target, source, length, data, checksum.                     *)
EchoLength(p) == CommandLength + (IF p = "KWP" THEN 5 ELSE 3)

(* expectedHeaderPadding: the magic byte and the tester's address.         *)
PaddingLength(p) == IF p = "KWP" THEN 2 ELSE 0

(* The length byte of a frame with n data bytes.                           *)
LengthField(p, n) == IF p = "KWP" THEN n ELSE n + 3

EchoLengthAt(p) == IF p = "KWP" THEN 4 ELSE 2

(* Padding, source address, length, data and checksum.                     *)
ReplyLength(p, n) == PaddingLength(p) + 2 + n + 1

(* What query() reads after the header, given the length byte it saw.      *)
BodyLength_NoChecksum(p, length) == IF p = "KWP" THEN length ELSE length - 2
BodyLength(p, length) == IF p = "KWP" THEN length + 1 ELSE length - 2

Exchanges(ids) == [id: ids, protocol: {"DS2", "KWP"}, size: DataLengths,
                   stray: StrayValues]

(* Byte i of the exchange x: the echo, then the reply.                     *)
ByteAt(x, i) ==
    [of  |-> x.id,
     pos |-> i,
     val |-> IF i = EchoLengthAt(x.protocol)
             THEN LengthField(x.protocol, CommandLength)
             ELSE IF i = EchoLength(x.protocol) + PaddingLength(x.protocol) + 2
             THEN LengthField(x.protocol, x.size)
             ELSE x.stray]

Echo(x) == [i \in 1..EchoLength(x.protocol) |-> ByteAt(x, i)]
Reply(x) == [i \in 1..ReplyLength(x.protocol, x.size) |->
                ByteAt(x, EchoLength(x.protocol) + i)]

Byte == [of: Nat, pos: Nat, val: Nat]

-----------------------------------------------------------------------------
(* readBytes.                                                              *)

RetryBudget == 5

(* select() empties the set when it expires, and readBytes fills it once,  *)
(* before its loop.                                                        *)
ArmedAfterExpiry_Refilled == TRUE
ArmedAfterExpiry == FALSE

BudgetAfterExpiry == remaining - 1

(* The loop goes on as long as the decremented counter is not 0.           *)
MayWaitAgain_PostDecrement == remaining > 0
MayWaitAgain == remaining > 1

(* A call readBytes(fd, n) begins.                                         *)
ReadBytes(n) ==
    /\ want' = n
    /\ got' = <<>>
    /\ armed' = TRUE
    /\ remaining' = RetryBudget

NoRead ==
    /\ want' = 0
    /\ got' = <<>>
    /\ armed' = FALSE
    /\ remaining' = RetryBudget

Reading == phase # "idle" /\ Len(got) < want
ReadDone == phase # "idle" /\ Len(got) = want

(* query() is left by a return (kind "packet") or by an exception.         *)
Return(bytes) ==
    /\ phase' = "idle"
    /\ outcome' = [kind |-> "packet", bytes |-> bytes]
    /\ header' = <<>>
    /\ NoRead
    /\ UNCHANGED abandoned

Throw(exception) ==
    /\ phase' = "idle"
    /\ outcome' = [kind |-> exception, bytes |-> <<>>]
    /\ header' = <<>>
    /\ NoRead
    /\ abandoned' = (abandoned \/ line # <<>> \/ heard # {})

-----------------------------------------------------------------------------
(* Manager::setFd, once the caller has opened the device.                  *)
SetFd ==
    /\ phase = "idle"
    /\ port = "closed"
    /\ port' = "open"
    /\ UNCHANGED <<request, phase, readVars, header, wireVars, outcome,
                   waited, abandoned>>

(* The early exits of query().                                             *)
Submit ==
    /\ phase = "idle"
    /\ request.id < MaxQueries
    /\ waited' = 0

RefuseClosedPort ==
    /\ Submit
    /\ port = "closed"
    /\ request' = [request EXCEPT !.id = @ + 1]
    /\ Throw("ios_failure")
    /\ UNCHANGED <<port, wireVars>>

RefuseProtocol ==
    /\ Submit
    /\ port # "closed"
    /\ request' = [request EXCEPT !.id = @ + 1]
    /\ Throw("invalid_argument")
    /\ UNCHANGED <<port, wireVars>>

(* write() fails: the packet just constructed is returned, empty.          *)
ShortWrite ==
    /\ Submit
    /\ port = "hungup"
    /\ request' = [request EXCEPT !.id = @ + 1]
    /\ Return(<<>>)
    /\ UNCHANGED <<port, wireVars>>

(* write() succeeds and readBytes waits for the echo.                      *)
Send(x) ==
    /\ Submit
    /\ port = "open"
    /\ request' = x
    /\ phase' = "echo"
    /\ ReadBytes(EchoLength(x.protocol))
    /\ line' = line \o Echo(x)
    /\ heard' = heard \cup {x}
    /\ outcome' = [kind |-> "none", bytes |-> <<>>]
    /\ UNCHANGED <<port, header, arrived, abandoned>>

-----------------------------------------------------------------------------
(* The select loop: data ready, end of file, expiry.                       *)

ReadByte ==
    /\ Reading
    /\ armed
    /\ port = "open"
    /\ arrived > 0
    /\ got' = Append(got, Head(line))
    /\ line' = Tail(line)
    /\ arrived' = arrived - 1
    /\ UNCHANGED <<port, request, phase, want, armed, remaining, header,
                   heard, outcome, waited, abandoned>>

(* A hung-up tty is readable and read() returns nothing.                   *)
ReadFails ==
    /\ Reading
    /\ armed
    /\ port = "hungup"
    /\ Throw("runtime_error")
    /\ UNCHANGED <<port, request, wireVars, waited>>

(* select() waits in vain: always when its set is empty, otherwise when    *)
(* nothing has arrived.  Unless replies may be late, the 500 ms only pass  *)
(* when nothing is under way.                                              *)
Silence_NoTimeval == ~armed
Silence ==
    \/ ~armed
    \/ /\ port = "open"
       /\ arrived = 0
       /\ "late" \in Faults \/ (line = <<>> /\ heard = {})

Expire ==
    /\ Reading
    /\ Silence
    /\ MayWaitAgain
    /\ remaining' = BudgetAfterExpiry
    /\ armed' = ArmedAfterExpiry
    /\ waited' = waited + 1
    /\ UNCHANGED <<port, request, phase, want, got, header, wireVars,
                   outcome, abandoned>>

TimeOut ==
    /\ Reading
    /\ Silence
    /\ ~MayWaitAgain
    /\ waited' = waited + 1
    /\ Throw("timeout")
    /\ UNCHANGED <<port, request, wireVars>>

-----------------------------------------------------------------------------
(* What query() does between its readBytes calls.                          *)

(* The echo is read and not compared with what was written.                *)
EchoRead ==
    /\ phase = "echo"
    /\ ReadDone
    /\ LET padding == PaddingLength(request.protocol) IN
         IF padding > 0
         THEN phase' = "padding" /\ ReadBytes(padding)
         ELSE phase' = "header" /\ ReadBytes(2)
    /\ UNCHANGED <<port, request, header, wireVars, outcome, waited,
                   abandoned>>

(* An unexpected padding is only logged.                                   *)
PaddingRead ==
    /\ phase = "padding"
    /\ ReadDone
    /\ phase' = "header"
    /\ ReadBytes(2)
    /\ UNCHANGED <<port, request, header, wireVars, outcome, waited,
                   abandoned>>

GarbageLength(p, length) == p = "DS2" /\ length < 4

(* The address is stored in the packet and not compared with the target.   *)
HeaderRead ==
    /\ phase = "header"
    /\ ReadDone
    /\ LET length == got[2].val IN
         \/ /\ GarbageLength(request.protocol, length)
            /\ Throw("ios_failure")
         \/ /\ ~GarbageLength(request.protocol, length)
            /\ phase' = "body"
            /\ header' = got
            /\ ReadBytes(BodyLength(request.protocol, length))
            /\ UNCHANGED <<outcome, abandoned>>
    /\ UNCHANGED <<port, request, wireVars, waited>>

(* A checksum that does not match is only logged.                          *)
BodyRead ==
    /\ phase = "body"
    /\ ReadDone
    /\ Return(header \o got)
    /\ UNCHANGED <<port, request, wireVars, waited>>

-----------------------------------------------------------------------------
(* The wire and the control units, which are not under the program's       *)
(* control.                                                                *)

Arrive ==
    /\ arrived < Len(line)
    /\ arrived' = arrived + 1
    /\ UNCHANGED <<port, request, phase, readVars, header, line, heard,
                   outcome, waited, abandoned>>

(* The control unit x was meant for sends bytes and is done with it.       *)
Answer(x, bytes) ==
    /\ x \in heard
    /\ heard' = heard \ {x}
    /\ line' = line \o bytes
    /\ UNCHANGED <<port, request, phase, readVars, header, arrived, outcome,
                   waited>>

Replies(x) ==
    /\ Answer(x, Reply(x))
    /\ UNCHANGED abandoned

(* No control unit at the address.                                         *)
StaysSilent(x) ==
    /\ "absent" \in Faults
    /\ Answer(x, <<>>)
    /\ UNCHANGED abandoned

(* The reply breaks off.                                                   *)
BreaksOff(x) ==
    /\ "truncate" \in Faults
    /\ \E n \in 1..ReplyLength(x.protocol, x.size) - 1:
         Answer(x, SubSeq(Reply(x), 1, n))
    /\ UNCHANGED abandoned

(* One byte of the reply, at position 0 from now on, is not what was sent: *)
(* the length byte, or the last one, which stands for all the others.      *)
IsGarbled(x) ==
    /\ "garble" \in Faults
    /\ \E i \in {PaddingLength(x.protocol) + 2,
               ReplyLength(x.protocol, x.size)}, v \in StrayValues:
         Answer(x, [Reply(x) EXCEPT ![i] = [of |-> x.id, pos |-> 0, val |-> v]])
    /\ abandoned' = TRUE

(* The serial adapter goes away: the descriptor stays valid, its buffers   *)
(* are gone.                                                               *)
HangUp ==
    /\ "hangup" \in Faults
    /\ port = "open"
    /\ port' = "hungup"
    /\ line' = <<>>
    /\ arrived' = 0
    /\ heard' = {}
    /\ abandoned' = TRUE
    /\ UNCHANGED <<request, phase, readVars, header, outcome, waited>>

-----------------------------------------------------------------------------
Init ==
    /\ port = "closed"
    /\ request \in Exchanges({0})
    /\ phase = "idle"
    /\ want = 0
    /\ got = <<>>
    /\ armed = FALSE
    /\ remaining = RetryBudget
    /\ header = <<>>
    /\ line = <<>>
    /\ arrived = 0
    /\ heard = {}
    /\ outcome = [kind |-> "none", bytes |-> <<>>]
    /\ waited = 0
    /\ abandoned = FALSE

Loop == ReadByte \/ ReadFails \/ Expire \/ TimeOut
Continue == EchoRead \/ PaddingRead \/ HeaderRead \/ BodyRead

Caller ==
    \/ SetFd
    \/ RefuseClosedPort
    \/ RefuseProtocol
    \/ ShortWrite
    \/ \E x \in Exchanges({request.id + 1}): Send(x)

Wire ==
    \/ Arrive
    \/ \E x \in heard:
         \/ Replies(x)
         \/ StaysSilent(x)
         \/ BreaksOff(x)
         \/ IsGarbled(x)

Next == Caller \/ Loop \/ Continue \/ Wire \/ HangUp

Spec == Init /\ [][Next]_vars

(* The tester's thread runs: select() returns or expires and query() goes  *)
(* on.  Nothing is assumed of the wire.                                    *)
FairSpec == Spec /\ WF_vars(Loop \/ Continue)

-----------------------------------------------------------------------------
(* Type invariant of the variables of query(), readBytes and the wire: in  *)
(* particular the select counter never reaches 0 inside a call, and no     *)
(* call is made with a negative length.                                    *)
FlagsOK == armed \in BOOLEAN /\ abandoned \in BOOLEAN

TypeOK ==
    /\ FlagsOK
    /\ port \in {"closed", "open", "hungup"}
    /\ request \in Exchanges(Nat)
    /\ phase \in {"idle", "echo", "padding", "header", "body"}
    /\ want \in Nat
    /\ got \in Seq(Byte)
    /\ remaining \in 1..RetryBudget
    /\ header \in Seq(Byte)
    /\ line \in Seq(Byte)
    /\ arrived \in 0..Len(line)
    /\ heard \in SUBSET Exchanges(Nat)
    /\ outcome \in [kind: {"none", "packet", "timeout", "ios_failure",
                           "invalid_argument", "runtime_error"},
                    bytes: Seq(Byte)]
    /\ waited \in Nat

(* The reply bytes of exchange x that make up a packet: all but the        *)
(* padding, in order.                                                      *)
PacketOf(x) ==
    [i \in 1..(2 + x.size + 1) |->
        ByteAt(x, EchoLength(x.protocol) + PaddingLength(x.protocol) + i)]

IsAnswer == outcome.kind = "packet" => outcome.bytes = PacketOf(request)

(* A packet query() returns is the complete reply to the command it has    *)
(* just sent, unless an earlier query threw with bytes still on the wire   *)
(* or owed, or the wire itself garbled or lost bytes: neither the echo     *)
(* length, nor the padding, nor the length byte of either protocol ever    *)
(* makes query() read one byte too few or too many.                        *)
WrongOnlyAfterLoss == ~abandoned => IsAnswer

(* As long as nothing was lost the wire is quiet whenever query() is not   *)
(* running: every return path has consumed all the bytes of its exchange.  *)
QuietBetweenQueries ==
    phase = "idle" /\ ~abandoned => line = <<>> /\ heard = {}

(* On a wire where replies may be missing or cut off, but never late or    *)
(* garbled, each packet answers its own query, however many queries timed  *)
(* out before.                                                             *)
AnswersOwnQuery == IsAnswer

(* How the last query ended, as its caller sees it: bytes that are not the *)
(* reply to the current request answer nobody.                             *)
ResultSeen ==
    CASE outcome.kind = "none" -> [kind |-> "none", of |-> 0]
      [] outcome.kind = "packet" ->
           [kind |-> "answer",
            of |-> IF outcome.bytes = PacketOf(request) THEN request.id ELSE 0]
      [] OTHER -> [kind |-> "failure", of |-> 0]

Promise == INSTANCE Transport WITH
    busy <- phase # "idle", asked <- request.id, result <- ResultSeen

(* On the same wire query() implements the synchronous transport that      *)
(* executeOperation and the identification code are written against.       *)
ImplementsTransport == Promise!Spec

(* The three or four readBytes calls of a query have five expiries each,    *)
(* yet one query never waits through more than five: the first expiry of a *)
(* call is followed only by others.                                        *)
WaitIsBounded == waited <= RetryBudget

(* Each query comes to an end, whatever the wire does.                     *)
QueryEnds == phase # "idle" ~> phase = "idle"

(* A TimeoutException is thrown only when there is nothing to read: the    *)
(* further periods readBytes grants ("reset timeout") wait for a byte.     *)
TimeoutMeansSilence ==
    [][outcome'.kind = "timeout" /\ phase # "idle" => arrived = 0]_vars
=============================================================================
