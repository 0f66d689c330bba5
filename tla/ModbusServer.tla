---------------------------- MODULE ModbusServer ----------------------------
(***************************************************************************)
(* The Modbus TCP server (network/ModbusMeterServer.cpp): one client at a  *)
(* time, whose requests arrive in pieces of any size, cut short, several   *)
(* at once, or never complete.  A byte is known by the request it belongs  *)
(* to and its place in it.                                                 *)
(***************************************************************************)
EXTENDS Integers, Sequences, FiniteSetsExt

CONSTANTS
  ModbusRequests, \* the requests of the clients
  ModbusLimit     \* bound on the requests of one connection

\* "length" is what the header says, with the header itself.
RequestType ==
  [protocol : BOOLEAN, function : BOOLEAN, range : BOOLEAN, length : 6 .. 300]

ASSUME ModbusAssumption == ModbusRequests \subseteq RequestType /\ ModbusLimit \in Nat

VARIABLES
  modbusAllowed, \* the setting is on and there is a network
  modbusRunning, \* modbusMeterServerRunning
  modbusPending, \* "none", "local" or "foreign": a connection to be accepted
  modbusClient,  \* modbusMeterClient holds a connection
  modbusClosed,  \* the client has closed its side
  modbusSocket,  \* received bytes that have not been read
  modbusBuffer,  \* modbusRequest, up to modbusRequestLength
  modbusTimer,   \* "run", or "due" when kModbusClientTimeoutMs have passed
  modbusPc,      \* "idle", "first" or "second" stage of reading, "end"
  modbusAsked,   \* the requests of this connection
  modbusAnswers  \* the answers on this connection

modbusPeer == <<modbusAllowed, modbusPending>>
modbusVars == <<modbusPeer, modbusRunning, modbusClient, modbusClosed, modbusSocket,
                modbusBuffer, modbusTimer, modbusPc, modbusAsked, modbusAnswers>>
-----------------------------------------------------------------------------
Bytes(request) == [i \in 1 .. request.length |-> [of |-> request, at |-> i]]

\* processModbusRequest(), with what buildModbusMeterRegisters() fills in or the
\* exception sendModbusException() sends.
AnswerTo(request) ==
  IF ~request.protocol \/ ~request.function THEN "exception 1"
  ELSE IF request.length # 12 THEN "exception 3"
  ELSE IF ~request.range THEN "exception 2"
  ELSE "registers"

\* The answer to what has been gathered; "mixed" when it is not one request.
AnswerToBytes(bytes) ==
  IF bytes = Bytes(bytes[1].of) THEN AnswerTo(bytes[1].of) ELSE "mixed"

\* Bytes 5 and 6 of the header tell the length.
Expected(bytes) == IF Len(bytes) < 6 THEN 6 ELSE bytes[6].of.length

Misfit(bytes) == Expected(bytes) > 260 \/ (Len(bytes) >= 6 /\ Expected(bytes) < 8)
-----------------------------------------------------------------------------
\* stop() of the client and an empty request.
DropClient ==
  /\ modbusClient' = FALSE /\ modbusClosed' = FALSE
  /\ modbusSocket' = <<>> /\ modbusBuffer' = <<>>
  /\ modbusAsked' = <<>> /\ modbusAnswers' = <<>>

\* stopModbusMeterServer(); a connection that waits is refused.
StopServer ==
  /\ modbusPc = "idle" /\ ~modbusAllowed
  /\ DropClient /\ modbusRunning' = FALSE /\ modbusPending' = "none"
  /\ UNCHANGED <<modbusAllowed, modbusTimer, modbusPc>>

Connected == modbusClient /\ (~modbusClosed \/ modbusSocket # <<>>)

\* Mutant: the request of the client before is continued.
AcceptKeepingBytes ==
  /\ modbusPc = "idle" /\ modbusAllowed /\ ~Connected
  /\ modbusRunning' = TRUE
  /\ modbusClient' = (modbusPending = "local") /\ modbusClosed' = FALSE
  /\ modbusSocket' = <<>> /\ modbusAsked' = <<>> /\ modbusAnswers' = <<>>
  /\ modbusPending' = "none" /\ modbusTimer' = "run"
  /\ modbusPc' = IF modbusPending = "local" THEN "first" ELSE "idle"
  /\ UNCHANGED <<modbusAllowed, modbusBuffer>>

\* The start of the server, when it does not run, and the next client, when
\* there is none; one that does not come from the local network is sent away.
AcceptClient ==
  /\ modbusPc = "idle" /\ modbusAllowed /\ ~Connected
  /\ modbusRunning' = TRUE
  /\ modbusClient' = (modbusPending = "local") /\ modbusClosed' = FALSE
  /\ modbusSocket' = <<>> /\ modbusBuffer' = <<>>
  /\ modbusAsked' = <<>> /\ modbusAnswers' = <<>>
  /\ modbusPending' = "none" /\ modbusTimer' = "run"
  /\ modbusPc' = IF modbusPending = "local" THEN "first" ELSE "idle"
  /\ UNCHANGED modbusAllowed

GoOn ==
  /\ modbusPc = "idle" /\ modbusAllowed /\ Connected
  /\ modbusRunning' = TRUE /\ modbusPc' = "first"
  /\ UNCHANGED <<modbusPeer, modbusClient, modbusClosed, modbusSocket, modbusBuffer,
                 modbusTimer, modbusAsked, modbusAnswers>>

\* One of the two stages of reading: the header first, then what it announces.
ReadStage ==
  /\ modbusPc \in {"first", "second"}
  /\ \/ /\ Misfit(modbusBuffer)
        /\ DropClient /\ modbusPc' = "idle" /\ UNCHANGED modbusTimer
     \/ /\ ~Misfit(modbusBuffer)
        /\ \E k \in 0 .. Min({Len(modbusSocket), Expected(modbusBuffer) - Len(modbusBuffer)}) :
             LET gathered == modbusBuffer \o SubSeq(modbusSocket, 1, k)
                 whole == Len(modbusBuffer) >= 6 /\ Len(gathered) = Expected(modbusBuffer)
             IN /\ modbusSocket' = SubSeq(modbusSocket, k + 1, Len(modbusSocket))
                /\ modbusTimer' = IF k > 0 THEN "run" ELSE modbusTimer
                /\ modbusBuffer' = IF whole THEN <<>> ELSE gathered
                /\ modbusAnswers' = IF whole THEN Append(modbusAnswers, AnswerToBytes(gathered))
                                    ELSE modbusAnswers
                /\ modbusPc' = IF Len(gathered) < 6 \/ whole \/ modbusPc = "second"
                               THEN "end" ELSE "second"
        /\ UNCHANGED <<modbusClient, modbusClosed, modbusAsked>>
  /\ UNCHANGED <<modbusPeer, modbusRunning>>

\* The end of a pass: a client that has been silent for too long is dropped.
EndPass ==
  /\ modbusPc = "end" /\ modbusPc' = "idle"
  /\ \/ modbusTimer = "due" /\ DropClient
     \/ /\ modbusTimer = "run"
        /\ UNCHANGED <<modbusClient, modbusClosed, modbusSocket, modbusBuffer,
                       modbusAsked, modbusAnswers>>
  /\ UNCHANGED <<modbusPeer, modbusRunning, modbusTimer>>
-----------------------------------------------------------------------------
serverVars == <<modbusRunning, modbusClient, modbusBuffer, modbusPc, modbusAnswers>>

\* The setting, or the network, comes and goes.
ChangeAllowed ==
  /\ modbusAllowed' = ~modbusAllowed
  /\ UNCHANGED <<modbusPending, serverVars, modbusClosed, modbusSocket, modbusTimer, modbusAsked>>

Connect ==
  /\ modbusPending = "none" /\ modbusRunning
  /\ modbusPending' \in {"local", "foreign"}
  /\ UNCHANGED <<modbusAllowed, serverVars, modbusClosed, modbusSocket, modbusTimer, modbusAsked>>

\* The client asks; the bytes still under way are those of its last request.
Ask ==
  /\ modbusClient /\ ~modbusClosed /\ Len(modbusAsked) < ModbusLimit
  /\ \E request \in ModbusRequests :
       /\ modbusAsked' = Append(modbusAsked, request)
       /\ \E part \in {request.length, 7, 3} :
            /\ part <= request.length
            /\ modbusSocket' = modbusSocket \o SubSeq(Bytes(request), 1, part)
            /\ modbusClosed' = (part < request.length)
  /\ UNCHANGED <<modbusPeer, serverVars, modbusTimer>>

Close ==
  /\ modbusClient /\ ~modbusClosed /\ modbusClosed' = TRUE
  /\ UNCHANGED <<modbusPeer, serverVars, modbusSocket, modbusTimer, modbusAsked>>

TimerDue ==
  /\ modbusTimer = "run" /\ modbusTimer' = "due"
  /\ UNCHANGED <<modbusPeer, serverVars, modbusClosed, modbusSocket, modbusAsked>>

ModbusNext ==
  \/ StopServer \/ AcceptClient \/ GoOn \/ ReadStage \/ EndPass
  \/ ChangeAllowed \/ Connect \/ Ask \/ Close \/ TimerDue

ModbusInit ==
  /\ modbusAllowed = FALSE /\ modbusRunning = FALSE /\ modbusPending = "none"
  /\ modbusClient = FALSE /\ modbusClosed = FALSE /\ modbusSocket = <<>>
  /\ modbusBuffer = <<>> /\ modbusTimer = "run" /\ modbusPc = "idle"
  /\ modbusAsked = <<>> /\ modbusAnswers = <<>>

ModbusSpec == ModbusInit /\ [][ModbusNext]_modbusVars
-----------------------------------------------------------------------------
ModbusTypeOK ==
  /\ modbusAllowed \in BOOLEAN /\ modbusRunning \in BOOLEAN
  /\ modbusClient \in BOOLEAN /\ modbusClosed \in BOOLEAN
  /\ modbusPending \in {"none", "local", "foreign"} /\ modbusTimer \in {"run", "due"}
  /\ modbusPc \in {"idle", "first", "second", "end"}
  /\ Len(modbusBuffer) <= 260 /\ modbusAsked \in Seq(ModbusRequests)

\* However the bytes arrive, the answers on a connection are those to its own
\* requests, in their order: no request is skipped, answered twice, or put
\* together from the bytes of two requests or of two clients.
ModbusAnswers ==
  /\ Len(modbusAnswers) <= Len(modbusAsked)
  /\ \A i \in DOMAIN modbusAnswers : modbusAnswers[i] = AnswerTo(modbusAsked[i])
=============================================================================
