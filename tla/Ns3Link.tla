------------------------------ MODULE Ns3Link ------------------------------
(***************************************************************************)
(* The link between the trainer's round thread and the network simulator,  *)
(* in synchronous training: ns3_coordinator.py with its calls in           *)
(* fl_server_trainer.py, and the simulator's command loop (main.cc,        *)
(* fl-sim-interface.cc) around the runs of Ns3Exchange.                    *)
(*                                                                         *)
(* A stream is a sequence of words in the sizes that the two sides read:   *)
(* the header of a command and a participation flag; the header of a       *)
(* response (8 bytes) and the three fields of a message (8 bytes each).    *)
(* A word is tagged with the round it was written in, which the real one   *)
(* does not carry; the properties speak of it.                             *)
(***************************************************************************)
EXTENDS Ns3Exchange

CONSTANTS
  NumRounds,
  Setups          \* the clients of a training and what may fail: the choices

FaultKinds ==
  {"late",     \* no simulator within the 120 attempts of connect
   "overrun",  \* rounds given up, or refused by fedavg: statistics not read
   "raise",    \* with-edc: fetching the trained models ends in an exception
   "slow",     \* a simulation takes longer than the socket's 30 s
   "stall",    \* so does the gap between two of its messages
   "reset",    \* the connection breaks
   "crash"}    \* the simulator's process does

ASSUME RoundsAssumption == NumRounds \in Nat
ASSUME SetupsAssumption ==
  Setups \subseteq ((SUBSET Clients) \ {{}}) \X SUBSET FaultKinds

VARIABLES
  members, faults,  \* settled beforehand
  tpc,              \* where the round thread is
  rnd,              \* current_round
  sent,             \* words of this round's command that are sent
  items,            \* messages of the response still to be read
  stats,            \* rounds that the statistics read for this round are from
  answered,         \* responses read to their end (history)
  conn9099,         \* the trainer's socket: "none", "served", "queued" (in the
                    \* backlog behind the one connection accepted), "lost"
  toSim, toTrainer, \* what is written and unread
  spc,              \* where the simulator is
  round,            \* its own count of rounds
  command,          \* the round that the command was sent for (history)
  flags, messages,  \* flags read, messages written
  simulated         \* simulations that came to their end (history)

setup == <<members, faults>>
trainerVars == <<tpc, rnd, sent, items, stats, answered>>
simVars == <<spc, round, command, flags, messages, simulated>>
streams == <<conn9099, toSim, toTrainer>>
linkVars == <<setup, trainerVars, simVars, streams>>
vars == <<linkVars, exchangeVars>>

NumClients == Cardinality(members)
Many == NumClients + 1   \* a double taken for nItems: never counted down

Word(k, r) == [kind |-> k, round |-> r]
Message(r) == <<Word("id", r), Word("time", r), Word("throughput", r)>>
FromFirst(s, n) == SubSeq(s, n + 1, Len(s))

-----------------------------------------------------------------------------
(* Deviations: plausible slips in the actions below, each of which breaks a   *)
(* property.  They are no part of the specification.                         *)

\* flags for all but the last client
SendWordShort ==
  /\ tpc = "sending" /\ conn9099 # "none"
  /\ toSim' = IF conn9099 = "served"
              THEN Append(toSim, Word(IF sent = 0 THEN "run" ELSE "flag", rnd)) ELSE toSim
  /\ IF sent + 1 >= NumClients THEN tpc' = "training" /\ sent' = 0
                               ELSE sent' = sent + 1 /\ UNCHANGED tpc
  /\ UNCHANGED <<setup, rnd, items, stats, answered, conn9099, toTrainer, simVars,
                 exchangeVars>>

\* one message too few is read
ReadHeaderShort ==
  /\ tpc = "header" /\ toTrainer # <<>> /\ Head(toTrainer).kind = "response"
  /\ toTrainer' = Tail(toTrainer)
  /\ items' = NumClients - 1
  /\ tpc' = IF items' = 0 THEN "round" ELSE "items"
  /\ answered' = IF items' = 0 THEN answered + 1 ELSE answered
  /\ UNCHANGED <<setup, rnd, sent, stats, conn9099, toSim, simVars, exchangeVars>>

\* the response is sent while the simulation is still running
SendResponseEarly ==
  /\ spc = "running"
  /\ spc' = "sending" /\ messages' = 0
  /\ toTrainer' = IF conn9099 = "served"
                  THEN Append(toTrainer, Word("response", command)) ELSE toTrainer
  /\ UNCHANGED <<setup, trainerVars, conn9099, toSim, round, command, flags, simulated,
                 exchangeVars>>

\* the exit command is sent, the socket stays open, and the command is lost
SendExitLost ==
  /\ tpc = "round" /\ rnd = NumRounds
  /\ tpc' = "over"
  /\ UNCHANGED <<setup, rnd, sent, items, stats, answered, streams, simVars,
                 exchangeVars>>

-----------------------------------------------------------------------------
(* The trainer                                                             *)

\* connect finds the simulator in accept().
Connect ==
  /\ tpc = "connect"
  /\ tpc' = "round" /\ conn9099' = "served" /\ spc' = "recv"
  /\ UNCHANGED <<setup, rnd, sent, items, stats, answered, toSim, toTrainer, round,
                 command, flags, messages, simulated, exchangeVars>>

\* "NS3 not available - running without network emulation"
ConnectGivesUp ==
  /\ "late" \in faults
  /\ tpc = "connect"
  /\ tpc' = "round"
  /\ UNCHANGED <<setup, rnd, sent, items, stats, answered, streams, simVars,
                 exchangeVars>>

BeginRound ==
  /\ tpc = "round" /\ rnd < NumRounds
  /\ rnd' = rnd + 1
  /\ stats' = {}
  /\ tpc' = IF conn9099 = "none" THEN "training" ELSE "sending"
  /\ UNCHANGED <<setup, sent, items, answered, streams, simVars, exchangeVars>>

\* The header of RUN_SIMULATION, then a flag per client.  Into a connection
\* that nobody serves words vanish, for a while without an error.
SendWord ==
  /\ tpc = "sending"
  /\ toSim' = IF conn9099 = "served"
              THEN Append(toSim, Word(IF sent = 0 THEN "run" ELSE "flag", rnd))
              ELSE toSim
  /\ IF sent = NumClients THEN tpc' = "training" /\ sent' = 0
                          ELSE sent' = sent + 1 /\ UNCHANGED tpc
  /\ UNCHANGED <<setup, rnd, items, stats, answered, conn9099, toTrainer, simVars,
                 exchangeVars>>

\* _reconnect: a simulator that still runs has its listening socket open, but
\* calls accept no more.
SendFails ==
  /\ tpc = "sending" /\ conn9099 = "lost"
  /\ tpc' = "training" /\ sent' = 0
  /\ conn9099' = IF spc = "ended" THEN "none" ELSE "queued"
  /\ toTrainer' = <<>>
  /\ UNCHANGED <<setup, rnd, items, stats, answered, toSim, simVars, exchangeVars>>

FinishTraining ==
  /\ tpc = "training"
  /\ tpc' = IF conn9099 = "none" THEN "round" ELSE "header"
  /\ UNCHANGED <<setup, rnd, sent, items, stats, answered, streams, simVars,
                 exchangeVars>>

\* receive_round_stats is not reached.
GiveUpRound ==
  /\ "overrun" \in faults
  /\ tpc = "training"
  /\ tpc' = "round"
  /\ UNCHANGED <<setup, rnd, sent, items, stats, answered, streams, simVars,
                 exchangeVars>>

\* with-edc: the exception of a transfer, or of loading a file, ends the round thread.
\* Flask's threads keep the process and with it the socket, and nobody is left to
\* send EXIT or to read.
TrainingRaises ==
  /\ "raise" \in faults
  /\ tpc = "training"
  /\ tpc' = "raised"
  /\ UNCHANGED <<setup, rnd, sent, items, stats, answered, streams, simVars,
                 exchangeVars>>

ReadHeader ==
  /\ tpc = "header" /\ toTrainer # <<>> /\ Head(toTrainer).kind = "response"
  /\ toTrainer' = Tail(toTrainer)
  /\ items' = NumClients
  /\ tpc' = "items"
  /\ UNCHANGED <<setup, rnd, sent, stats, answered, conn9099, toSim, simVars,
                 exchangeVars>>

\* After a read that was given up half-way the next one starts inside a message.
\* An id is taken for a response without items (0) or an unexpected type; a
\* double, for either or for a response with items without end.
MisreadHeader ==
  /\ tpc = "header" /\ toTrainer # <<>> /\ Head(toTrainer).kind # "response"
  /\ toTrainer' = Tail(toTrainer)
  /\ \/ tpc' = "round" /\ UNCHANGED items
     \/ /\ Head(toTrainer).kind # "id"
        /\ tpc' = "items" /\ items' = Many
  /\ UNCHANGED <<setup, rnd, sent, stats, answered, conn9099, toSim, simVars,
                 exchangeVars>>

ReadMessage ==
  /\ tpc = "items" /\ Len(toTrainer) >= 3
  /\ toTrainer' = FromFirst(toTrainer, 3)
  /\ stats' = stats \cup {toTrainer[i].round : i \in 1..3}
  /\ items' = IF items = Many THEN Many ELSE items - 1
  /\ tpc' = IF items = 1 THEN "round" ELSE "items"
  /\ answered' = IF items = 1 THEN answered + 1 ELSE answered
  /\ UNCHANGED <<setup, rnd, sent, conn9099, toSim, simVars, exchangeVars>>

\* Words that _recv_exact waits for.
Wanted == IF tpc = "header" THEN 1 ELSE 3

\* 30 s without them: always when none are to come, otherwise if the simulator
\* takes that long.
MayTimeOut ==
  \/ conn9099 = "queued"
  \/ spc = "recv" /\ toSim = <<>>
  \/ spc \in {"recv", "flags", "running"} /\ "slow" \in faults
  \/ spc = "sending" /\ "stall" \in faults

\* The exception drops the words that had come.
ReadTimeout ==
  /\ tpc \in {"header", "items"} /\ conn9099 # "lost"
  /\ Len(toTrainer) < Wanted /\ MayTimeOut
  /\ toTrainer' = <<>>
  /\ tpc' = "round" /\ items' = 0
  /\ UNCHANGED <<setup, rnd, sent, stats, answered, conn9099, toSim, simVars,
                 exchangeVars>>

\* The end of the stream, or an error.
ReadEnds ==
  /\ tpc \in {"header", "items"} /\ conn9099 = "lost"
  /\ Len(toTrainer) < Wanted
  /\ toTrainer' = <<>>
  /\ tpc' = "round" /\ items' = 0
  /\ UNCHANGED <<setup, rnd, sent, stats, answered, conn9099, toSim, simVars,
                 exchangeVars>>

\* After the last round, or when there is nobody to send it to, just the end.
SendExit ==
  /\ tpc = "round" /\ rnd = NumRounds
  /\ tpc' = "over"
  /\ toSim' = IF conn9099 = "served" THEN Append(toSim, Word("exit", rnd)) ELSE toSim
  /\ conn9099' = "none" /\ toTrainer' = <<>>
  /\ UNCHANGED <<setup, rnd, sent, items, stats, answered, simVars, exchangeVars>>

-----------------------------------------------------------------------------
(* The simulator                                                           *)

\* Its sockets are closed with the process; what it wrote can still be read.
EndProcess ==
  /\ spc' = "ended"
  /\ conn9099' = IF conn9099 = "none" THEN "none" ELSE "lost"

RecvCommand ==
  /\ spc = "recv" /\ toSim # <<>> /\ Head(toSim).kind = "run"
  /\ spc' = "flags" /\ flags' = 0
  /\ round' = round + 1 /\ command' = Head(toSim).round
  /\ toSim' = Tail(toSim)
  /\ UNCHANGED <<setup, trainerVars, conn9099, toTrainer, messages, simulated,
                 exchangeVars>>

\* EXIT, and words that are no command.
RecvExit ==
  /\ spc = "recv" /\ toSim # <<>> /\ Head(toSim).kind # "run"
  /\ toSim' = Tail(toSim)
  /\ EndProcess
  /\ UNCHANGED <<setup, trainerVars, toTrainer, round, command, flags, messages,
                 simulated, exchangeVars>>

\* Any word is a flag to it; the last one starts the run.
RecvFlag ==
  /\ spc = "flags" /\ toSim # <<>>
  /\ toSim' = Tail(toSim)
  /\ flags' = flags + 1
  /\ IF flags' = NumClients
     THEN spc' = "running" /\ StartExperiment(members)
     ELSE UNCHANGED <<spc, exchangeVars>>
  /\ UNCHANGED <<setup, trainerVars, conn9099, toTrainer, round, command, messages,
                 simulated>>

\* End of the stream, or an error.
RecvFails ==
  /\ spc \in {"recv", "flags"} /\ toSim = <<>> /\ conn9099 # "served"
  /\ EndProcess
  /\ UNCHANGED <<setup, trainerVars, toSim, toTrainer, round, command, flags, messages,
                 simulated, exchangeVars>>

Simulate ==
  /\ spc = "running" /\ Simulation
  /\ UNCHANGED linkVars

Write(words) == toTrainer' = IF conn9099 = "served" THEN toTrainer \o words ELSE toTrainer

\* WeakNetwork returns, and the header of the response is written.
SendResponse ==
  /\ spc = "running" /\ CollectStats
  /\ spc' = "sending" /\ messages' = 0 /\ simulated' = simulated + 1
  /\ Write(<<Word("response", command)>>)
  /\ UNCHANGED <<setup, trainerVars, conn9099, toSim, round, command, flags>>

SendMessage ==
  /\ spc = "sending"
  /\ Write(Message(command))
  /\ messages' = messages + 1
  /\ spc' = IF messages' = NumClients THEN "recv" ELSE "sending"
  /\ UNCHANGED <<setup, trainerVars, conn9099, toSim, round, command, flags, simulated,
                 exchangeVars>>

\* SIGPIPE, at the second write at the latest.
WriteFails ==
  /\ spc = "sending" /\ conn9099 # "served"
  /\ EndProcess
  /\ UNCHANGED <<setup, trainerVars, toSim, toTrainer, round, command, flags, messages,
                 simulated, exchangeVars>>

-----------------------------------------------------------------------------
(* Faults                                                                  *)

Reset ==
  /\ "reset" \in faults
  /\ conn9099 = "served"
  /\ conn9099' = "lost" /\ toSim' = <<>> /\ toTrainer' = <<>>
  /\ UNCHANGED <<setup, trainerVars, simVars, exchangeVars>>

Crash ==
  /\ "crash" \in faults
  /\ spc \notin {"accept", "ended"}
  /\ EndProcess
  /\ \/ UNCHANGED toTrainer
     \/ toTrainer' = <<>>
  /\ UNCHANGED <<setup, trainerVars, toSim, round, command, flags, messages, simulated,
                 exchangeVars>>

-----------------------------------------------------------------------------
Init ==
  /\ \E s \in Setups : members = s[1] /\ faults = s[2]
  /\ tpc = "connect" /\ rnd = 0 /\ sent = 0 /\ items = 0 /\ stats = {} /\ answered = 0
  /\ conn9099 = "none" /\ toSim = <<>> /\ toTrainer = <<>>
  /\ spc = "accept" /\ round = 0 /\ command = 0 /\ flags = 0 /\ messages = 0
  /\ simulated = 0
  /\ ExchangeInit

Trainer ==
  \/ Connect \/ ConnectGivesUp
  \/ BeginRound \/ SendWord \/ SendFails
  \/ FinishTraining \/ GiveUpRound \/ TrainingRaises
  \/ ReadHeader \/ MisreadHeader \/ ReadMessage \/ ReadTimeout \/ ReadEnds
  \/ SendExit

CommandLoop ==
  \/ RecvCommand \/ RecvExit \/ RecvFlag \/ RecvFails
  \/ SendResponse \/ SendMessage \/ WriteFails

\* Nobody has anything left to do; behind a dead round thread the simulator may
\* still be waiting for a command.
Stopped ==
  \/ tpc \in {"over", "raised"} /\ spc \in {"accept", "ended"}
  \/ tpc = "raised" /\ spc = "recv" /\ toSim = <<>>

Next ==
  \/ Trainer
  \/ CommandLoop
  \/ Simulate
  \/ Reset \/ Crash
  \/ Stopped /\ UNCHANGED vars

Spec == Init /\ [][Next]_vars

\* At the latest the limit of 300 simulated seconds ends a run.
SimulatedTimePasses == spc = "running" /\ TimeLimit /\ UNCHANGED linkVars

\* Both programs go on with what they can do; of a simulation only the end has
\* to come.  No fault has to happen.
Fairness ==
  /\ WF_vars(Trainer)
  /\ WF_vars(CommandLoop)
  /\ WF_vars(SimulatedTimePasses)

FairSpec == Spec /\ Fairness

-----------------------------------------------------------------------------
(* Properties                                                              *)

TypeOK ==
  /\ ExchangeTypeOK
  /\ members \in (SUBSET Clients) \ {{}} /\ faults \subseteq FaultKinds
  /\ tpc \in {"connect", "round", "sending", "training", "header", "items", "over",
            "raised"}
  /\ rnd \in 0..NumRounds /\ answered \in 0..rnd /\ stats \subseteq 1..rnd
  /\ sent \in 0..NumClients /\ items \in 0..Many
  /\ conn9099 \in {"none", "served", "queued", "lost"}
  /\ \A i \in DOMAIN toSim : toSim[i] \in [kind : {"run", "flag", "exit"}, round : 0..rnd]
  /\ \A i \in DOMAIN toTrainer :
       toTrainer[i] \in [kind : {"response", "id", "time", "throughput"}, round : 1..rnd]
  /\ spc \in {"accept", "recv", "flags", "running", "sending", "ended"}
  /\ round \in 0..rnd /\ command \in 0..rnd
  /\ flags \in 0..NumClients /\ messages \in 0..NumClients
  /\ simulated \in 0..command

\* The simulator never takes a flag for a command or a command for a flag,
\* although it is told a number of flags but reads as many as it was started
\* with, and whatever became of earlier rounds and connections (recv, send_round_start).
CommandsAligned ==
  toSim # <<>> =>
    /\ spc = "recv" => Head(toSim).kind \in {"run", "exit"}
    /\ spc = "flags" => Head(toSim) = Word("flag", command)

\* The number under which the simulator logs a round (main.cc counts for itself,
\* the command carries none) is that of the training round it was asked in, even
\* when rounds were given up and the trainer is ahead by several.
RoundsLabelled ==
  spc \in {"flags", "running", "sending"} => command = round

\* Unless a read was given up between two messages, the trainer reads responses
\* whole, one after the other and none twice, though it may have fallen
\* behind by rounds whose response it did not read (receive_round_stats).
ResponsesInOrder ==
  "stall" \notin faults =>
    /\ tpc = "header" /\ toTrainer # <<>> =>
         Head(toTrainer) = Word("response", answered + 1)
    /\ tpc = "items" => stats \subseteq {answered + 1}

\* Whatever becomes of the simulator training comes to its end: no read waits for an
\* answer that will not come.  And unless the round thread dies of an exception, a
\* simulator that was connected to ends, by the exit command or the end of the
\* connection.  After an exception it goes through the commands it was sent, and
\* then waits in read for ever, unless the connection breaks: nothing in the code
\* ends it.
BothEnd ==
  <>(\/ tpc = "over" /\ spc \in {"accept", "ended"}
     \/ tpc = "raised" /\ (spc \in {"accept", "ended"} \/ (spc = "recv" /\ toSim = <<>>)))

(* Trainer and simulator as a RoundService: the trainer asks with every round,
   and has an answer when it has read the last message of a response.  The round
   begun is the one that the command was sent for.  Of a torn response nobody can
   tell what it answers, so answers count only where none is. *)
Service == INSTANCE RoundService WITH
  asked <- rnd, begun <- command,
  answered <- IF "stall" \in faults THEN 0 ELSE answered

\* Whatever is lost, late or given up, rounds are simulated one by one, none twice
\* and none left out, and the statistics that the trainer reads to their end are
\* those of a round simulated before, each round's once.
ImplementsRoundService == Service!Spec
=============================================================================
