--------------------------- MODULE Ns3LinkProofs ---------------------------
(***************************************************************************)
(* Theorems about Ns3Link, for any clients, any number of rounds and any   *)
(* faults: the runs of the simulator keep what Ns3Exchange promises, and   *)
(* the two programs stay in step on the streams of commands and responses. *)
(***************************************************************************)
EXTENDS Ns3Link, Ns3ExchangeProofs

-----------------------------------------------------------------------------
(* The runs of the simulator                                               *)

SetupOK == members \in (SUBSET Clients) \ {{}} /\ faults \subseteq FaultKinds

\* What is settled beforehand stays.
LEMMA SetupAlways == Spec => []SetupOK
<1>1. Init => SetupOK
  BY SetupsAssumption DEF Init, SetupOK
<1>2. SetupOK /\ [Next]_vars => SetupOK'
  BY DEF SetupOK, setup, linkVars, vars, Next, Trainer, Connect, ConnectGivesUp, BeginRound,
         SendWord, SendFails, FinishTraining, GiveUpRound, TrainingRaises, ReadHeader,
         MisreadHeader, ReadMessage, ReadTimeout, ReadEnds, SendExit, CommandLoop, RecvCommand, RecvExit,
         RecvFlag, RecvFails, SendResponse, SendMessage, WriteFails, Simulate, Reset, Crash
<1> QED BY <1>1, <1>2, PTL DEF Spec

LEMMA ExchangeInLink == Spec => ExchangeSpec
<1>1. Init => ExchangeInit
  BY DEF Init
<1>2. SetupOK /\ [Next]_vars => [ExchangeNext]_exchangeVars
  <2> SUFFICES ASSUME SetupOK, [Next]_vars PROVE [ExchangeNext]_exchangeVars
    OBVIOUS
  <2>1. CASE Trainer
    BY <2>1 DEF Trainer, Connect, ConnectGivesUp, BeginRound, SendWord, SendFails,
                FinishTraining, GiveUpRound, TrainingRaises, ReadHeader, MisreadHeader, ReadMessage,
                ReadTimeout, ReadEnds, SendExit
  <2>2. CASE CommandLoop
    <3>1. CASE RecvFlag
      <4>1. StartExperiment(members) => ExchangeNext
        BY DEF SetupOK, ExchangeNext
      <4> QED BY <3>1, <4>1 DEF RecvFlag
    <3>2. CASE SendResponse
      BY <3>2 DEF SendResponse, ExchangeNext
    <3>3. CASE RecvCommand \/ RecvExit \/ RecvFails \/ SendMessage \/ WriteFails
      BY <3>3 DEF RecvCommand, RecvExit, RecvFails, SendMessage, WriteFails
    <3> QED BY <2>2, <3>1, <3>2, <3>3 DEF CommandLoop
  <2>3. CASE Simulate
    BY <2>3 DEF Simulate, ExchangeNext
  <2>4. CASE Reset \/ Crash \/ UNCHANGED vars
    BY <2>4 DEF Reset, Crash, vars
  <2> QED BY <2>1, <2>2, <2>3, <2>4 DEF Next, Stopped
<1> QED BY <1>1, <1>2, SetupAlways, PTL DEF Spec, ExchangeSpec

-----------------------------------------------------------------------------
(* The stream of commands                                                  *)

\* A place in it is <<r, p>>: the command of round r, header (0) or p-th flag.
Places == Nat \X (0..NumClients)
After(q) == IF q[2] = NumClients THEN <<q[1] + 1, 0>> ELSE <<q[1], q[2] + 1>>
WordAt(q) == Word(IF q[2] = 0 THEN "run" ELSE "flag", q[1])

\* The place the simulator reads next, and that the trainer writes next.
Expected == IF spc = "flags" THEN <<command, flags + 1>> ELSE <<round + 1, 0>>
Writing == IF tpc = "sending" THEN <<rnd, sent>> ELSE <<rnd + 1, 0>>

\* The first n unread words are those of the places at, one after the other; an exit
\* command may follow.
Track(n, at) ==
  /\ n \in 0..Len(toSim)
  /\ at \in [1..(n + 1) -> Places]
  /\ at[1] = Expected
  /\ \A i \in 1..n : toSim[i] = WordAt(at[i]) /\ at[i + 1] = After(at[i])
  /\ \/ n = Len(toSim) /\ (conn9099 = "served" => at[n + 1] = Writing)
     \/ n + 1 = Len(toSim) /\ conn9099 = "none" /\ toSim[n + 1].kind = "exit" /\ at[n + 1][2] = 0

InStep ==
  spc # "ended" => \E n \in Nat : \E at \in [1..(n + 1) -> Places] : Track(n, at)

\* The trainer's own counters.
TrainerOK ==
  /\ tpc \in {"connect", "round", "sending", "training", "header", "items", "over", "raised"}
  /\ rnd \in 0..NumRounds /\ answered \in 0..rnd
  /\ tpc \in {"sending", "training", "header", "items"} => answered < rnd
  /\ sent \in 0..NumClients /\ (tpc # "sending" => sent = 0)
  /\ items \in 0..Many /\ (tpc = "items" => items > 0)
  /\ conn9099 \in {"none", "served", "queued", "lost"}
  /\ tpc = "sending" => conn9099 # "none"

\* The simulator's.
SimulatorOK ==
  /\ spc \in {"accept", "recv", "flags", "running", "sending", "ended"}
  /\ round \in 0..rnd /\ command \in 0..rnd
  /\ flags \in 0..NumClients /\ (spc = "flags" => flags < NumClients)
  /\ messages \in 0..NumClients /\ (spc = "sending" => messages < NumClients)
  /\ spc \in {"flags", "running", "sending"} => round > 0
  /\ command = round /\ simulated \in 0..command
  /\ spc \in {"accept", "recv", "sending"} => simulated = command
  /\ spc \in {"flags", "running"} => simulated + 1 = command

\* Nothing is written before the two are connected.
Beginning ==
  /\ tpc = "connect" => rnd = 0 /\ spc = "accept"
  /\ spc = "accept" => conn9099 = "none" /\ toSim = <<>> /\ toTrainer = <<>> /\ round = 0

Commands(r) == [kind : {"run", "flag", "exit"}, round : 0..r]
Responses(r) == [kind : {"response", "id", "time", "throughput"}, round : 1..r]

\* What is written is of rounds that have begun.
WordsOK ==
  toSim \in Seq(Commands(rnd)) /\ toTrainer \in Seq(Responses(rnd)) /\ stats \subseteq 1..rnd

LinkInv == TrainerOK /\ SimulatorOK /\ Beginning /\ WordsOK /\ InStep

LEMMA NumClientsType == SetupOK => NumClients \in Nat \ {0}
<1> SUFFICES ASSUME SetupOK PROVE NumClients \in Nat \ {0}
  OBVIOUS
<1>1. IsFiniteSet(members) /\ members # {}
  <2>1. members \in SUBSET Clients /\ members # {}
    BY DEF SetupOK
  <2> QED BY <2>1, ClientsAssumption, FS_Subset
<1> QED BY <1>1, FS_CardinalityType, FS_EmptySet DEF NumClients

LEMMA LinkInvInit == Init => LinkInv
<1> SUFFICES ASSUME Init PROVE LinkInv
  OBVIOUS
<1>1. SetupOK
  BY SetupsAssumption DEF Init, SetupOK
<1>2. NumClients \in Nat \ {0} /\ NumRounds \in Nat
  BY <1>1, NumClientsType, RoundsAssumption
<1> HIDE DEF NumClients
<1>3. TrainerOK /\ SimulatorOK /\ Beginning
  BY <1>2 DEF Init, TrainerOK, SimulatorOK, Beginning, Many
<1>4. WordsOK
  BY EmptySeq DEF Init, WordsOK
<1>5. InStep
  <2> DEFINE at == [i \in 1..(0 + 1) |-> <<1, 0>>]
  <2>1. /\ at \in [1..(0 + 1) -> Places] /\ at[1] = <<1, 0>>
    BY <1>2 DEF Places
  <2>2. Expected = <<1, 0>> /\ Len(toSim) = 0 /\ conn9099 = "none"
    BY DEF Init, Expected
  <2> HIDE DEF at
  <2>3. Track(0, at)
    BY <2>1, <2>2 DEF Track
  <2> QED BY <2>1, <2>3 DEF InStep
<1> QED BY <1>3, <1>4, <1>5 DEF LinkInv

\* The two stay in step if nothing is read or written and neither moves.
LEMMA InStepFrame ==
  ASSUME InStep, UNCHANGED <<members, toSim>>,
         \/ spc' = "ended"
         \/ /\ spc # "ended" /\ Expected' = Expected
            /\ conn9099' = "served" => conn9099 = "served" /\ Writing' = Writing
            /\ conn9099 = "none" => conn9099' = "none"
  PROVE  InStep'
<1>1. CASE spc' = "ended"
  BY <1>1 DEF InStep
<1>2. CASE spc' # "ended"
  <2>1. /\ spc # "ended" /\ Expected' = Expected
        /\ conn9099' = "served" => conn9099 = "served" /\ Writing' = Writing
        /\ conn9099 = "none" => conn9099' = "none"
    BY <1>2
  <2>2. PICK n \in Nat : \E at \in [1..(n + 1) -> Places] : Track(n, at)
    BY <2>1 DEF InStep
  <2>3. PICK at \in [1..(n + 1) -> Places] : Track(n, at)
    BY <2>2
  <2>4. Places' = Places /\ \A q : WordAt(q)' = WordAt(q) /\ After(q)' = After(q)
    BY DEF Places, WordAt, Word, After, NumClients
  <2>5. Track(n, at)'
    BY <2>1, <2>3, <2>4 DEF Track, WordAt, Word, After, NumClients
  <2> QED BY <2>4, <2>5 DEF InStep
<1> QED BY <1>1, <1>2

\* The trainer's steps that write nothing.
LEMMA QuietTrainerStep ==
  ASSUME SetupOK, LinkInv,
         \/ Connect \/ ConnectGivesUp \/ BeginRound \/ SendFails \/ FinishTraining
         \/ GiveUpRound \/ TrainingRaises
         \/ ReadHeader \/ MisreadHeader \/ ReadMessage \/ ReadTimeout \/ ReadEnds
  PROVE  LinkInv'
<1> USE DEF setup, simVars, streams
<1>1. /\ NumClients \in Nat \ {0} /\ NumRounds \in Nat /\ rnd \in Nat /\ answered \in Nat
      /\ NumClients' = NumClients /\ members' = members
  <2>1. members' = members
    BY DEF Connect, ConnectGivesUp, BeginRound, SendFails, FinishTraining, GiveUpRound,
           TrainingRaises, ReadHeader, MisreadHeader, ReadMessage, ReadTimeout, ReadEnds
  <2> QED BY <2>1, NumClientsType, RoundsAssumption DEF NumClients, LinkInv, TrainerOK
<1>2. CASE Connect
  <2>1. /\ tpc = "connect" /\ spc = "accept" /\ rnd = 0 /\ round = 0 /\ toSim = <<>>
        /\ conn9099 = "none"
    BY <1>2 DEF Connect, LinkInv, Beginning
  <2>2. TrainerOK' /\ SimulatorOK' /\ Beginning' /\ WordsOK'
    BY <1>1, <1>2, <2>1 DEF Connect, LinkInv, TrainerOK, SimulatorOK, Beginning, WordsOK, Many
  <2>3. InStep'
    <3> DEFINE at == [i \in 1..(0 + 1) |-> <<1, 0>>]
    <3>1. /\ at \in [1..(0 + 1) -> Places'] /\ at[1] = <<1, 0>>
      BY <1>1 DEF Places
    <3>2. Expected' = <<1, 0>> /\ Writing' = <<1, 0>> /\ Len(toSim') = 0
      BY <1>2, <2>1 DEF Connect, Expected, Writing
    <3> HIDE DEF at
    <3>3. Track(0, at)'
      BY <3>1, <3>2 DEF Track
    <3> QED BY <3>1, <3>3 DEF InStep
  <2> QED BY <2>2, <2>3 DEF LinkInv
<1>3. CASE BeginRound
  <2>1. /\ tpc = "round" /\ rnd < NumRounds /\ rnd' = rnd + 1 /\ stats' = {}
        /\ tpc' = IF conn9099 = "none" THEN "training" ELSE "sending"
        /\ UNCHANGED <<members, sent, items, answered, conn9099, toSim, toTrainer, spc, round,
                       command, flags, messages, simulated>>
    BY <1>3 DEF BeginRound
  <2>2. rnd' \in 0..NumRounds /\ \A k \in 0..rnd : k \in 0..rnd' /\ k < rnd'
    BY <1>1, <2>1 DEF LinkInv, TrainerOK
  <2>3. TrainerOK'
    BY <1>1, <2>1, <2>2 DEF LinkInv, TrainerOK, Many
  <2>4. SimulatorOK'
    BY <1>1, <2>1, <2>2 DEF LinkInv, SimulatorOK
  <2>5. Beginning'
    BY <2>1 DEF LinkInv, Beginning
  <2>6. WordsOK'
    <3>1. Commands(rnd) \subseteq Commands(rnd') /\ Responses(rnd) \subseteq Responses(rnd')
      BY <1>1, <2>1 DEF Commands, Responses
    <3> QED BY <2>1, <3>1, SeqMonotonic DEF LinkInv, WordsOK
  <2>7. InStep'
    <3>1. Expected' = Expected
      BY <2>1 DEF Expected
    <3>2. conn9099' = "served" => Writing' = Writing
      BY <2>1 DEF Writing, LinkInv, TrainerOK
    <3>3. spc # "ended" => spc' # "ended"
      BY <2>1
    <3> QED BY <2>1, <3>1, <3>2, InStepFrame DEF LinkInv
  <2> QED BY <2>3, <2>4, <2>5, <2>6, <2>7 DEF LinkInv
<1>4. CASE ConnectGivesUp \/ FinishTraining \/ GiveUpRound \/ TrainingRaises
  <2>1. /\ UNCHANGED <<members, rnd, sent, items, stats, answered, conn9099, toSim, toTrainer,
                       spc, round, command, flags, messages, simulated>>
        /\ \/ tpc = "connect" /\ tpc' = "round"
           \/ tpc = "training" /\ tpc' \in {"round", "header", "raised"}
    BY <1>4 DEF ConnectGivesUp, FinishTraining, GiveUpRound, TrainingRaises
  <2>2. TrainerOK' /\ SimulatorOK' /\ Beginning' /\ WordsOK'
    BY <1>1, <2>1 DEF LinkInv, TrainerOK, SimulatorOK, Beginning, WordsOK, Many
  <2>3. Expected' = Expected /\ Writing' = Writing
    BY <2>1 DEF Expected, Writing
  <2>4. InStep'
    BY <2>1, <2>3, InStepFrame DEF LinkInv
  <2> QED BY <2>2, <2>4 DEF LinkInv
<1>5. CASE SendFails
  <2>1. /\ UNCHANGED <<members, rnd, items, stats, answered, toSim, spc, round, command, flags,
                       messages, simulated>>
        /\ tpc = "sending" /\ conn9099 = "lost" /\ tpc' = "training" /\ sent' = 0
        /\ conn9099' \in {"none", "queued"} /\ toTrainer' = <<>>
    BY <1>5 DEF SendFails
  <2>2. TrainerOK' /\ SimulatorOK' /\ Beginning'
    BY <1>1, <2>1 DEF LinkInv, TrainerOK, SimulatorOK, Beginning, Many
  <2>3. WordsOK'
    BY <2>1, EmptySeq DEF LinkInv, WordsOK
  <2>4. Expected' = Expected
    BY <2>1 DEF Expected
  <2>5. InStep'
    BY <2>1, <2>4, InStepFrame DEF LinkInv
  <2> QED BY <2>2, <2>3, <2>5 DEF LinkInv
<1>6. CASE ReadHeader \/ MisreadHeader \/ ReadMessage \/ ReadTimeout \/ ReadEnds
  <2>1. /\ UNCHANGED <<members, rnd, sent, conn9099, toSim, spc, round, command, flags,
                       messages, simulated>>
        /\ tpc \in {"header", "items"} /\ tpc' \in {"round", "items"}
    BY <1>6 DEF ReadHeader, MisreadHeader, ReadMessage, ReadTimeout, ReadEnds
  <2>2. /\ items' \in 0..Many /\ (tpc' = "items" => items' > 0)
        /\ answered' \in 0..rnd /\ (tpc' = "items" => answered' < rnd)
    <3>1. /\ answered \in 0..rnd /\ answered < rnd /\ items \in 0..Many
          /\ tpc = "items" => items > 0
          /\ Many = NumClients + 1 /\ NumClients \in Nat \ {0}
      BY <1>1, <2>1 DEF LinkInv, TrainerOK, Many
    <3>2. CASE ReadHeader \/ MisreadHeader
      BY <3>1, <3>2, <1>1 DEF ReadHeader, MisreadHeader, LinkInv, TrainerOK
    <3>3. CASE ReadMessage
      <4>1. CASE items = 1
        BY <3>1, <3>3, <4>1, <1>1 DEF ReadMessage
      <4>2. CASE items # 1
        BY <3>1, <3>3, <4>2, <1>1 DEF ReadMessage
      <4> QED BY <4>1, <4>2
    <3>4. CASE ReadTimeout \/ ReadEnds
      BY <3>1, <3>4, <1>1 DEF ReadTimeout, ReadEnds
    <3> QED BY <1>6, <3>2, <3>3, <3>4
  <2>3. TrainerOK'
    BY <1>1, <2>1, <2>2 DEF LinkInv, TrainerOK, Many
  <2>4. SimulatorOK'
    BY <1>1, <2>1 DEF LinkInv, SimulatorOK
  <2>5. Beginning'
    <3>1. spc # "accept" \/ toTrainer' = <<>>
      BY <1>6, EmptySeq DEF ReadHeader, MisreadHeader, ReadMessage, ReadTimeout, ReadEnds,
                            LinkInv, Beginning
    <3> QED BY <2>1, <3>1 DEF LinkInv, Beginning
  <2>6. WordsOK'
    <3>1. /\ toTrainer \in Seq(Responses(rnd)) /\ Len(toTrainer) \in Nat
          /\ \A i \in 1..Len(toTrainer) : toTrainer[i] \in Responses(rnd)
      BY LenProperties, ElementOfSeq DEF LinkInv, WordsOK
    <3>2. CASE ReadHeader \/ MisreadHeader
      BY <2>1, <3>1, <3>2, HeadTailProperties DEF ReadHeader, MisreadHeader, LinkInv, WordsOK
    <3>3. CASE ReadMessage
      <4>1. toTrainer' = SubSeq(toTrainer, 4, Len(toTrainer)) /\ Len(toTrainer) >= 3
            /\ stats' = stats \cup {toTrainer[i].round : i \in 1..3}
        BY <3>3 DEF ReadMessage, FromFirst
      <4>2. \A i \in 4..Len(toTrainer) : toTrainer[i] \in Responses(rnd)
        BY <3>1
      <4>3. toTrainer' \in Seq(Responses(rnd))
        BY <3>1, <4>1, <4>2, SubSeqProperties
      <4>4. \A i \in 1..3 : toTrainer[i].round \in 1..rnd
        BY <3>1, <4>1 DEF Responses
      <4> QED BY <2>1, <4>1, <4>3, <4>4 DEF LinkInv, WordsOK
    <3>4. CASE ReadTimeout \/ ReadEnds
      BY <2>1, <3>4, EmptySeq DEF ReadTimeout, ReadEnds, LinkInv, WordsOK
    <3> QED BY <1>6, <3>2, <3>3, <3>4
  <2>7. Expected' = Expected /\ Writing' = Writing
    BY <2>1 DEF Expected, Writing
  <2>8. InStep'
    BY <2>1, <2>7, InStepFrame DEF LinkInv
  <2> QED BY <2>3, <2>4, <2>5, <2>6, <2>8 DEF LinkInv
<1> QED BY <1>2, <1>3, <1>4, <1>5, <1>6

\* A word is written: the trainer moves on by one place.
LEMMA SendWordStep ==
  ASSUME SetupOK, LinkInv, SendWord
  PROVE  LinkInv'
<1> USE DEF setup, simVars
<1>1. /\ UNCHANGED <<members, rnd, items, stats, answered, conn9099, toTrainer, spc, round,
                     command, flags, messages, simulated>>
      /\ tpc = "sending" /\ NumClients' = NumClients
      /\ NumClients \in Nat \ {0} /\ NumRounds \in Nat /\ rnd \in Nat /\ sent \in 0..NumClients
  BY NumClientsType, RoundsAssumption DEF SendWord, NumClients, LinkInv, TrainerOK
<1>2. /\ sent = NumClients => tpc' = "training" /\ sent' = 0
      /\ sent # NumClients => tpc' = "sending" /\ sent' = sent + 1
  BY <1>1 DEF SendWord
<1>3. TrainerOK'
  <2>1. sent # NumClients => sent + 1 \in 0..NumClients
    BY <1>1
  <2> QED BY <1>1, <1>2, <2>1 DEF LinkInv, TrainerOK, Many
<1>4. SimulatorOK' /\ Beginning'
  <2>1. spc # "accept"
    BY <1>1 DEF LinkInv, TrainerOK, Beginning
  <2> QED BY <1>1, <1>2, <2>1 DEF LinkInv, SimulatorOK, Beginning
<1>5. WordAt(Writing) \in Commands(rnd) /\ Writing \in Places /\ Writing = <<rnd, sent>>
      /\ WordAt(Writing) = Word(IF sent = 0 THEN "run" ELSE "flag", rnd)
  BY <1>1 DEF Writing, WordAt, Word, Commands, Places
<1>6. After(Writing) = Writing' /\ After(Writing) \in Places
  BY <1>1, <1>2, <1>5 DEF Writing, After, Places
<1>7. CASE conn9099 # "served"
  <2>1. toSim' = toSim /\ Expected' = Expected
    BY <1>1, <1>7 DEF SendWord, Expected
  <2>2. WordsOK'
    BY <1>1, <2>1 DEF LinkInv, WordsOK
  <2>3. InStep'
    BY <1>1, <1>7, <2>1, InStepFrame DEF LinkInv, InStep
  <2> QED BY <1>3, <1>4, <2>2, <2>3 DEF LinkInv
<1>8. CASE conn9099 = "served"
  <2> DEFINE word == WordAt(Writing)
  <2>1. toSim' = Append(toSim, word)
    BY <1>5, <1>8 DEF SendWord
  <2>2. /\ toSim \in Seq(Commands(rnd)) /\ Len(toSim) \in Nat
        /\ toSim' \in Seq(Commands(rnd)) /\ Len(toSim') = Len(toSim) + 1
        /\ \A i \in 1..Len(toSim) : toSim'[i] = toSim[i]
        /\ toSim'[Len(toSim) + 1] = word
    BY <1>5, <2>1, AppendProperties, LenProperties DEF LinkInv, WordsOK
  <2>3. WordsOK'
    BY <1>1, <2>2 DEF LinkInv, WordsOK
  <2>4. InStep'
    <3> SUFFICES ASSUME spc # "ended" PROVE InStep'
      BY <1>1 DEF InStep
    <3>0. PICK n \in Nat : \E at \in [1..(n + 1) -> Places] : Track(n, at)
      BY DEF LinkInv, InStep
    <3>1. PICK at \in [1..(n + 1) -> Places] : Track(n, at)
      BY <3>0
    <3>2. /\ n = Len(toSim) /\ at[n + 1] = Writing /\ at[1] = Expected
          /\ \A i \in 1..n : toSim[i] = WordAt(at[i]) /\ at[i + 1] = After(at[i])
      BY <1>8, <3>1 DEF Track
    <3>3. PICK next \in [1..(n + 1 + 1) -> Places] :
            next[n + 1 + 1] = After(Writing) /\ \A i \in 1..(n + 1) : next[i] = at[i]
      <4> DEFINE f == [i \in 1..(n + 1 + 1) |-> IF i = n + 2 THEN After(Writing) ELSE at[i]]
      <4>1. f \in [1..(n + 1 + 1) -> Places]
        BY <1>6
      <4>2. f[n + 1 + 1] = After(Writing) /\ \A i \in 1..(n + 1) : f[i] = at[i]
        OBVIOUS
      <4> HIDE DEF f
      <4> QED BY <4>1, <4>2
    <3>4. Expected' = Expected
      BY <1>1 DEF Expected
    <3>5. ASSUME NEW i \in 1..(n + 1)
          PROVE  toSim'[i] = WordAt(next[i]) /\ next[i + 1] = After(next[i])
      <4>1. CASE i \in 1..n
        <5>1. i + 1 \in 1..(n + 1)
          BY <4>1
        <5> QED BY <2>2, <3>2, <3>3, <4>1, <5>1
      <4>2. CASE i = n + 1
        BY <2>2, <3>2, <3>3, <4>2
      <4> QED BY <4>1, <4>2
    <3>6. Places' = Places /\ \A q : WordAt(q)' = WordAt(q) /\ After(q)' = After(q)
      BY <1>1 DEF Places, WordAt, Word, After
    <3>7. Track(n + 1, next)'
      <4>1. n + 1 \in 0..Len(toSim') /\ n + 1 = Len(toSim')
        BY <2>2, <3>2
      <4>2. next[1] = Expected'
        BY <3>2, <3>3, <3>4
      <4>3. next[n + 1 + 1] = Writing'
        BY <1>6, <3>3
      <4> QED BY <3>3, <3>5, <3>6, <4>1, <4>2, <4>3 DEF Track, WordAt, Word, After
    <3> QED BY <3>3, <3>6, <3>7 DEF InStep
  <2> QED BY <1>3, <1>4, <2>3, <2>4 DEF LinkInv
<1> QED BY <1>7, <1>8

\* The exit command comes where a command may.
LEMMA SendExitStep ==
  ASSUME SetupOK, LinkInv, SendExit
  PROVE  LinkInv'
<1> USE DEF setup, simVars
<1>1. /\ UNCHANGED <<members, rnd, sent, items, stats, answered, spc, round, command, flags,
                     messages, simulated>>
      /\ tpc = "round" /\ tpc' = "over" /\ NumClients' = NumClients
      /\ conn9099' = "none" /\ toTrainer' = <<>> /\ rnd \in Nat
      /\ toSim' = IF conn9099 = "served" THEN Append(toSim, Word("exit", rnd)) ELSE toSim
  BY RoundsAssumption DEF SendExit, NumClients, LinkInv, TrainerOK
<1>2. TrainerOK' /\ SimulatorOK' /\ Beginning'
  BY <1>1 DEF LinkInv, TrainerOK, SimulatorOK, Beginning, Many
<1>3. CASE conn9099 # "served"
  <2>1. toSim' = toSim /\ Expected' = Expected
    BY <1>1, <1>3 DEF Expected
  <2>2. WordsOK'
    BY <1>1, <2>1, EmptySeq DEF LinkInv, WordsOK
  <2>3. InStep'
    BY <1>1, <2>1, InStepFrame DEF LinkInv, InStep
  <2> QED BY <1>2, <2>2, <2>3 DEF LinkInv
<1>4. CASE conn9099 = "served"
  <2>1. Word("exit", rnd) \in Commands(rnd) /\ Word("exit", rnd).kind = "exit"
    BY <1>1 DEF Word, Commands
  <2>2. /\ toSim \in Seq(Commands(rnd)) /\ Len(toSim) \in Nat
        /\ toSim' \in Seq(Commands(rnd)) /\ Len(toSim') = Len(toSim) + 1
        /\ \A i \in 1..Len(toSim) : toSim'[i] = toSim[i]
        /\ toSim'[Len(toSim) + 1].kind = "exit"
    BY <1>1, <1>4, <2>1, AppendProperties, LenProperties DEF LinkInv, WordsOK
  <2>3. WordsOK'
    BY <1>1, <2>2, EmptySeq DEF LinkInv, WordsOK
  <2>4. InStep'
    <3> SUFFICES ASSUME spc # "ended" PROVE InStep'
      BY <1>1 DEF InStep
    <3>1. PICK n \in Nat : \E at \in [1..(n + 1) -> Places] : Track(n, at)
      BY DEF LinkInv, InStep
    <3>2. PICK at \in [1..(n + 1) -> Places] : Track(n, at)
      BY <3>1
    <3>3. /\ n = Len(toSim) /\ at[n + 1] = Writing /\ at[1] = Expected
          /\ \A i \in 1..n : toSim[i] = WordAt(at[i]) /\ at[i + 1] = After(at[i])
      BY <1>4, <3>2 DEF Track
    <3>4. at[n + 1][2] = 0 /\ Expected' = Expected
      BY <1>1, <3>3 DEF Writing, Expected
    <3>5. Places' = Places /\ \A q : WordAt(q)' = WordAt(q) /\ After(q)' = After(q)
      BY <1>1 DEF Places, WordAt, Word, After
    <3>6. n \in 0..Len(toSim') /\ n + 1 = Len(toSim') /\ \A i \in 1..n : toSim'[i] = toSim[i]
      BY <2>2, <3>3
    <3>7. Track(n, at)'
      BY <1>1, <2>2, <3>3, <3>4, <3>5, <3>6 DEF Track, WordAt, Word, After
    <3> QED BY <3>5, <3>7 DEF InStep
  <2> QED BY <1>2, <2>3, <2>4 DEF LinkInv
<1> QED BY <1>3, <1>4

\* The word the simulator finds is the one it expects, or an exit command where it
\* expects a command.
LEMMA WordExpected ==
  ASSUME WordsOK, InStep, spc # "ended", toSim # <<>>
  PROVE  \/ Head(toSim) = WordAt(Expected)
         \/ Head(toSim).kind = "exit" /\ Expected[2] = 0
<1>1. PICK n \in Nat : \E at \in [1..(n + 1) -> Places] : Track(n, at)
  BY DEF InStep
<1>2. PICK at \in [1..(n + 1) -> Places] : Track(n, at)
  BY <1>1
<1>3. Head(toSim) = toSim[1] /\ Len(toSim) \in Nat \ {0}
  BY EmptySeq DEF WordsOK
<1>4. CASE n = 0
  BY <1>2, <1>3, <1>4 DEF Track
<1>5. CASE n # 0
  BY <1>2, <1>3, <1>5 DEF Track
<1> QED BY <1>4, <1>5

\* How many words are left in step when one is read.
LEMMA OneFewer ==
  ASSUME NEW n \in Nat, NEW m \in Nat, n = m + 1, NEW l \in Nat \ {0}, NEW k, k = l - 1,
         n \in 0..l, n = l \/ n + 1 = l
  PROVE  /\ k \in Nat /\ m \in 0..k
         /\ n = l => m = k
         /\ n + 1 = l => m + 1 = k /\ m + 1 \in 1..(l - 1)
         /\ \A i \in 1..m : /\ i + 1 \in 1..n /\ i \in 1..(l - 1)
                             /\ i + 1 \in 1..(m + 1) /\ i \in 1..(m + 1)
OBVIOUS

\* Reading it, the simulator moves on by one place.
LEMMA WordRead ==
  ASSUME WordsOK, InStep, spc # "ended", toSim # <<>>, Head(toSim) = WordAt(Expected),
         toSim' = Tail(toSim), UNCHANGED <<members, tpc, rnd, sent, conn9099>>,
         Expected' = After(Expected)
  PROVE  InStep'
<1>1. PICK n \in Nat : \E at \in [1..(n + 1) -> Places] : Track(n, at)
  BY DEF InStep
<1>2. PICK at \in [1..(n + 1) -> Places] : Track(n, at)
  BY <1>1
<1>3. /\ Head(toSim) = toSim[1] /\ Len(toSim) \in Nat \ {0} /\ Len(toSim') = Len(toSim) - 1
      /\ \A i \in 1..(Len(toSim) - 1) : toSim'[i] = toSim[i + 1]
  BY EmptySeq, HeadTailProperties DEF WordsOK
<1>4. n # 0
  <2> SUFFICES ASSUME n = 0 PROVE FALSE
    OBVIOUS
  <2>1. toSim[1].kind = "exit"
    BY <1>2, <1>3 DEF Track
  <2>2. WordAt(Expected).kind # "exit"
    BY DEF WordAt, Word
  <2> QED BY <1>3, <2>1, <2>2
<1>5. PICK m \in Nat : n = m + 1
  <2>1. n - 1 \in Nat /\ n = (n - 1) + 1
    BY <1>4
  <2> QED BY <2>1
<1>5a. n \in 0..Len(toSim) /\ (n = Len(toSim) \/ n + 1 = Len(toSim)) /\ n \in Nat
  BY <1>2 DEF Track
<1>5b. /\ Len(toSim') \in Nat /\ m \in 0..Len(toSim')
       /\ n = Len(toSim) => m = Len(toSim')
       /\ n + 1 = Len(toSim) => m + 1 = Len(toSim') /\ m + 1 \in 1..(Len(toSim) - 1)
       /\ \A i \in 1..m : /\ i + 1 \in 1..n /\ i \in 1..(Len(toSim) - 1)
                           /\ i + 1 \in 1..(m + 1) /\ i \in 1..(m + 1)
  <2>1. PICK l, k : l = Len(toSim) /\ k = Len(toSim')
    OBVIOUS
  <2>2. l \in Nat \ {0} /\ k = l - 1
    BY <1>3, <2>1
  <2>3. n \in 0..l /\ (n = l \/ n + 1 = l)
    BY <1>5a, <2>1
  <2>4. /\ k \in Nat /\ m \in 0..k
        /\ n = l => m = k
        /\ n + 1 = l => m + 1 = k /\ m + 1 \in 1..(l - 1)
        /\ \A i \in 1..m : /\ i + 1 \in 1..n /\ i \in 1..(l - 1)
                            /\ i + 1 \in 1..(m + 1) /\ i \in 1..(m + 1)
    BY <1>5, <2>2, <2>3, OneFewer
  <2> QED BY <2>1, <2>4
<1>6. PICK rest \in [1..(m + 1) -> Places] : \A i \in 1..(m + 1) : rest[i] = at[i + 1]
  <2> DEFINE f == [i \in 1..(m + 1) |-> at[i + 1]]
  <2>1. f \in [1..(m + 1) -> Places] /\ \A i \in 1..(m + 1) : f[i] = at[i + 1]
    BY <1>5
  <2> HIDE DEF f
  <2> QED BY <2>1
<1>7. Places' = Places /\ Writing' = Writing
      /\ \A q : WordAt(q)' = WordAt(q) /\ After(q)' = After(q)
  BY DEF Places, Writing, WordAt, Word, After, NumClients
<1>8. rest[1] = Expected'
  BY <1>2, <1>5, <1>6 DEF Track
<1>9. ASSUME NEW i \in 1..m
      PROVE  toSim'[i] = WordAt(rest[i]) /\ rest[i + 1] = After(rest[i])
  <2>1. i + 1 \in 1..n /\ i \in 1..(Len(toSim) - 1) /\ i + 1 \in 1..(m + 1) /\ i \in 1..(m + 1)
    BY <1>5b
  <2>2. toSim'[i] = toSim[i + 1] /\ rest[i] = at[i + 1] /\ rest[i + 1] = at[i + 1 + 1]
    BY <1>3, <1>6, <2>1
  <2> QED BY <1>2, <2>1, <2>2 DEF Track
<1>10. rest[m + 1] = at[n + 1]
  <2>1. m + 1 \in 1..(m + 1)
    OBVIOUS
  <2> QED BY <1>5, <1>6, <2>1
<1>11. \/ m = Len(toSim') /\ (conn9099' = "served" => rest[m + 1] = Writing')
       \/ /\ m + 1 = Len(toSim') /\ conn9099' = "none"
          /\ toSim'[m + 1].kind = "exit" /\ rest[m + 1][2] = 0
  <2>1. CASE n = Len(toSim) /\ (conn9099 = "served" => at[n + 1] = Writing)
    BY <1>7, <1>10, <1>5b, <2>1
  <2>2. CASE n + 1 = Len(toSim) /\ conn9099 = "none" /\ toSim[n + 1].kind = "exit"
             /\ at[n + 1][2] = 0
    <3>1. m + 1 = Len(toSim') /\ m + 1 \in 1..(Len(toSim) - 1)
      BY <1>5b, <2>2
    <3>2. toSim'[m + 1] = toSim[n + 1]
      BY <1>3, <1>5, <3>1
    <3> QED BY <1>10, <2>2, <3>1, <3>2
  <2> QED BY <1>2, <2>1, <2>2 DEF Track
<1>12. Track(m, rest)'
  BY <1>6, <1>7, <1>8, <1>9, <1>11, <1>5b DEF Track, WordAt, Word, After
<1> QED BY <1>7, <1>12 DEF InStep

\* The simulator's steps that read a command or a flag.
LEMMA SimulatorReads ==
  ASSUME SetupOK, LinkInv, RecvCommand \/ RecvFlag
  PROVE  LinkInv'
<1> USE DEF setup, trainerVars
<1>1. /\ UNCHANGED <<members, tpc, rnd, sent, items, stats, answered, conn9099, toTrainer,
                     messages, simulated>>
      /\ toSim # <<>> /\ toSim' = Tail(toSim) /\ spc \in {"recv", "flags"}
      /\ NumClients' = NumClients /\ NumClients \in Nat \ {0}
      /\ rnd \in Nat /\ round \in 0..rnd /\ command \in 0..rnd /\ flags \in 0..NumClients
  BY NumClientsType, RoundsAssumption
  DEF RecvCommand, RecvFlag, NumClients, LinkInv, TrainerOK, SimulatorOK
<1>2. /\ toSim \in Seq(Commands(rnd)) /\ Head(toSim) \in Commands(rnd)
      /\ toSim' \in Seq(Commands(rnd))
  BY <1>1, HeadTailProperties DEF LinkInv, WordsOK
<1>3. TrainerOK'
  BY <1>1 DEF LinkInv, TrainerOK, Many
<1>4. WordsOK'
  BY <1>1, <1>2 DEF LinkInv, WordsOK
<1>5. \/ Head(toSim) = WordAt(Expected)
      \/ Head(toSim).kind = "exit" /\ Expected[2] = 0
  BY <1>1, WordExpected DEF LinkInv
<1>6. CASE RecvCommand
  <2>1. /\ spc = "recv" /\ Head(toSim).kind = "run" /\ spc' = "flags" /\ flags' = 0
        /\ round' = round + 1 /\ command' = Head(toSim).round
    BY <1>6 DEF RecvCommand
  <2>2. Expected = <<round + 1, 0>>
    BY <2>1 DEF Expected
  <2>3. Head(toSim) = WordAt(Expected) /\ command' = round + 1
    BY <1>5, <2>1, <2>2 DEF WordAt, Word
  <2>4. command' \in 0..rnd
    BY <1>2, <2>1 DEF Commands
  <2>5. SimulatorOK' /\ Beginning'
    BY <1>1, <2>1, <2>3, <2>4 DEF LinkInv, SimulatorOK, Beginning
  <2>6. Expected' = After(Expected)
    BY <1>1, <2>1, <2>2, <2>3 DEF Expected, After
  <2>7. InStep'
    BY <1>1, <2>1, <2>3, <2>6, WordRead DEF LinkInv
  <2> QED BY <1>3, <1>4, <2>5, <2>7 DEF LinkInv
<1>7. CASE RecvFlag
  <2>1. /\ spc = "flags" /\ flags' = flags + 1 /\ UNCHANGED <<round, command>>
        /\ spc' = IF flags + 1 = NumClients THEN "running" ELSE "flags"
    BY <1>7 DEF RecvFlag
  <2>2. Expected = <<command, flags + 1>> /\ flags < NumClients /\ command = round /\ round > 0
    BY <2>1 DEF Expected, LinkInv, SimulatorOK
  <2>3. Head(toSim) = WordAt(Expected)
    BY <1>1, <1>5, <2>2
  <2>4. flags' \in 0..NumClients /\ (flags + 1 # NumClients => flags' < NumClients)
    BY <1>1, <2>1, <2>2
  <2>5. SimulatorOK' /\ Beginning'
    BY <1>1, <2>1, <2>2, <2>4 DEF LinkInv, SimulatorOK, Beginning
  <2>6. Expected' = After(Expected)
    <3>1. CASE flags + 1 = NumClients
      BY <1>1, <2>1, <2>2, <3>1 DEF Expected, After
    <3>2. CASE flags + 1 # NumClients
      BY <1>1, <2>1, <2>2, <3>2 DEF Expected, After
    <3> QED BY <3>1, <3>2
  <2>7. InStep'
    BY <1>1, <2>1, <2>3, <2>6, WordRead DEF LinkInv
  <2> QED BY <1>3, <1>4, <2>5, <2>7 DEF LinkInv
<1> QED BY <1>6, <1>7

\* The simulator's end, by its own doing or by a crash.
LEMMA SimulatorStops ==
  ASSUME SetupOK, LinkInv, RecvExit \/ RecvFails \/ WriteFails \/ Crash
  PROVE  LinkInv'
<1> USE DEF setup, trainerVars
<1>1. /\ UNCHANGED <<members, tpc, rnd, sent, items, stats, answered, round, command, flags,
                     messages, simulated>>
      /\ spc' = "ended" /\ spc # "accept"
      /\ conn9099' = IF conn9099 = "none" THEN "none" ELSE "lost"
      /\ (toSim' = toSim \/ (toSim # <<>> /\ toSim' = Tail(toSim)))
      /\ (toTrainer' = toTrainer \/ toTrainer' = <<>>)
      /\ NumClients' = NumClients
  <2>1. CASE RecvExit
    BY <2>1 DEF RecvExit, EndProcess, NumClients
  <2>2. CASE RecvFails
    BY <2>2 DEF RecvFails, EndProcess, NumClients
  <2>3. CASE WriteFails
    BY <2>3 DEF WriteFails, EndProcess, NumClients
  <2>4. CASE Crash
    BY <2>4 DEF Crash, EndProcess, NumClients
  <2> QED BY <2>1, <2>2, <2>3, <2>4
<1>2. TrainerOK' /\ SimulatorOK' /\ Beginning' /\ InStep'
  BY <1>1 DEF LinkInv, TrainerOK, SimulatorOK, Beginning, InStep, Many
<1>3. toSim' \in Seq(Commands(rnd))
  BY <1>1, HeadTailProperties DEF LinkInv, WordsOK
<1>4. toTrainer' \in Seq(Responses(rnd))
  BY <1>1, EmptySeq DEF LinkInv, WordsOK
<1>5. WordsOK'
  BY <1>1, <1>3, <1>4 DEF LinkInv, WordsOK
<1> QED BY <1>2, <1>5 DEF LinkInv

\* The simulator's answers.
LEMMA SimulatorWrites ==
  ASSUME SetupOK, LinkInv, SendResponse \/ SendMessage
  PROVE  LinkInv'
<1> USE DEF setup, trainerVars
<1>1. /\ UNCHANGED <<members, tpc, rnd, sent, items, stats, answered, conn9099, toSim, round,
                     command, flags>>
      /\ spc \in {"running", "sending"} /\ spc' \in {"sending", "recv"}
      /\ NumClients' = NumClients /\ NumClients \in Nat \ {0}
      /\ rnd \in Nat /\ command \in 1..rnd /\ round \in 0..rnd /\ command = round
  BY NumClientsType, RoundsAssumption
  DEF SendResponse, SendMessage, NumClients, LinkInv, TrainerOK, SimulatorOK
<1>2. messages' \in 0..NumClients /\ (spc' = "sending" => messages' < NumClients)
  <2>1. CASE SendResponse
    BY <1>1, <2>1 DEF SendResponse
  <2>2. CASE SendMessage
    <3>1. messages \in 0..NumClients /\ messages < NumClients /\ messages' = messages + 1
          /\ spc' = IF messages' = NumClients THEN "recv" ELSE "sending"
      BY <2>2 DEF SendMessage, LinkInv, SimulatorOK
    <3> QED BY <1>1, <3>1
  <2> QED BY <2>1, <2>2
<1>3. TrainerOK'
  BY <1>1 DEF LinkInv, TrainerOK, Many
<1>2a. /\ simulated' \in 0..command
       /\ spc' \in {"recv", "sending"} => simulated' = command
  <2>1. CASE SendResponse
    <3>1. simulated' = simulated + 1 /\ spc = "running"
      BY <2>1 DEF SendResponse
    <3> QED BY <1>1, <3>1 DEF LinkInv, SimulatorOK
  <2>2. CASE SendMessage
    <3>1. simulated' = simulated /\ spc = "sending"
      BY <2>2 DEF SendMessage
    <3> QED BY <1>1, <3>1 DEF LinkInv, SimulatorOK
  <2> QED BY <2>1, <2>2
<1>4. SimulatorOK' /\ Beginning'
  BY <1>1, <1>2, <1>2a DEF LinkInv, SimulatorOK, Beginning
<1>5. WordsOK'
  <2>1. Word("response", command) \in Responses(rnd) /\ Word("id", command) \in Responses(rnd)
        /\ Word("time", command) \in Responses(rnd)
        /\ Word("throughput", command) \in Responses(rnd)
    BY <1>1 DEF Word, Responses
  <2>2. <<Word("response", command)>> \in Seq(Responses(rnd))
        /\ Message(command) \in Seq(Responses(rnd))
    BY <2>1 DEF Message
  <2>3. PICK words \in Seq(Responses(rnd)) :
          toTrainer' = IF conn9099 = "served" THEN toTrainer \o words ELSE toTrainer
    BY <2>2 DEF SendResponse, SendMessage, Write
  <2>4. toTrainer' \in Seq(Responses(rnd))
    BY <2>3, ConcatProperties DEF LinkInv, WordsOK
  <2> QED BY <1>1, <2>4 DEF LinkInv, WordsOK
<1>6. Expected' = Expected /\ Writing' = Writing
  BY <1>1 DEF Expected, Writing
<1>7. InStep'
  BY <1>1, <1>6, InStepFrame DEF LinkInv
<1> QED BY <1>3, <1>4, <1>5, <1>7 DEF LinkInv

\* A broken connection takes what was under way with it.
LEMMA ConnectionBreaks ==
  ASSUME SetupOK, LinkInv, Reset
  PROVE  LinkInv'
<1> USE DEF setup, trainerVars, simVars
<1>1. /\ UNCHANGED <<members, tpc, rnd, sent, items, stats, answered, spc, round, command,
                     flags, messages, simulated>>
      /\ conn9099 = "served" /\ conn9099' = "lost" /\ toSim' = <<>> /\ toTrainer' = <<>>
      /\ NumClients' = NumClients /\ NumClients \in Nat \ {0}
  BY NumClientsType DEF Reset, NumClients
<1>2. TrainerOK' /\ SimulatorOK' /\ Beginning'
  BY <1>1 DEF LinkInv, TrainerOK, SimulatorOK, Beginning, Many
<1>3. WordsOK'
  BY <1>1, EmptySeq DEF LinkInv, WordsOK
<1>4. InStep'
  <2>1. Expected \in Places
    BY <1>1, RoundsAssumption DEF Expected, Places, LinkInv, TrainerOK, SimulatorOK
  <2>2. PICK q \in Places : q = Expected
    BY <2>1
  <2>3. PICK at \in [1..(0 + 1) -> Places] : at[1] = q
    <3> DEFINE f == [i \in 1..(0 + 1) |-> q]
    <3>1. f \in [1..(0 + 1) -> Places] /\ f[1] = q
      OBVIOUS
    <3> HIDE DEF f
    <3> QED BY <3>1
  <2>4. Expected' = q /\ Places' = Places /\ Len(toSim') = 0
    BY <1>1, <2>2 DEF Expected, Places
  <2>5. Track(0, at)'
    BY <1>1, <2>3, <2>4 DEF Track
  <2>6. at \in [1..(0 + 1) -> Places']
    BY <2>3, <2>4
  <2> QED BY <2>5, <2>6 DEF InStep
<1> QED BY <1>2, <1>3, <1>4 DEF LinkInv

LEMMA LinkStays ==
  ASSUME LinkInv, UNCHANGED linkVars
  PROVE  LinkInv'
<1>1. UNCHANGED <<members, faults, tpc, rnd, sent, items, stats, answered, spc, round, command,
                  flags, messages, simulated, conn9099, toSim, toTrainer>>
  BY DEF linkVars, setup, trainerVars, simVars, streams
<1>2. NumClients' = NumClients
  BY <1>1 DEF NumClients
<1>3. TrainerOK' /\ SimulatorOK' /\ Beginning' /\ WordsOK'
  BY <1>1, <1>2 DEF LinkInv, TrainerOK, SimulatorOK, Beginning, WordsOK, Many
<1>4. Expected' = Expected /\ Writing' = Writing
  BY <1>1 DEF Expected, Writing
<1>5. InStep'
  BY <1>1, <1>4, InStepFrame DEF LinkInv
<1> QED BY <1>3, <1>5 DEF LinkInv

LEMMA LinkInvAlways == Spec => [](SetupOK /\ LinkInv)
<1>1. SetupOK /\ LinkInv /\ [Next]_vars => LinkInv'
  <2> SUFFICES ASSUME SetupOK, LinkInv, [Next]_vars PROVE LinkInv'
    OBVIOUS
  <2>1. CASE Trainer
    BY <2>1, QuietTrainerStep, SendWordStep, SendExitStep DEF Trainer
  <2>2. CASE CommandLoop
    BY <2>2, SimulatorReads, SimulatorStops, SimulatorWrites DEF CommandLoop
  <2>3. CASE Simulate \/ UNCHANGED vars
    BY <2>3, LinkStays DEF Simulate, vars
  <2>4. CASE Reset \/ Crash
    BY <2>4, ConnectionBreaks, SimulatorStops
  <2> QED BY <2>1, <2>2, <2>3, <2>4 DEF Next, Stopped
<1> QED BY <1>1, LinkInvInit, SetupAlways, PTL DEF Spec

-----------------------------------------------------------------------------
(* Theorems                                                                *)

\* The variables of Ns3Link have their types: no counter of rounds, flags or messages
\* leaves its range, and every word is of a round that has begun.
THEOREM LinkTypeCorrect == Spec => []TypeOK
<1>1. SetupOK /\ LinkInv /\ ExchangeTypeOK => TypeOK
  <2> SUFFICES ASSUME SetupOK, LinkInv, ExchangeTypeOK PROVE TypeOK
    OBVIOUS
  <2>1. \A i \in DOMAIN toSim : toSim[i] \in Commands(rnd)
    BY LenProperties, ElementOfSeq DEF LinkInv, WordsOK
  <2>2. \A i \in DOMAIN toTrainer : toTrainer[i] \in Responses(rnd)
    BY LenProperties, ElementOfSeq DEF LinkInv, WordsOK
  <2>3. SetupOK /\ TrainerOK /\ SimulatorOK /\ stats \subseteq 1..rnd
    BY DEF LinkInv, WordsOK
  <2> HIDE DEF NumClients, Many
  <2> QED BY <2>1, <2>2, <2>3
          DEF TypeOK, SetupOK, TrainerOK, SimulatorOK, Commands, Responses
<1> QED BY <1>1, LinkInvAlways, ExchangeInLink, ExchangeTypeCorrect, PTL

\* Whatever is lost, given up or refused, the simulator never takes a flag for a command
\* or a command for a flag, nor a flag of another round (recv in fl-sim-interface.cc).
THEOREM CommandsStayAligned == Spec => []CommandsAligned
<1>1. SetupOK /\ LinkInv => CommandsAligned
  <2> SUFFICES ASSUME SetupOK, LinkInv, toSim # <<>>
               PROVE  /\ spc = "recv" => Head(toSim).kind \in {"run", "exit"}
                      /\ spc = "flags" => Head(toSim) = Word("flag", command)
    BY DEF CommandsAligned
  <2>1. spc # "ended" => \/ Head(toSim) = WordAt(Expected)
                         \/ Head(toSim).kind = "exit" /\ Expected[2] = 0
    BY WordExpected DEF LinkInv
  <2>2. CASE spc = "recv"
    BY <2>1, <2>2 DEF WordAt, Word, Expected
  <2>3. CASE spc = "flags"
    <3>1. flags + 1 # 0
      BY <2>3, NumClientsType DEF LinkInv, SimulatorOK
    <3> QED BY <2>1, <2>3, <3>1 DEF WordAt, Expected
  <2> QED BY <2>2, <2>3
<1> QED BY <1>1, LinkInvAlways, PTL

\* The simulator's own count of rounds is the trainer's round that it simulates (main.cc).
THEOREM LabelsAreRounds == Spec => []RoundsLabelled
<1>1. LinkInv => RoundsLabelled
  BY DEF LinkInv, SimulatorOK, RoundsLabelled
<1> QED BY <1>1, LinkInvAlways, PTL

\* In every run that the trainer asks for, uploads follow downloads, whatever the faults
\* of the link.
THEOREM LinkedUploadsFollow == Spec => []UploadFollowsDownload
<1> QED BY ExchangeInLink, UploadsFollowDownloads, PTL

\* Likewise, a run that is answered for before its time limit has everybody's model.
THEOREM LinkedFinishedUploaded == Spec => []FinishedMeansUploaded
<1> QED BY ExchangeInLink, FinishedIsUploaded, PTL

\* Likewise, the only client of a round is sent its whole model.
THEOREM LinkedLoneSender == Spec => []LoneSenderNeverStalls
<1> QED BY ExchangeInLink, LoneSenderGoesOn, PTL

-----------------------------------------------------------------------------
(* The stream of responses: the trainer reads them whole and in order,     *)
(* unless a read is given up between two messages.                         *)

(* Places in the stream                                                    *)

\* <<r, m, j>>: the j-th word of the m-th message of the response to round r, or
\* its header (m = 0, j = 3).  n is the number of clients.
Spots(n) == Nat \X (0..n) \X (1..3)
NextSpot(n, q) ==
  IF q[3] < 3 THEN <<q[1], q[2], q[3] + 1>>
  ELSE IF q[2] < n THEN <<q[1], q[2] + 1, 1>> ELSE <<q[1] + 1, 0, 3>>
WordIn(q) ==
  Word(IF q[2] = 0 THEN "response"
       ELSE IF q[3] = 1 THEN "id" ELSE IF q[3] = 2 THEN "time" ELSE "throughput", q[1])

\* The words s lead from place a to place b.
Leads(n, s, a, b) ==
  \E at \in [1..(Len(s) + 1) -> Spots(n)] :
    /\ at[1] = a /\ at[Len(s) + 1] = b
    /\ \A i \in 1..Len(s) : s[i] = WordIn(at[i]) /\ at[i + 1] = NextSpot(n, at[i])

LEMMA NoWordsLead ==
  ASSUME NEW n, NEW a \in Spots(n)
  PROVE  Leads(n, <<>>, a, a)
<1> DEFINE at == [i \in 1..(Len(<<>>) + 1) |-> a]
<1>1. Len(<<>>) = 0
  BY EmptySeq
<1>2. /\ at \in [1..(Len(<<>>) + 1) -> Spots(n)] /\ at[1] = a /\ at[Len(<<>>) + 1] = a
  BY <1>1
<1>3. \A i \in 1..Len(<<>>) : FALSE
  BY <1>1
<1> HIDE DEF at
<1> QED BY <1>2, <1>3 DEF Leads

LEMMA NextSpotType ==
  ASSUME NEW n \in Nat, NEW q \in Spots(n)
  PROVE  NextSpot(n, q) \in Spots(n)
BY DEF Spots, NextSpot

\* One more word at the end.
LEMMA WriteLeads ==
  ASSUME NEW n \in Nat, NEW S, NEW s \in Seq(S), NEW a, NEW b \in Spots(n), Leads(n, s, a, b),
         WordIn(b) \in S
  PROVE  Leads(n, Append(s, WordIn(b)), a, NextSpot(n, b))
<1>1. PICK at \in [1..(Len(s) + 1) -> Spots(n)] :
        /\ at[1] = a /\ at[Len(s) + 1] = b
        /\ \A i \in 1..Len(s) : s[i] = WordIn(at[i]) /\ at[i + 1] = NextSpot(n, at[i])
  BY DEF Leads
<1>2. PICK t, k : t = Append(s, WordIn(b)) /\ k = Len(s)
  OBVIOUS
<1>3. /\ k \in Nat /\ Len(t) = k + 1
      /\ \A i \in 1..k : t[i] = s[i]
      /\ t[k + 1] = WordIn(b)
  BY <1>2, LenProperties, AppendProperties
<1>4. PICK f \in [1..(k + 1 + 1) -> Spots(n)] :
        f[k + 1 + 1] = NextSpot(n, b) /\ \A i \in 1..(k + 1) : f[i] = at[i]
  <2> DEFINE g == [i \in 1..(k + 1 + 1) |-> IF i = k + 2 THEN NextSpot(n, b) ELSE at[i]]
  <2>1. g \in [1..(k + 1 + 1) -> Spots(n)]
    BY <1>1, <1>2, <1>3, NextSpotType
  <2>2. g[k + 1 + 1] = NextSpot(n, b) /\ \A i \in 1..(k + 1) : g[i] = at[i]
    BY <1>3
  <2> HIDE DEF g
  <2> QED BY <2>1, <2>2
<1>5. ASSUME NEW i \in 1..(k + 1)
      PROVE  t[i] = WordIn(f[i]) /\ f[i + 1] = NextSpot(n, f[i])
  <2>1. CASE i \in 1..k
    <3>1. i + 1 \in 1..(k + 1)
      BY <1>3, <2>1
    <3> QED BY <1>1, <1>2, <1>3, <1>4, <2>1, <3>1
  <2>2. CASE i = k + 1
    BY <1>1, <1>2, <1>3, <1>4, <2>2
  <2> QED BY <1>3, <2>1, <2>2
<1>6. f[1] = a
  BY <1>1, <1>3, <1>4
<1>7. Leads(n, t, a, NextSpot(n, b))
  BY <1>3, <1>4, <1>5, <1>6 DEF Leads
<1> QED BY <1>2, <1>7

\* The first word is the one at the place they lead from, and the others lead on
\* from the next.
LEMMA ReadLeads ==
  ASSUME NEW n \in Nat, NEW S, NEW s \in Seq(S), s # <<>>, NEW a, NEW b, Leads(n, s, a, b)
  PROVE  Head(s) = WordIn(a) /\ Leads(n, Tail(s), NextSpot(n, a), b)
<1>1. PICK at \in [1..(Len(s) + 1) -> Spots(n)] :
        /\ at[1] = a /\ at[Len(s) + 1] = b
        /\ \A i \in 1..Len(s) : s[i] = WordIn(at[i]) /\ at[i + 1] = NextSpot(n, at[i])
  BY DEF Leads
<1>2. Len(s) \in Nat \ {0}
  BY EmptySeq
<1>a. PICK k \in Nat : Len(s) = k + 1
  <2>1. Len(s) - 1 \in Nat /\ Len(s) = (Len(s) - 1) + 1
    BY <1>2
  <2> QED BY <2>1
<1>b. PICK t : t = Tail(s)
  OBVIOUS
<1>3. t = Tail(s) /\ Len(s) = k + 1 /\ k \in Nat
  BY <1>a, <1>b
<1>4. Len(t) = k /\ \A i \in 1..k : t[i] = s[i + 1]
  <2>1. Len(t) = Len(s) - 1 /\ \A i \in 1..Len(t) : t[i] = s[i + 1]
    BY <1>3, HeadTailProperties
  <2> QED BY <1>3, <2>1
<1>5. Head(s) = s[1] /\ s[1] = WordIn(a) /\ at[2] = NextSpot(n, a)
  BY <1>1, <1>2
<1>6. PICK f \in [1..(k + 1) -> Spots(n)] : \A i \in 1..(k + 1) : f[i] = at[i + 1]
  <2> DEFINE g == [i \in 1..(k + 1) |-> at[i + 1]]
  <2>1. g \in [1..(k + 1) -> Spots(n)] /\ \A i \in 1..(k + 1) : g[i] = at[i + 1]
    BY <1>1, <1>3
  <2> HIDE DEF g
  <2> QED BY <2>1
<1>7. ASSUME NEW i \in 1..k
      PROVE  t[i] = WordIn(f[i]) /\ f[i + 1] = NextSpot(n, f[i])
  <2>1. i + 1 \in 1..(k + 1) /\ i \in 1..(k + 1)
    OBVIOUS
  <2> QED BY <1>1, <1>3, <1>4, <1>6, <2>1
<1>8. f[1] = NextSpot(n, a) /\ f[k + 1] = b
  BY <1>1, <1>3, <1>5, <1>6
<1>9. Leads(n, t, NextSpot(n, a), b)
  BY <1>4, <1>6, <1>7, <1>8 DEF Leads
<1> QED BY <1>3, <1>5, <1>9

\* No words lead nowhere.
LEMMA LeadsNowhere ==
  ASSUME NEW n, NEW a, NEW b, Leads(n, <<>>, a, b)
  PROVE  a = b
BY EmptySeq DEF Leads

\* A message is three words.
LEMMA ThreeTails ==
  ASSUME NEW S, NEW s \in Seq(S), Len(s) >= 3
  PROVE  /\ s # <<>> /\ Tail(s) # <<>> /\ Tail(Tail(s)) # <<>>
         /\ Tail(s) \in Seq(S) /\ Tail(Tail(s)) \in Seq(S)
         /\ s[1] = Head(s) /\ s[2] = Head(Tail(s)) /\ s[3] = Head(Tail(Tail(s)))
         /\ SubSeq(s, 4, Len(s)) = Tail(Tail(Tail(s)))
<1>1. Len(s) \in Nat /\ s # <<>>
  BY EmptySeq, LenProperties
<1>2. PICK t : t = Tail(s)
  OBVIOUS
<1>3. t \in Seq(S) /\ Len(t) = Len(s) - 1 /\ t # <<>> /\ \A i \in 1..Len(t) : t[i] = s[i + 1]
  <2>1. t \in Seq(S) /\ Len(t) = Len(s) - 1 /\ \A i \in 1..Len(t) : t[i] = s[i + 1]
    BY <1>1, <1>2, HeadTailProperties
  <2>2. Len(t) # 0
    BY <1>1, <2>1
  <2> QED BY <2>1, <2>2, EmptySeq
<1>4. PICK u : u = Tail(t)
  OBVIOUS
<1>5. u \in Seq(S) /\ Len(u) = Len(s) - 2 /\ u # <<>> /\ \A i \in 1..Len(u) : u[i] = t[i + 1]
  <2>1. u \in Seq(S) /\ Len(u) = Len(t) - 1 /\ \A i \in 1..Len(u) : u[i] = t[i + 1]
    BY <1>3, <1>4, HeadTailProperties
  <2>2. Len(u) = Len(s) - 2 /\ Len(u) # 0
    BY <1>1, <1>3, <2>1
  <2> QED BY <2>1, <2>2, EmptySeq
<1>6. PICK v : v = Tail(u)
  OBVIOUS
<1>7. v \in Seq(S) /\ Len(v) = Len(s) - 3 /\ \A i \in 1..Len(v) : v[i] = u[i + 1]
  <2>1. v \in Seq(S) /\ Len(v) = Len(u) - 1 /\ \A i \in 1..Len(v) : v[i] = u[i + 1]
    BY <1>5, <1>6, HeadTailProperties
  <2>2. Len(v) = Len(s) - 3
    BY <1>1, <1>5, <2>1
  <2> QED BY <2>1, <2>2
<1>8. s[1] = Head(s) /\ s[2] = Head(t) /\ s[3] = Head(u)
  BY <1>1, <1>3, <1>5
<1>9. SubSeq(s, 4, Len(s)) = v
  <2>1. PICK w : w = SubSeq(s, 4, Len(s))
    OBVIOUS
  <2>2. \A i \in 4..Len(s) : s[i] \in S
    BY <1>1, ElementOfSeq
  <2>3. /\ w \in Seq(S) /\ Len(w) = Len(s) - 3
        /\ \A i \in 1..(Len(s) - 3) : w[i] = s[i + 3]
    <3>1. /\ w \in Seq(S)
          /\ Len(w) = IF 4 <= Len(s) THEN Len(s) - 4 + 1 ELSE 0
          /\ \A i \in 1..(Len(s) - 4 + 1) : w[i] = s[4 + i - 1]
      BY <1>1, <2>1, <2>2, SubSeqProperties
    <3>2. \A i \in 1..(Len(s) - 3) : i \in 1..(Len(s) - 4 + 1) /\ 4 + i - 1 = i + 3
      BY <1>1
    <3>3. Len(w) = Len(s) - 3
      <4>1. Len(w) = IF 4 <= Len(s) THEN Len(s) - 4 + 1 ELSE 0
        BY <3>1
      <4>2. PICK l : l = Len(s)
        OBVIOUS
      <4>3. (IF 4 <= l THEN l - 4 + 1 ELSE 0) = l - 3
        BY <1>1, <4>2
      <4> QED BY <4>1, <4>2, <4>3
    <3>4. ASSUME NEW i \in 1..(Len(s) - 3) PROVE w[i] = s[i + 3]
      <4>1. w[i] = s[4 + i - 1] /\ 4 + i - 1 = i + 3
        BY <3>1, <3>2
      <4> QED BY <4>1
    <3> QED BY <3>1, <3>3, <3>4
  <2>4. \A i \in 1..(Len(s) - 3) : v[i] = s[i + 3]
    <3>1. ASSUME NEW i \in 1..(Len(s) - 3) PROVE v[i] = s[i + 3]
      <4>1. i \in 1..Len(v) /\ i + 1 \in 1..Len(u) /\ i + 2 \in 1..Len(t)
        BY <1>1, <1>3, <1>5, <1>7
      <4>2. v[i] = u[i + 1] /\ u[i + 1] = t[(i + 1) + 1] /\ t[i + 2] = s[(i + 2) + 1]
        BY <1>3, <1>5, <1>7, <4>1
      <4>3. (i + 1) + 1 = i + 2 /\ (i + 2) + 1 = i + 3
        BY <1>1
      <4> QED BY <4>2, <4>3
    <3> QED BY <3>1
  <2>5. Len(w) = Len(v) /\ \A i \in 1..Len(w) : w[i] = v[i]
    BY <1>1, <1>7, <2>3, <2>4
  <2> QED BY <1>7, <2>1, <2>3, <2>5, SeqEqual
<1> QED BY <1>1, <1>2, <1>3, <1>4, <1>5, <1>6, <1>8, <1>9

LEMMA ThreeAppends ==
  ASSUME NEW S, NEW s \in Seq(S), NEW x \in S, NEW y \in S, NEW z \in S
  PROVE  s \o <<x, y, z>> = Append(Append(Append(s, x), y), z)
<1>1. PICK l \in Nat : l = Len(s)
  BY LenProperties
<1>2. PICK t : t = Append(s, x)
  OBVIOUS
<1>3. t \in Seq(S) /\ Len(t) = l + 1 /\ (\A i \in 1..l : t[i] = s[i]) /\ t[l + 1] = x
  BY <1>1, <1>2, AppendProperties
<1>4. PICK u : u = Append(t, y)
  OBVIOUS
<1>5. u \in Seq(S) /\ Len(u) = l + 2 /\ (\A i \in 1..(l + 1) : u[i] = t[i]) /\ u[l + 2] = y
  <2>1. u \in Seq(S) /\ Len(u) = Len(t) + 1 /\ (\A i \in 1..Len(t) : u[i] = t[i])
        /\ u[Len(t) + 1] = y
    BY <1>3, <1>4, AppendProperties
  <2>2. Len(t) = l + 1 /\ Len(t) + 1 = l + 2
    BY <1>3
  <2> QED BY <2>1, <2>2
<1>6. PICK v : v = Append(u, z)
  OBVIOUS
<1>7. v \in Seq(S) /\ Len(v) = l + 3 /\ (\A i \in 1..(l + 2) : v[i] = u[i]) /\ v[l + 3] = z
  <2>1. v \in Seq(S) /\ Len(v) = Len(u) + 1 /\ (\A i \in 1..Len(u) : v[i] = u[i])
        /\ v[Len(u) + 1] = z
    BY <1>5, <1>6, AppendProperties
  <2>2. Len(u) = l + 2 /\ Len(u) + 1 = l + 3
    BY <1>5
  <2> QED BY <2>1, <2>2
<1>8. PICK m : m = <<x, y, z>>
  OBVIOUS
<1>9. m \in Seq(S) /\ Len(m) = 3 /\ m[1] = x /\ m[2] = y /\ m[3] = z
  BY <1>8
<1>10. PICK w : w = s \o m
  OBVIOUS
<1>11. w \in Seq(S) /\ Len(w) = l + 3
       /\ \A i \in 1..(l + 3) : w[i] = IF i <= l THEN s[i] ELSE m[i - l]
  <2>1. w \in Seq(S) /\ Len(w) = Len(s) + Len(m)
        /\ \A i \in 1..(Len(s) + Len(m)) : w[i] = IF i <= Len(s) THEN s[i] ELSE m[i - Len(s)]
    BY <1>9, <1>10, ConcatProperties
  <2> QED BY <1>1, <1>9, <2>1
<1>12. ASSUME NEW i \in 1..(l + 3) PROVE v[i] = w[i]
  <2>1. CASE i \in 1..l
    <3>1. i \in 1..(l + 1) /\ i \in 1..(l + 2) /\ i <= l
      BY <1>1, <2>1
    <3> QED BY <1>3, <1>5, <1>7, <1>11, <2>1, <3>1
  <2>2. CASE i = l + 1
    <3>1. i \in 1..(l + 1) /\ i \in 1..(l + 2) /\ ~(i <= l) /\ i - l = 1
      BY <1>1, <2>2
    <3> QED BY <1>3, <1>5, <1>7, <1>9, <1>11, <2>2, <3>1
  <2>3. CASE i = l + 2
    <3>1. i \in 1..(l + 2) /\ ~(i <= l) /\ i - l = 2
      BY <1>1, <2>3
    <3> QED BY <1>5, <1>7, <1>9, <1>11, <2>3, <3>1
  <2>4. CASE i = l + 3
    <3>1. ~(i <= l) /\ i - l = 3
      BY <1>1, <2>4
    <3> QED BY <1>7, <1>9, <1>11, <2>4, <3>1
  <2> QED BY <1>1, <2>1, <2>2, <2>3, <2>4
<1>13. v = w
  BY <1>7, <1>11, <1>12, SeqEqual
<1> QED BY <1>2, <1>4, <1>6, <1>8, <1>10, <1>13

-----------------------------------------------------------------------------
(* The stream of responses                                                 *)

\* The place the trainer reads next, and that the simulator writes next.
ReadingAt ==
  IF tpc = "items" THEN <<answered + 1, NumClients - items + 1, 1>> ELSE <<answered + 1, 0, 3>>
AnsweringAt ==
  IF spc = "sending" THEN <<command, messages + 1, 1>>
  ELSE IF spc \in {"flags", "running"} THEN <<command, 0, 3>> ELSE <<round + 1, 0, 3>>

\* What is unread leads from the one place to the other, as long as they are connected.
Flow ==
  \E b \in Spots(NumClients) :
    /\ Leads(NumClients, toTrainer, ReadingAt, b)
    /\ conn9099 = "served" => b = AnsweringAt

\* The response that is being read.
Partial == tpc = "items" => items <= NumClients /\ stats \subseteq {answered + 1}

\* A connection that nobody serves brings nothing, and the statistics of a round are
\* those of the response read in it.
Fresh ==
  /\ conn9099 \in {"none", "queued"} => toTrainer = <<>> /\ tpc # "items"
  /\ tpc \in {"sending", "training", "header"} => stats = {}

OrderInv == Fresh /\ ("stall" \notin faults => Partial /\ Flow)

\* What the steps rest on.
Base ==
  /\ NumClients \in Nat \ {0} /\ answered \in Nat /\ rnd \in Nat
  /\ TrainerOK /\ SimulatorOK /\ Beginning /\ WordsOK

LEMMA BaseHolds == SetupOK /\ LinkInv => Base
BY NumClientsType DEF Base, LinkInv, TrainerOK

LEMMA SpotTypes ==
  ASSUME Base
  PROVE  /\ tpc = "items" /\ items <= NumClients => ReadingAt \in Spots(NumClients)
         /\ tpc # "items" => ReadingAt \in Spots(NumClients)
         /\ AnsweringAt \in Spots(NumClients)
<1> USE DEF Base
<1>1. PICK n \in Nat \ {0} : n = NumClients
  OBVIOUS
<1>2. tpc = "items" /\ items <= n => n - items + 1 \in 0..n
  BY <1>1 DEF TrainerOK, Many
<1>3. spc = "sending" => messages + 1 \in 0..n
  BY <1>1 DEF SimulatorOK
<1>4. command \in Nat /\ round + 1 \in Nat
  BY DEF SimulatorOK
<1> QED BY <1>1, <1>2, <1>3, <1>4 DEF Spots, ReadingAt, AnsweringAt

\* Nothing unread: the trainer reads where the simulator writes, if they are connected.
LEMMA FlowEmpty ==
  ASSUME ReadingAt' \in Spots(NumClients'), toTrainer' = <<>>,
         conn9099' = "served" => ReadingAt' = AnsweringAt'
  PROVE  Flow'
<1>1. PICK n, a : n = NumClients' /\ a = ReadingAt'
  OBVIOUS
<1>2. Leads(n, <<>>, a, a)
  BY <1>1, NoWordsLead
<1>3. Leads(NumClients, toTrainer, ReadingAt, a)'
  BY <1>1, <1>2 DEF Leads, NextSpot, WordIn, Word
<1> QED BY <1>1, <1>3 DEF Flow

\* A connection that is not served leaves the other end open.
LEMMA FlowKept ==
  ASSUME Flow, UNCHANGED <<members, toTrainer>>, ReadingAt' = ReadingAt,
         conn9099' = "served" => conn9099 = "served" /\ AnsweringAt' = AnsweringAt
  PROVE  Flow'
<1>1. PICK b \in Spots(NumClients) :
        Leads(NumClients, toTrainer, ReadingAt, b) /\ (conn9099 = "served" => b = AnsweringAt)
  BY DEF Flow
<1>2. NumClients' = NumClients
  BY DEF NumClients
<1>3. Leads(NumClients, toTrainer, ReadingAt, b)'
  BY <1>1, <1>2 DEF Leads, NextSpot, WordIn, Word
<1> QED BY <1>1, <1>2, <1>3 DEF Flow

\* Within a message there is no boundary between responses.
LEMMA ShortOfAMessage ==
  ASSUME NEW n \in Nat \ {0}, NEW S, NEW s \in Seq(S), Len(s) < 3,
         NEW r \in Nat, NEW m \in 1..n, NEW q \in Nat, Leads(n, s, <<r, m, 1>>, <<q, 0, 3>>)
  PROVE  FALSE
<1>1. /\ NextSpot(n, <<r, m, 1>>) = <<r, m, 2>> /\ NextSpot(n, <<r, m, 2>>) = <<r, m, 3>>
  BY DEF NextSpot
<1>2. CASE s = <<>>
  BY <1>2, LeadsNowhere
<1>3. CASE s # <<>>
  <2>1. PICK t : t = Tail(s)
    OBVIOUS
  <2>2. t \in Seq(S) /\ Len(t) = Len(s) - 1
    BY <1>3, <2>1, HeadTailProperties
  <2>3. Leads(n, t, <<r, m, 2>>, <<q, 0, 3>>)
    BY <1>1, <1>3, <2>1, ReadLeads
  <2>4. CASE t = <<>>
    BY <2>3, <2>4, LeadsNowhere
  <2>5. CASE t # <<>>
    <3>1. PICK u : u = Tail(t)
      OBVIOUS
    <3>2. u \in Seq(S) /\ Len(u) = Len(t) - 1
      BY <2>2, <2>5, <3>1, HeadTailProperties
    <3>3. Leads(n, u, <<r, m, 3>>, <<q, 0, 3>>)
      BY <1>1, <2>2, <2>3, <2>5, <3>1, ReadLeads
    <3>4. u = <<>>
      BY <2>2, <3>2, LenProperties, EmptySeq
    <3> QED BY <3>3, <3>4, LeadsNowhere
  <2> QED BY <2>4, <2>5
<1> QED BY <1>2, <1>3

LEMMA OrderInit == Init => OrderInv
<1> SUFFICES ASSUME Init PROVE OrderInv
  OBVIOUS
<1>1. Base
  BY SetupsAssumption, LinkInvInit, BaseHolds DEF Init, SetupOK
<1>2. ReadingAt \in Spots(NumClients)
  BY <1>1, SpotTypes DEF Init
<1>3. Flow
  BY <1>2, NoWordsLead DEF Init, Flow
<1> QED BY <1>3 DEF OrderInv, Fresh, Partial, Init

-----------------------------------------------------------------------------
(* The trainer's steps                                                     *)

\* Those that touch neither the response nor the place where it is read.
LEMMA OrderApart ==
  ASSUME Base, OrderInv,
         ConnectGivesUp \/ BeginRound \/ SendWord \/ FinishTraining \/ GiveUpRound \/ TrainingRaises
  PROVE  OrderInv'
<1> USE DEF setup, simVars, streams
<1>1. /\ UNCHANGED <<members, faults, items, answered, conn9099, toTrainer, spc, round, command,
                     flags, messages>>
      /\ tpc # "items" /\ tpc' # "items"
      /\ tpc' \in {"sending", "training", "header"} => stats' = {}
  BY DEF ConnectGivesUp, BeginRound, SendWord, FinishTraining, GiveUpRound, TrainingRaises,
         OrderInv, Fresh
<1>2. ReadingAt' = ReadingAt /\ AnsweringAt' = AnsweringAt
  BY <1>1 DEF ReadingAt, AnsweringAt
<1>3. Fresh' /\ Partial'
  BY <1>1 DEF OrderInv, Fresh, Partial
<1>4. Flow => Flow'
  BY <1>1, <1>2, FlowKept
<1> QED BY <1>1, <1>3, <1>4 DEF OrderInv

\* Those after which nothing is unread and no response is being read.
LEMMA OrderDropped ==
  ASSUME Base, Base', OrderInv, Connect \/ SendFails \/ ReadEnds \/ SendExit
  PROVE  OrderInv'
<1> USE DEF setup, simVars
<1>1. /\ UNCHANGED faults /\ toTrainer' = <<>> /\ tpc' # "items"
      /\ tpc' \in {"sending", "training", "header"} => stats' = {}
      /\ conn9099' = "served" => ReadingAt' = AnsweringAt'
  <2>1. CASE Connect
    <3>1. /\ toTrainer = <<>> /\ rnd = 0 /\ answered = 0 /\ round = 0
      BY <2>1 DEF Connect, Base, Beginning, TrainerOK
    <3> QED BY <2>1, <3>1 DEF Connect, ReadingAt, AnsweringAt
  <2>2. CASE SendFails
    BY <2>2 DEF SendFails, OrderInv, Fresh
  <2>3. CASE ReadEnds
    BY <2>3 DEF ReadEnds
  <2>4. CASE SendExit
    BY <2>4 DEF SendExit
  <2> QED BY <2>1, <2>2, <2>3, <2>4
<1>2. ReadingAt' \in Spots(NumClients')
  <2>1. PICK n, r \in Nat : n = NumClients' /\ r = answered'
    BY DEF Base
  <2>2. <<r + 1, 0, 3>> \in Spots(n)
    BY <2>1 DEF Spots
  <2> QED BY <1>1, <2>1, <2>2 DEF ReadingAt
<1>3. Flow'
  BY <1>1, <1>2, FlowEmpty
<1> QED BY <1>1, <1>3 DEF OrderInv, Fresh, Partial

\* The head of what is unread is the word where the trainer reads.
LEMMA HeadRead ==
  ASSUME Base, Flow, toTrainer # <<>>
  PROVE  Head(toTrainer) = WordIn(ReadingAt)
<1>1. PICK b \in Spots(NumClients) : Leads(NumClients, toTrainer, ReadingAt, b)
  BY DEF Flow
<1>2. PICK n, s, a : n = NumClients /\ s = toTrainer /\ a = ReadingAt
  OBVIOUS
<1>3. n \in Nat /\ s \in Seq(Responses(rnd)) /\ s # <<>> /\ Leads(n, s, a, b)
  BY <1>1, <1>2 DEF Base, WordsOK
<1> QED BY <1>2, <1>3, ReadLeads

LEMMA OrderHeader ==
  ASSUME Base, Base', OrderInv, ReadHeader
  PROVE  OrderInv'
<1> USE DEF setup, simVars
<1>1. /\ UNCHANGED <<members, faults, answered, stats, conn9099, spc, round, command, messages>>
      /\ tpc = "header" /\ toTrainer # <<>> /\ toTrainer' = Tail(toTrainer)
      /\ items' = NumClients /\ tpc' = "items" /\ NumClients' = NumClients
  BY DEF ReadHeader, NumClients
<1>2. NumClients \in Nat \ {0} /\ toTrainer \in Seq(Responses(rnd)) /\ answered \in Nat
  BY DEF Base, WordsOK
<1> HIDE DEF NumClients
<1>3. Fresh' /\ Partial'
  BY <1>1, <1>2 DEF OrderInv, Fresh, Partial
<1>4. ASSUME Flow PROVE Flow'
  <2>1. PICK b \in Spots(NumClients) : /\ Leads(NumClients, toTrainer, ReadingAt, b)
                                       /\ conn9099 = "served" => b = AnsweringAt
    BY <1>4 DEF Flow
  <2>2. PICK n, s, t, a : n = NumClients /\ s = toTrainer /\ t = toTrainer' /\ a = ReadingAt
    OBVIOUS
  <2>3. n \in Nat \ {0} /\ s \in Seq(Responses(rnd)) /\ s # <<>> /\ t = Tail(s) /\ Leads(n, s, a, b)
    BY <1>1, <1>2, <2>1, <2>2
  <2>4. Leads(n, t, NextSpot(n, a), b)
    BY <2>3, ReadLeads
  <2>5. NextSpot(n, a) = <<answered + 1, 1, 1>>
    BY <1>1, <2>2, <2>3 DEF NextSpot, ReadingAt
  <2>6. ReadingAt' = <<answered + 1, 1, 1>>
    BY <1>1, <1>2 DEF ReadingAt
  <2>7. AnsweringAt' = AnsweringAt
    BY <1>1 DEF AnsweringAt
  <2>8. Leads(n, t, ReadingAt', b)
    BY <2>4, <2>5, <2>6
  <2>9. Leads(NumClients, toTrainer, ReadingAt, b)'
    BY <1>1, <2>2, <2>8 DEF Leads, NextSpot, WordIn, Word
  <2> QED BY <1>1, <2>1, <2>7, <2>9 DEF Flow
<1> QED BY <1>1, <1>3, <1>4 DEF OrderInv

\* A header is never misread.
LEMMA OrderMisread ==
  ASSUME Base, Base', OrderInv, MisreadHeader
  PROVE  OrderInv'
<1> USE DEF setup, simVars
<1>1. /\ UNCHANGED <<faults, conn9099, stats>> /\ tpc = "header" /\ toTrainer # <<>>
      /\ Head(toTrainer).kind # "response" /\ tpc' \in {"round", "items"}
  BY DEF MisreadHeader
<1>2. "stall" \in faults
  <2> SUFFICES ASSUME Flow PROVE FALSE
    BY DEF OrderInv
  <2>1. Head(toTrainer) = WordIn(<<answered + 1, 0, 3>>)
    BY <1>1, HeadRead DEF ReadingAt
  <2> QED BY <1>1, <2>1 DEF WordIn, Word
<1>3. conn9099 \notin {"none", "queued"}
  BY <1>1 DEF OrderInv, Fresh
<1> QED BY <1>1, <1>2, <1>3 DEF OrderInv, Fresh

\* A message is read to its end, and with the last one the response.
LEMMA OrderMessage ==
  ASSUME Base, Base', OrderInv, ReadMessage
  PROVE  OrderInv'
<1> USE DEF setup, simVars
<1>1. /\ UNCHANGED <<members, faults, conn9099, spc, round, command, messages>>
      /\ tpc = "items" /\ Len(toTrainer) >= 3
      /\ toTrainer' = SubSeq(toTrainer, 4, Len(toTrainer))
      /\ stats' = stats \cup {toTrainer[i].round : i \in 1..3}
      /\ items' = IF items = Many THEN Many ELSE items - 1
      /\ tpc' = IF items = 1 THEN "round" ELSE "items"
      /\ answered' = IF items = 1 THEN answered + 1 ELSE answered
      /\ NumClients' = NumClients
  BY DEF ReadMessage, FromFirst, NumClients
<1>2. /\ NumClients \in Nat \ {0} /\ toTrainer \in Seq(Responses(rnd)) /\ answered \in Nat
      /\ items \in 0..(NumClients + 1) /\ items > 0
  BY <1>1 DEF Base, WordsOK, TrainerOK, Many
<1> HIDE DEF NumClients
<1>3. Fresh'
  BY <1>1 DEF OrderInv, Fresh
<1>4. ASSUME Partial, Flow PROVE Partial' /\ Flow'
  <2>1. PICK b \in Spots(NumClients) : /\ Leads(NumClients, toTrainer, ReadingAt, b)
                                       /\ conn9099 = "served" => b = AnsweringAt
    BY <1>4 DEF Flow
  <2>2. PICK n \in Nat \ {0} : n = NumClients
    BY <1>2
  <2>3. PICK s, t, r, m : s = toTrainer /\ t = toTrainer' /\ r = answered + 1 /\ m = n - items + 1
    OBVIOUS
  <2>4. /\ r \in Nat /\ m \in 1..n /\ items <= n /\ (items = 1 <=> m = n)
        /\ stats \subseteq {r} /\ n - (items - 1) + 1 = m + 1
    BY <1>1, <1>2, <1>4, <2>2, <2>3 DEF Partial
  <2>5. /\ s \in Seq(Responses(rnd)) /\ Len(s) >= 3 /\ t = SubSeq(s, 4, Len(s))
        /\ Leads(n, s, <<r, m, 1>>, b)
    BY <1>1, <1>2, <2>1, <2>2, <2>3 DEF ReadingAt
  <2>6. PICK t1, t2 : t1 = Tail(s) /\ t2 = Tail(t1)
    OBVIOUS
  <2>7. /\ s # <<>> /\ t1 # <<>> /\ t2 # <<>>
        /\ t1 \in Seq(Responses(rnd)) /\ t2 \in Seq(Responses(rnd)) /\ t = Tail(t2)
        /\ s[1] = Head(s) /\ s[2] = Head(t1) /\ s[3] = Head(t2)
    BY <2>5, <2>6, ThreeTails
  <2>8. /\ NextSpot(n, <<r, m, 1>>) = <<r, m, 2>> /\ NextSpot(n, <<r, m, 2>>) = <<r, m, 3>>
        /\ NextSpot(n, <<r, m, 3>>) = IF m < n THEN <<r, m + 1, 1>> ELSE <<r + 1, 0, 3>>
    BY DEF NextSpot
  <2>9. Head(s) = WordIn(<<r, m, 1>>) /\ Leads(n, t1, <<r, m, 2>>, b)
    <3>1. Head(s) = WordIn(<<r, m, 1>>) /\ Leads(n, t1, NextSpot(n, <<r, m, 1>>), b)
      BY <2>5, <2>6, <2>7, ReadLeads
    <3> QED BY <2>8, <3>1
  <2>10. Head(t1) = WordIn(<<r, m, 2>>) /\ Leads(n, t2, <<r, m, 3>>, b)
    <3>1. Head(t1) = WordIn(<<r, m, 2>>) /\ Leads(n, t2, NextSpot(n, <<r, m, 2>>), b)
      <4>1. PICK a, S : a = <<r, m, 2>> /\ S = Responses(rnd)
        OBVIOUS
      <4>2. t1 \in Seq(S) /\ t1 # <<>> /\ Leads(n, t1, a, b) /\ t2 = Tail(t1)
        BY <2>6, <2>7, <2>9, <4>1
      <4>3. Head(t1) = WordIn(a) /\ Leads(n, t2, NextSpot(n, a), b)
        BY <4>2, ReadLeads
      <4> QED BY <4>1, <4>3
    <3> QED BY <2>8, <3>1
  <2>11. Head(t2) = WordIn(<<r, m, 3>>) /\ Leads(n, t, NextSpot(n, <<r, m, 3>>), b)
    BY <2>7, <2>10, ReadLeads
  <2>12. stats' \subseteq {r}
    <3>1. \A i \in 1..3 : s[i].round = r
      BY <2>7, <2>9, <2>10, <2>11 DEF WordIn, Word
    <3> QED BY <1>1, <2>3, <2>4, <3>1
  <2>13. items # Many
    BY <2>2, <2>4, <1>2 DEF Many
  <2>14. NextSpot(n, <<r, m, 3>>) = ReadingAt'
    <3>1. CASE items = 1
      BY <1>1, <2>3, <2>4, <2>8, <3>1 DEF ReadingAt
    <3>2. CASE items # 1
      <4>1. m < n
        BY <2>4, <3>2
      <4>2. ReadingAt' = <<r, n - (items - 1) + 1, 1>>
        BY <1>1, <2>2, <2>3, <2>13, <3>2 DEF ReadingAt
      <4> QED BY <2>4, <2>8, <4>1, <4>2
    <3> QED BY <3>1, <3>2
  <2>15. Partial'
    <3>1. tpc' = "items" => items' = items - 1 /\ items - 1 <= n /\ answered' = answered
      BY <1>1, <1>2, <2>2, <2>4, <2>13
    <3> QED BY <1>1, <2>2, <2>3, <2>12, <3>1 DEF Partial
  <2>16. AnsweringAt' = AnsweringAt
    BY <1>1 DEF AnsweringAt
  <2>17. Leads(n, t, ReadingAt', b)
    BY <2>11, <2>14
  <2>18. Leads(NumClients, toTrainer, ReadingAt, b)'
    BY <1>1, <2>2, <2>3, <2>17 DEF Leads, NextSpot, WordIn, Word
  <2>19. Flow'
    BY <1>1, <2>1, <2>16, <2>18 DEF Flow
  <2> QED BY <2>15, <2>19
<1> QED BY <1>1, <1>3, <1>4 DEF OrderInv

\* A read is given up only where a response begins.
LEMMA OrderTimeout ==
  ASSUME Base, Base', OrderInv, ReadTimeout
  PROVE  OrderInv'
<1> USE DEF setup, simVars
<1>1. /\ UNCHANGED <<members, faults, answered, conn9099, spc, round, command, messages>>
      /\ tpc \in {"header", "items"} /\ conn9099 # "lost" /\ MayTimeOut
      /\ Len(toTrainer) < Wanted /\ toTrainer' = <<>> /\ tpc' = "round"
  BY DEF ReadTimeout
<1>2. Fresh' /\ Partial'
  BY <1>1 DEF Fresh, Partial
<1>3. ASSUME "stall" \notin faults, Partial, Flow PROVE Flow'
  <2>1. CASE tpc = "header"
    <3>1. toTrainer = <<>>
      BY <1>1, <2>1, LenProperties, EmptySeq DEF Wanted, Base, WordsOK
    <3>2. ReadingAt' = ReadingAt /\ AnsweringAt' = AnsweringAt
      BY <1>1, <2>1 DEF ReadingAt, AnsweringAt
    <3> QED BY <1>1, <1>3, <3>1, <3>2, FlowKept
  <2>2. CASE tpc = "items"
    <3>1. conn9099 = "served"
      BY <1>1, <2>2 DEF OrderInv, Fresh, Base, TrainerOK
    <3>2. spc \in {"recv", "flags", "running"}
      BY <1>1, <1>3, <3>1 DEF MayTimeOut
    <3>3. PICK b \in Spots(NumClients) : Leads(NumClients, toTrainer, ReadingAt, b) /\ b = AnsweringAt
      BY <1>3, <3>1 DEF Flow
    <3>4. PICK q \in Nat : b = <<q, 0, 3>>
      BY <3>2, <3>3 DEF AnsweringAt, Base, SimulatorOK
    <3>5. PICK n, s, r, m : /\ n = NumClients /\ s = toTrainer /\ r = answered + 1
                            /\ m = NumClients - items + 1
      OBVIOUS
    <3>6. n \in Nat \ {0} /\ s \in Seq(Responses(rnd)) /\ Len(s) < 3 /\ r \in Nat /\ m \in 1..n
      BY <1>1, <1>3, <2>2, <3>5 DEF Wanted, Base, WordsOK, Partial, TrainerOK, Many
    <3>7. Leads(n, s, <<r, m, 1>>, <<q, 0, 3>>)
      BY <2>2, <3>3, <3>4, <3>5 DEF ReadingAt
    <3> QED BY <3>6, <3>7, ShortOfAMessage
  <2> QED BY <1>1, <2>1, <2>2
<1> QED BY <1>1, <1>2, <1>3 DEF OrderInv

-----------------------------------------------------------------------------
(* The simulator's steps, and the faults                                   *)

LEMMA OrderSimulatorReads ==
  ASSUME Base, Base', OrderInv, RecvCommand \/ RecvFlag
  PROVE  OrderInv'
<1> USE DEF setup, trainerVars
<1>1. /\ UNCHANGED <<members, faults, tpc, items, stats, answered, conn9099, toTrainer>>
  BY DEF RecvCommand, RecvFlag
<1>2. ReadingAt' = ReadingAt
  BY <1>1 DEF ReadingAt, NumClients
<1>3. AnsweringAt' = AnsweringAt
  <2>1. CASE RecvCommand
    BY <2>1 DEF RecvCommand, AnsweringAt, Base, SimulatorOK
  <2>2. CASE RecvFlag
    BY <2>2 DEF RecvFlag, AnsweringAt
  <2> QED BY <2>1, <2>2
<1>4. Fresh' /\ (Partial => Partial')
  BY <1>1 DEF OrderInv, Fresh, Partial, NumClients
<1>5. Flow => Flow'
  BY <1>1, <1>2, <1>3, FlowKept
<1> QED BY <1>1, <1>4, <1>5 DEF OrderInv

\* The connection ends with the process, or without; what was written can be lost.
LEMMA OrderBroken ==
  ASSUME Base, Base', OrderInv, RecvExit \/ RecvFails \/ WriteFails \/ Crash \/ Reset
  PROVE  OrderInv'
<1> USE DEF setup, trainerVars
<1>1. /\ UNCHANGED <<members, faults, tpc, items, stats, answered>>
      /\ conn9099' = IF conn9099 = "none" THEN "none" ELSE "lost"
      /\ toTrainer' = toTrainer \/ toTrainer' = <<>>
  BY DEF RecvExit, RecvFails, WriteFails, Crash, Reset, EndProcess
<1>2. ReadingAt' = ReadingAt /\ NumClients' = NumClients
  BY <1>1 DEF ReadingAt, NumClients
<1>3. Fresh' /\ (Partial => Partial')
  BY <1>1, <1>2 DEF OrderInv, Fresh, Partial
<1>4. ASSUME Partial, Flow PROVE Flow'
  <2>1. CASE toTrainer' = toTrainer
    BY <1>1, <1>2, <1>4, <2>1, FlowKept
  <2>2. CASE toTrainer' = <<>>
    <3>1. ReadingAt' \in Spots(NumClients')
      BY <1>2, <1>4, SpotTypes DEF Partial
    <3> QED BY <1>1, <2>2, <3>1, FlowEmpty
  <2> QED BY <1>1, <2>1, <2>2
<1> QED BY <1>1, <1>3, <1>4 DEF OrderInv

\* The header is written where the simulator answers.
LEMMA OrderResponse ==
  ASSUME Base, Base', OrderInv, SendResponse
  PROVE  OrderInv'
<1> USE DEF setup, trainerVars
<1>1. /\ UNCHANGED <<members, faults, tpc, items, stats, answered, rnd, conn9099, command>>
      /\ spc = "running" /\ spc' = "sending" /\ messages' = 0
      /\ toTrainer' = IF conn9099 = "served" THEN toTrainer \o <<Word("response", command)>>
                                              ELSE toTrainer
      /\ NumClients' = NumClients
  BY DEF SendResponse, Write, NumClients
<1>2. NumClients \in Nat \ {0} /\ toTrainer \in Seq(Responses(rnd)) /\ command \in 1..rnd
  BY <1>1 DEF Base, WordsOK, SimulatorOK
<1>3. ReadingAt' = ReadingAt
  BY <1>1 DEF ReadingAt
<1> HIDE DEF NumClients
<1>4. Fresh' /\ (Partial => Partial')
  BY <1>1 DEF OrderInv, Fresh, Partial
<1>5. ASSUME Flow PROVE Flow'
  <2>1. CASE conn9099 # "served"
    BY <1>1, <1>3, <1>5, <2>1, FlowKept
  <2>2. CASE conn9099 = "served"
    <3>1. PICK n, s, t, a : n = NumClients /\ s = toTrainer /\ t = toTrainer' /\ a = ReadingAt
      OBVIOUS
    <3>2. PICK b : b = <<command, 0, 3>>
      OBVIOUS
    <3>3. n \in Nat \ {0} /\ s \in Seq(Responses(rnd)) /\ b \in Spots(n) /\ Leads(n, s, a, b)
      BY <1>1, <1>2, <1>5, <2>2, <3>1, <3>2 DEF Flow, AnsweringAt
    <3>4. WordIn(b) = Word("response", command) /\ WordIn(b) \in Responses(rnd)
      BY <1>2, <3>2 DEF WordIn, Word, Responses
    <3>5. t = Append(s, WordIn(b))
      BY <1>1, <2>2, <3>1, <3>3, <3>4, AppendIsConcat
    <3>6. Leads(n, t, a, NextSpot(n, b))
      BY <3>3, <3>4, <3>5, WriteLeads
    <3>7. NextSpot(n, b) = <<command, 1, 1>> /\ NextSpot(n, b) \in Spots(n)
      <4>1. b[1] = command /\ b[2] = 0 /\ b[3] = 3 /\ 0 < n
        BY <3>2, <3>3
      <4>2. NextSpot(n, b) = <<command, 1, 1>>
        BY <4>1 DEF NextSpot
      <4> QED BY <3>3, <4>2, NextSpotType
    <3>8. AnsweringAt' = <<command, 1, 1>>
      BY <1>1 DEF AnsweringAt
    <3>9. Leads(NumClients, toTrainer, ReadingAt, NextSpot(n, b))'
      BY <1>1, <1>3, <3>1, <3>6 DEF Leads, NextSpot, WordIn, Word
    <3> QED BY <1>1, <3>1, <3>7, <3>8, <3>9 DEF Flow
  <2> QED BY <2>1, <2>2
<1> QED BY <1>1, <1>4, <1>5 DEF OrderInv

\* A message is written whole.
LEMMA OrderAnswer ==
  ASSUME Base, Base', OrderInv, SendMessage
  PROVE  OrderInv'
<1> USE DEF setup, trainerVars
<1>1. /\ UNCHANGED <<members, faults, tpc, items, stats, answered, rnd, conn9099, round, command>>
      /\ spc = "sending" /\ messages' = messages + 1
      /\ spc' = IF messages + 1 = NumClients THEN "recv" ELSE "sending"
      /\ toTrainer' = IF conn9099 = "served" THEN toTrainer \o Message(command) ELSE toTrainer
      /\ NumClients' = NumClients
  BY DEF SendMessage, Write, NumClients
<1>2. /\ NumClients \in Nat \ {0} /\ toTrainer \in Seq(Responses(rnd)) /\ command \in 1..rnd
      /\ messages \in Nat /\ messages < NumClients /\ command = round
  BY <1>1 DEF Base, WordsOK, SimulatorOK
<1>3. ReadingAt' = ReadingAt
  BY <1>1 DEF ReadingAt
<1> HIDE DEF NumClients
<1>4. Fresh' /\ (Partial => Partial')
  BY <1>1 DEF OrderInv, Fresh, Partial
<1>5. ASSUME Flow PROVE Flow'
  <2>1. CASE conn9099 # "served"
    BY <1>1, <1>3, <1>5, <2>1, FlowKept
  <2>2. CASE conn9099 = "served"
    <3>1. PICK n, s, t, a : n = NumClients /\ s = toTrainer /\ t = toTrainer' /\ a = ReadingAt
      OBVIOUS
    <3>2. PICK r, m, S : r = command /\ m = messages + 1 /\ S = Responses(rnd)
      OBVIOUS
    <3>3. /\ n \in Nat \ {0} /\ s \in Seq(S) /\ r \in Nat /\ m \in 1..n
          /\ Leads(n, s, a, <<r, m, 1>>)
      BY <1>1, <1>2, <1>5, <2>2, <3>1, <3>2 DEF Flow, AnsweringAt
    <3>4. PICK x, y, z : x = Word("id", r) /\ y = Word("time", r) /\ z = Word("throughput", r)
      OBVIOUS
    <3>5. /\ x \in S /\ y \in S /\ z \in S
          /\ x = WordIn(<<r, m, 1>>) /\ y = WordIn(<<r, m, 2>>) /\ z = WordIn(<<r, m, 3>>)
      BY <1>2, <3>2, <3>3, <3>4 DEF WordIn, Word, Responses
    <3>6. PICK s1, s2 : s1 = Append(s, x) /\ s2 = Append(s1, y)
      OBVIOUS
    <3>7. t = Append(s2, z) /\ s1 \in Seq(S) /\ s2 \in Seq(S)
      <4>1. t = s \o <<x, y, z>>
        BY <1>1, <2>2, <3>1, <3>2, <3>4 DEF Message
      <4>2. s1 \in Seq(S)
        BY <3>3, <3>5, <3>6, AppendProperties
      <4>3. s2 \in Seq(S)
        BY <3>5, <3>6, <4>2, AppendProperties
      <4>4. s \o <<x, y, z>> = Append(Append(Append(s, x), y), z)
        <5>1. s \in Seq(S) /\ x \in S /\ y \in S /\ z \in S
          BY <3>3, <3>5
        <5> HIDE DEF setup, trainerVars
        <5> QED BY <5>1, ThreeAppends
      <4> QED BY <3>6, <4>1, <4>2, <4>3, <4>4
    <3>8. /\ <<r, m, 1>> \in Spots(n) /\ <<r, m, 2>> \in Spots(n) /\ <<r, m, 3>> \in Spots(n)
      BY <3>3 DEF Spots
    <3>9. /\ NextSpot(n, <<r, m, 1>>) = <<r, m, 2>> /\ NextSpot(n, <<r, m, 2>>) = <<r, m, 3>>
          /\ NextSpot(n, <<r, m, 3>>) = IF m < n THEN <<r, m + 1, 1>> ELSE <<r + 1, 0, 3>>
      BY DEF NextSpot
    <3>10. Leads(n, s1, a, <<r, m, 2>>)
      <4>1. Leads(n, s1, a, NextSpot(n, <<r, m, 1>>))
        BY <3>3, <3>5, <3>6, <3>8, WriteLeads
      <4> QED BY <3>9, <4>1
    <3>11. Leads(n, s2, a, <<r, m, 3>>)
      <4>1. Leads(n, s2, a, NextSpot(n, <<r, m, 2>>))
        BY <3>3, <3>5, <3>6, <3>7, <3>8, <3>10, WriteLeads
      <4> QED BY <3>9, <4>1
    <3>12. Leads(n, t, a, NextSpot(n, <<r, m, 3>>))
      BY <3>3, <3>5, <3>7, <3>8, <3>11, WriteLeads
    <3>13. NextSpot(n, <<r, m, 3>>) = AnsweringAt'
      <4>1. CASE m = n
        <5>1. AnsweringAt' = <<round + 1, 0, 3>>
          BY <1>1, <3>1, <3>2, <4>1 DEF AnsweringAt
        <5> QED BY <1>2, <3>2, <3>3, <3>9, <4>1, <5>1
      <4>2. CASE m # n
        <5>1. AnsweringAt' = <<r, m + 1, 1>>
          BY <1>1, <3>1, <3>2, <4>2 DEF AnsweringAt
        <5> QED BY <3>3, <3>9, <4>2, <5>1
      <4> QED BY <4>1, <4>2
    <3>14. NextSpot(n, <<r, m, 3>>) \in Spots(n)
      BY <3>3, <3>8, NextSpotType
    <3>15. Leads(NumClients, toTrainer, ReadingAt, NextSpot(n, <<r, m, 3>>))'
      BY <1>1, <1>3, <3>1, <3>12 DEF Leads, NextSpot, WordIn, Word
    <3> QED BY <1>1, <3>1, <3>13, <3>14, <3>15 DEF Flow
  <2> QED BY <2>1, <2>2
<1> QED BY <1>1, <1>4, <1>5 DEF OrderInv

LEMMA OrderStays ==
  ASSUME OrderInv, UNCHANGED linkVars
  PROVE  OrderInv'
<1>1. UNCHANGED <<members, faults, tpc, rnd, items, stats, answered, spc, round, command,
                  messages, conn9099, toTrainer>>
  BY DEF linkVars, setup, trainerVars, simVars, streams
<1>2. ReadingAt' = ReadingAt /\ AnsweringAt' = AnsweringAt
  BY <1>1 DEF ReadingAt, AnsweringAt, NumClients
<1>3. Fresh' /\ (Partial => Partial')
  BY <1>1 DEF OrderInv, Fresh, Partial, NumClients
<1>4. Flow => Flow'
  BY <1>1, <1>2, FlowKept
<1> QED BY <1>1, <1>3, <1>4 DEF OrderInv

-----------------------------------------------------------------------------
(* The theorem                                                             *)

LEMMA OrderInvAlways == Spec => [](Base /\ OrderInv)
<1>1. Base /\ Base' /\ OrderInv /\ [Next]_vars => OrderInv'
  <2> SUFFICES ASSUME Base, Base', OrderInv, [Next]_vars PROVE OrderInv'
    OBVIOUS
  <2>1. CASE Trainer
    BY <2>1, OrderApart, OrderDropped, OrderHeader, OrderMisread, OrderMessage, OrderTimeout
       DEF Trainer
  <2>2. CASE CommandLoop
    BY <2>2, OrderSimulatorReads, OrderBroken, OrderResponse, OrderAnswer DEF CommandLoop
  <2>3. CASE Simulate \/ UNCHANGED vars
    BY <2>3, OrderStays DEF Simulate, vars
  <2>4. CASE Reset \/ Crash
    BY <2>4, OrderBroken
  <2> QED BY <2>1, <2>2, <2>3, <2>4 DEF Next, Stopped
<1> QED BY <1>1, OrderInit, BaseHolds, LinkInvAlways, PTL DEF Spec

\* Unless the gap between two messages can exceed the socket's 30 s, the trainer reads
\* responses whole and in order, whatever else is lost, late or given up
\* (receive_round_stats).
THEOREM ResponsesStayInOrder == Spec => []ResponsesInOrder
<1>1. Base /\ OrderInv => ResponsesInOrder
  <2> SUFFICES ASSUME Base, OrderInv, "stall" \notin faults PROVE
        /\ tpc = "header" /\ toTrainer # <<>> => Head(toTrainer) = Word("response", answered + 1)
        /\ tpc = "items" => stats \subseteq {answered + 1}
    BY DEF ResponsesInOrder
  <2>1. Partial /\ Flow
    BY DEF OrderInv
  <2>2. ASSUME tpc = "header", toTrainer # <<>>
        PROVE  Head(toTrainer) = Word("response", answered + 1)
    BY <2>1, <2>2, HeadRead DEF ReadingAt, WordIn
  <2> QED BY <2>1, <2>2 DEF Partial
<1> QED BY <1>1, OrderInvAlways, PTL

-----------------------------------------------------------------------------
(* The simulator as a service                                              *)

\* Nothing is written of a round before its simulation ended, so what is read whole
\* was simulated.
Answerable ==
  /\ toTrainer \in Seq(Responses(simulated))
  /\ "stall" \notin faults =>
       answered <= simulated /\ (tpc = "items" => answered < simulated)

\* A step either has to do with the responses or leaves them and what is unread alone.
LEMMA AnswersFrame ==
  ASSUME Base, Base', OrderInv, Answerable, [Next]_vars
  PROVE  /\ UNCHANGED <<members, faults>> /\ (toTrainer' = toTrainer \/ toTrainer' = <<>>)
         /\ UNCHANGED <<answered, simulated>> /\ (tpc' = "items" => tpc = "items")
         \/ ReadHeader \/ MisreadHeader \/ ReadMessage \/ SendResponse \/ SendMessage
<1> USE DEF setup, trainerVars, simVars, streams, linkVars, vars
<1>1. CASE Trainer
  BY <1>1 DEF Trainer, Connect, ConnectGivesUp, BeginRound, SendWord, SendFails,
     FinishTraining, GiveUpRound, TrainingRaises, ReadTimeout, ReadEnds, SendExit
<1>2. CASE CommandLoop
  BY <1>2 DEF CommandLoop, RecvCommand, RecvExit, RecvFlag, RecvFails, WriteFails
<1>3. CASE Simulate \/ Reset \/ Crash \/ UNCHANGED vars
  BY <1>3 DEF Simulate, Reset, Crash
<1> QED BY <1>1, <1>2, <1>3 DEF Next, Stopped

LEMMA AnswerableStep ==
  ASSUME Base, Base', OrderInv, Answerable, [Next]_vars
  PROVE  Answerable'
<1>1. simulated \in Nat /\ answered \in Nat /\ NumClients \in Nat \ {0}
  BY DEF Base, SimulatorOK
<1>2. CASE /\ UNCHANGED <<members, faults>> /\ (toTrainer' = toTrainer \/ toTrainer' = <<>>)
           /\ UNCHANGED <<answered, simulated>> /\ (tpc' = "items" => tpc = "items")
  BY <1>2, EmptySeq DEF Answerable, Responses
<1>3. CASE ReadHeader \/ MisreadHeader
  <2>1. /\ tpc = "header" /\ toTrainer # <<>> /\ toTrainer' = Tail(toTrainer)
        /\ UNCHANGED <<faults, answered, simulated>>
    BY <1>3 DEF ReadHeader, MisreadHeader, setup, simVars
  <2>2. Head(toTrainer) \in Responses(simulated) /\ toTrainer' \in Seq(Responses(simulated))
    BY <2>1, HeadTailProperties DEF Answerable
  <2>3. ASSUME "stall" \notin faults
        PROVE  answered < simulated
    <3>1. Head(toTrainer) = WordIn(<<answered + 1, 0, 3>>)
      BY <2>1, <2>3, HeadRead DEF ReadingAt, OrderInv
    <3>2. Head(toTrainer).round = answered + 1
      BY <3>1 DEF WordIn, Word
    <3> QED BY <1>1, <2>2, <3>2 DEF Responses
  <2> QED BY <1>1, <2>1, <2>2, <2>3 DEF Answerable, Responses
<1>4. CASE ReadMessage
  <2>1. /\ tpc = "items" /\ Len(toTrainer) >= 3
        /\ toTrainer' = SubSeq(toTrainer, 4, Len(toTrainer))
        /\ tpc' = IF items = 1 THEN "round" ELSE "items"
        /\ answered' = IF items = 1 THEN answered + 1 ELSE answered
        /\ UNCHANGED <<faults, simulated>>
    BY <1>4 DEF ReadMessage, FromFirst, setup, simVars
  <2>2. toTrainer' \in Seq(Responses(simulated))
    <3>1. PICK s, S : s = toTrainer /\ S = Responses(simulated)
      OBVIOUS
    <3>2. s \in Seq(S) /\ Len(s) >= 3 /\ toTrainer' = SubSeq(s, 4, Len(s))
      BY <2>1, <3>1 DEF Answerable
    <3>3. PICK t1, t2 : t1 = Tail(s) /\ t2 = Tail(t1)
      OBVIOUS
    <3>4. t2 # <<>> /\ t2 \in Seq(S) /\ toTrainer' = Tail(t2)
      BY <3>2, <3>3, ThreeTails
    <3> QED BY <3>1, <3>4, HeadTailProperties
  <2> QED BY <1>1, <2>1, <2>2 DEF Answerable, Responses
<1>5. CASE SendResponse \/ SendMessage
  <2>1. /\ spc \in {"running", "sending"} /\ UNCHANGED <<faults, answered, tpc, command>>
        /\ simulated' \in Nat /\ simulated <= simulated'
    BY <1>1, <1>5 DEF SendResponse, SendMessage, setup, trainerVars
  <2>2. spc' \in {"sending", "recv"} /\ command \in 1..simulated'
    <3>1. spc' \in {"sending", "recv"}
      BY <1>5 DEF SendResponse, SendMessage
    <3>2. simulated' = command' /\ command > 0 /\ command \in Nat
      BY <2>1, <3>1 DEF Base, SimulatorOK
    <3> QED BY <2>1, <3>1, <3>2
  <2>3. PICK S : S = Responses(simulated')
    OBVIOUS
  <2>4. toTrainer \in Seq(S)
    <3>1. Responses(simulated) \subseteq S
      BY <1>1, <2>1, <2>3 DEF Responses
    <3> QED BY <3>1, SeqMonotonic DEF Answerable
  <2>5. <<Word("response", command)>> \in Seq(S) /\ Message(command) \in Seq(S)
    <3>1. \A k \in {"response", "id", "time", "throughput"} : Word(k, command) \in S
      BY <2>2, <2>3 DEF Word, Responses
    <3> QED BY <3>1 DEF Message
  <2>6. PICK words \in Seq(S) :
          toTrainer' = IF conn9099 = "served" THEN toTrainer \o words ELSE toTrainer
    BY <1>5, <2>5 DEF SendResponse, SendMessage, Write
  <2>7. toTrainer' \in Seq(S)
    BY <2>4, <2>6, ConcatProperties
  <2> QED BY <1>1, <2>1, <2>3, <2>7 DEF Answerable, Responses
<1> QED BY <1>2, <1>3, <1>4, <1>5, AnswersFrame

\* Every step of trainer and simulator is one of the service, or none that it knows of.
LEMMA ServiceStep ==
  ASSUME SetupOK, LinkInv, Base, OrderInv, Answerable, [Next]_vars
  PROVE  [Service!Next]_Service!vars
<1> USE DEF Service!Next, Service!vars
<1>1. CASE BeginRound
  <2>1. rnd < NumRounds /\ rnd' = rnd + 1 /\ UNCHANGED <<faults, answered, command, simulated>>
    BY <1>1 DEF BeginRound, setup, simVars
  <2> QED BY <2>1 DEF Service!Ask
<1>2. CASE RecvCommand
  <2>1. /\ spc = "recv" /\ toSim # <<>> /\ Head(toSim).kind = "run"
        /\ command' = Head(toSim).round /\ UNCHANGED <<faults, rnd, answered, simulated>>
    BY <1>2 DEF RecvCommand, setup, trainerVars
  <2>2. Expected = <<round + 1, 0>> /\ simulated = command /\ command = round
    BY <2>1 DEF Expected, LinkInv, SimulatorOK
  <2>3. Head(toSim) = WordAt(Expected)
    BY <2>1, WordExpected DEF LinkInv
  <2>4. command' = command + 1
    BY <2>1, <2>2, <2>3 DEF WordAt, Word
  <2>5. command < rnd
    <3>1. Head(toSim) \in Commands(rnd)
      BY <2>1, HeadTailProperties DEF LinkInv, WordsOK
    <3> QED BY <2>1, <2>4, <3>1 DEF Commands, Base, SimulatorOK
  <2> QED BY <2>1, <2>2, <2>4, <2>5 DEF Service!Begin
<1>3. CASE SendResponse
  <2>1. /\ spc = "running" /\ simulated' = simulated + 1
        /\ UNCHANGED <<faults, rnd, answered, command>>
    BY <1>3 DEF SendResponse, setup, trainerVars
  <2>2. simulated < command
    BY <2>1 DEF LinkInv, SimulatorOK
  <2> QED BY <2>1, <2>2 DEF Service!Finish
<1>4. CASE ReadMessage
  <2>1. /\ tpc = "items" /\ (answered' = answered + 1 \/ answered' = answered)
        /\ UNCHANGED <<faults, rnd, command, simulated>>
    BY <1>4 DEF ReadMessage, setup, simVars
  <2>2. "stall" \notin faults => answered < simulated
    BY <2>1 DEF Answerable
  <2> QED BY <2>1, <2>2 DEF Service!Answer
<1>5. CASE UNCHANGED <<faults, rnd, answered, command, simulated>>
  BY <1>5
<1>6. \/ BeginRound \/ RecvCommand \/ SendResponse \/ ReadMessage
      \/ UNCHANGED <<faults, rnd, answered, command, simulated>>
  <2> USE DEF setup, trainerVars, simVars, linkVars, vars
  <2>1. CASE Trainer
    BY <2>1 DEF Trainer, Connect, ConnectGivesUp, SendWord, SendFails, FinishTraining,
       GiveUpRound, TrainingRaises, ReadHeader, MisreadHeader, ReadTimeout, ReadEnds, SendExit
  <2>2. CASE CommandLoop
    BY <2>2 DEF CommandLoop, RecvExit, RecvFlag, RecvFails, SendMessage, WriteFails
  <2>3. CASE Simulate \/ Reset \/ Crash \/ UNCHANGED vars
    BY <2>3 DEF Simulate, Reset, Crash
  <2> QED BY <2>1, <2>2, <2>3 DEF Next, Stopped
<1> QED BY <1>1, <1>2, <1>3, <1>4, <1>5, <1>6

\* Whatever is lost, late or given up, trainer and simulator together are a service that
\* simulates the rounds one by one, and answers for a round after its simulation, once.
THEOREM LinkIsRoundService == Spec => ImplementsRoundService
<1>1. Init => Service!Init /\ Answerable
  BY EmptySeq DEF Init, Service!Init, Answerable
<1>2. Base /\ Base' /\ OrderInv /\ Answerable /\ [Next]_vars => Answerable'
  BY AnswerableStep
<1>3. SetupOK /\ LinkInv /\ Base /\ OrderInv /\ Answerable /\ [Next]_vars
        => [Service!Next]_Service!vars
  BY ServiceStep
<1> QED BY <1>1, <1>2, <1>3, OrderInvAlways, LinkInvAlways, PTL
        DEF Spec, ImplementsRoundService, Service!Spec

=============================================================================
