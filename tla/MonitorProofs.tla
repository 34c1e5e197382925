--------------------------- MODULE MonitorProofs ---------------------------
(***************************************************************************)
(* Theorems about Monitor, for any set of nodes, any setups of them and    *)
(* any number of rounds.                                                   *)
(***************************************************************************)
EXTENDS Monitor, TLAPS

\* An open listener is the one Start opens for a setup that NewServer accepts, and
\* nobody is past Connect with an external node but by the fingerprints of both.
Pinned(n) ==
    config[n].bind = "external" => config[n].peer = MonitorCert /\ config[n].pin = n

PinInv ==
    \A n \in Nodes :
        /\ listener[n] # "none" => MayBind(n) /\ listener[n] = Listener(n)
        /\ poll[n] \in {"asked", "answered"} \/ said[n] # {} => Pinned(n)

\* How far a poll is, what was said in the round, and what is in results.
RoundInv ==
    \A n \in Nodes :
        /\ poll[n] \in {"connect", "asked"} => said[n] = {}
        /\ poll[n] = "answered" => answer[n] \in States /\ said[n] = {answer[n]}
        /\ poll[n] = "done" /\ result[n] \in States => said[n] = {result[n]}
        /\ parsed /\ poll[n] = "done" /\ mon \in {"polling", "exited"} =>
               result[n] \in States \cup {"down"}

ExitInv ==
    /\ mon = "polling" => parsed
    /\ mon = "exited" => code = IF parsed THEN EvaluateExitCode(result) ELSE 2

IInv == TypeOK /\ PinInv /\ RoundInv /\ ExitInv

----------------------------------------------------------------------------
LEMMA InitInv ==
    ASSUME Init PROVE IInv
<1>. USE DEF Init, All
<1>1. TypeOK
    BY DEF TypeOK, States
<1>2. PinInv
    BY DEF PinInv
<1>3. RoundInv
    BY DEF RoundInv, States
<1>4. ExitInv
    BY DEF ExitInv
<1>. QED BY <1>1, <1>2, <1>3, <1>4 DEF IInv

\* A node's own steps change nothing the monitor holds.
LEMMA NodeKeeps ==
    ASSUME IInv, NEW n \in Nodes, NodeStep(n) PROVE IInv'
<1>. USE DEF NodeStep, Boot, Down, HealthChanges, Change, monVars
<1>1. TypeOK'
    BY DEF IInv, TypeOK, States, Listener
<1>2. PinInv'
    BY DEF IInv, TypeOK, PinInv, Pinned, MayBind, Listener
<1>3. RoundInv'
    BY DEF IInv, RoundInv
<1>4. ExitInv'
    BY DEF IInv, ExitInv
<1>. QED BY <1>1, <1>2, <1>3, <1>4 DEF IInv

\* Whoever gets through to an external node is its monitor and knows it.
LEMMA ConnectPinned ==
    ASSUME IInv, NEW n \in Nodes, Connect(n) PROVE Pinned(n)
BY MonitorAssumption DEF Connect, IInv, PinInv, Pinned, MayBind, Listener, HandshakeOk,
    VerifyPeerCertificate, ParseFingerprints

LEMMA ConnectKeeps ==
    ASSUME IInv, NEW n \in Nodes, Connect(n) PROVE IInv'
<1>. USE DEF Connect, nodeVars
<1>1. TypeOK'
    BY DEF IInv, TypeOK
<1>2. PinInv'
  <2>1. Pinned(n)
    BY ConnectPinned
  <2>. QED BY <2>1 DEF IInv, TypeOK, PinInv, Pinned, MayBind, Listener
<1>3. RoundInv'
    BY DEF IInv, TypeOK, RoundInv
<1>4. ExitInv'
    BY DEF IInv, ExitInv
<1>. QED BY <1>1, <1>2, <1>3, <1>4 DEF IInv

LEMMA HandleStatusKeeps ==
    ASSUME IInv, NEW n \in Nodes, HandleStatus(n) PROVE IInv'
<1>. USE DEF HandleStatus, nodeVars
<1>1. TypeOK'
    BY DEF IInv, TypeOK, All
<1>2. PinInv'
    BY DEF IInv, TypeOK, PinInv, Pinned, MayBind, Listener
<1>3. RoundInv'
    BY DEF IInv, TypeOK, RoundInv
<1>4. ExitInv'
    BY DEF IInv, ExitInv
<1>. QED BY <1>1, <1>2, <1>3, <1>4 DEF IInv

\* PollTarget returns the answer, or an error.
LEMMA ReturnKeeps ==
    ASSUME IInv, NEW n \in Nodes, ReceiveStatus(n) \/ PollFails(n) PROVE IInv'
<1>1. PICK r \in States \cup {"down"} :
          /\ Return(n, r)
          /\ r \in States => said[n] = {r}
          /\ mon = "polling"
    BY DEF ReceiveStatus, PollFails, IInv, TypeOK, RoundInv, States, All
<1>. USE <1>1 DEF Return, nodeVars
<1>2. TypeOK'
    BY DEF IInv, TypeOK
<1>3. PinInv'
    BY DEF IInv, TypeOK, PinInv, Pinned, MayBind, Listener
<1>4. RoundInv'
    BY DEF IInv, TypeOK, RoundInv
<1>5. ExitInv'
    BY DEF IInv, ExitInv
<1>. QED BY <1>2, <1>3, <1>4, <1>5 DEF IInv

LEMMA StartRoundKeeps ==
    ASSUME IInv, StartRound PROVE IInv'
<1>. USE DEF StartRound, nodeVars, All
<1>1. TypeOK'
    BY DEF IInv, TypeOK
<1>2. PinInv'
    BY DEF IInv, TypeOK, PinInv, Pinned, MayBind, Listener
<1>3. RoundInv'
    BY DEF IInv, TypeOK, RoundInv
<1>4. ExitInv'
    BY DEF IInv, ExitInv
<1>. QED BY <1>1, <1>2, <1>3, <1>4 DEF IInv

LEMMA ReportKeeps ==
    ASSUME IInv, Report PROVE IInv'
<1>. USE DEF Report, nodeVars
<1>1. TypeOK'
    BY DEF IInv, TypeOK, All, AllBack, EvaluateExitCode
<1>2. PinInv'
    BY DEF IInv, TypeOK, PinInv, Pinned, MayBind, Listener
<1>3. RoundInv'
    BY DEF IInv, TypeOK, RoundInv
<1>4. ExitInv'
    BY DEF IInv, ExitInv, EvaluateExitCode
<1>. QED BY <1>1, <1>2, <1>3, <1>4 DEF IInv

LEMMA ParseFailsKeeps ==
    ASSUME IInv, ParseTargetsFails PROVE IInv'
<1>. USE DEF ParseTargetsFails, nodeVars
<1>1. TypeOK'
    BY DEF IInv, TypeOK
<1>2. PinInv'
    BY DEF IInv, TypeOK, PinInv, Pinned, MayBind, Listener
<1>3. RoundInv'
    BY DEF IInv, RoundInv
<1>4. ExitInv'
    BY DEF IInv, ExitInv
<1>. QED BY <1>1, <1>2, <1>3, <1>4 DEF IInv

LEMMA StepInv ==
    ASSUME IInv, [Next]_vars PROVE IInv'
<1>1. CASE UNCHANGED vars
    BY <1>1 DEF IInv, TypeOK, PinInv, Pinned, MayBind, Listener, RoundInv, ExitInv,
        EvaluateExitCode, vars, nodeVars, monVars
<1>2. CASE Over
    BY <1>1, <1>2 DEF Over
<1>3. CASE ParseTargetsFails \/ StartRound \/ Report
    BY <1>3, ParseFailsKeeps, StartRoundKeeps, ReportKeeps
<1>4. ASSUME NEW n \in Nodes, PollStep(n) \/ NodeStep(n) PROVE IInv'
    BY <1>4, NodeKeeps, ConnectKeeps, HandleStatusKeeps, ReturnKeeps DEF PollStep
<1>. QED BY <1>1, <1>2, <1>3, <1>4 DEF Next

\* The invariant holds in every state of every monitor and its nodes.
LEMMA MonitorInvariant == Spec => []IInv
<1>1. Init => IInv
    BY InitInv
<1>2. IInv /\ [Next]_vars => IInv'
    BY StepInv
<1>. QED BY <1>1, <1>2, PTL DEF Spec

----------------------------------------------------------------------------
\* Every variable keeps its type, and between two rounds no goroutine of PollAll
\* is left.
THEOREM MonitorTypeCorrect == Spec => []TypeOK
<1>1. IInv => TypeOK
    BY DEF IInv
<1>. QED BY <1>1, MonitorInvariant, PTL

\* However nodes are set up, one bound to an external address has told its status to
\* nobody but the monitor it pinned (NewServer, Start and NewServerTLSConfig agree on
\* when that matters), and only if the monitor had pinned that very node.
THEOREM MonitorExternalPinned == Spec => []ExternalPinned
<1>1. IInv => ExternalPinned
    BY DEF IInv, PinInv, Pinned, ExternalPinned
<1>. QED BY <1>1, MonitorInvariant, PTL

\* The exit code of RunMonitor is what EvaluateExitCode's comment promises of the
\* nodes' own answers, for any number of nodes that come and go meanwhile.
THEOREM MonitorExitCodeHonest == Spec => []ExitCodeHonest
<1>1. ASSUME IInv, mon = "exited", parsed
      PROVE  /\ code = EvaluateExitCode(result)
             /\ \A n \in Nodes : /\ result[n] \in {"ok", "warn", "fail", "down"}
                                 /\ result[n] # "down" => said[n] = {result[n]}
    BY <1>1 DEF IInv, ExitInv, TypeOK, RoundInv, States, All
<1>2. ASSUME IInv, mon = "exited", ~parsed PROVE code = 2
    BY <1>2 DEF IInv, ExitInv
<1>3. IInv => ExitCodeHonest
    BY <1>1, <1>2 DEF ExitCodeHonest, EvaluateExitCode
<1>. QED BY <1>3, MonitorInvariant, PTL

\* Whenever a round is reported, each node's line is an error or what this node said
\* in this round: PollAll waits for every goroutine and each writes its own result.
THEOREM MonitorReportFresh == Spec => ReportFresh
<1>. DEFINE Fresh == mon = "polling" /\ mon' # "polling" =>
                \A n \in Nodes : result[n] = "down" \/ result[n] \in said[n]
<1>1. ASSUME IInv, [Next]_vars PROVE [Fresh]_vars
  <2>1. CASE Report
    BY <1>1, <2>1 DEF Report, AllBack, IInv, RoundInv, ExitInv
  <2>2. CASE UNCHANGED vars
    BY <2>2
  <2>3. CASE ParseTargetsFails \/ StartRound \/ Over
    BY <2>3 DEF ParseTargetsFails, StartRound, Over
  <2>4. ASSUME NEW n \in Nodes, PollStep(n) \/ NodeStep(n) PROVE mon' = mon
    BY <2>4 DEF PollStep, NodeStep, Connect, HandleStatus, ReceiveStatus, PollFails, Return,
        Boot, Down, HealthChanges, monVars
  <2>. QED BY <1>1, <2>1, <2>2, <2>3, <2>4 DEF Next
<1>. QED BY <1>1, MonitorInvariant, PTL DEF Spec, ReportFresh
============================================================================
