------------------------------ MODULE Monitor ------------------------------
(***************************************************************************)
(* xport monitor and the status servers it asks: monitor/client.go,        *)
(* monitor/server.go, the pinning of tlsutil/verify.go and the part of     *)
(* runSend and runRecv that starts a status server.  The health a node     *)
(* reports is the subject of SenderHealth and ReceiverHealth; here it may  *)
(* change at any time.                                                     *)
(*                                                                         *)
(* A certificate is the model value of its owner, and its fingerprint is   *)
(* the same value.  The monitor asks every node once per round.            *)
(***************************************************************************)
EXTENDS Naturals

CONSTANTS
    Nodes,          \* senders and receivers, and their certificates
    MonitorCert,    \* the certificate of the monitor
    NoFlag,         \* a fingerprint that is not given
    Blank,          \* one of nothing but colons, blanks and commas
    Configs,        \* how a node may be set up, see NodeConfigs
    MaxChanges      \* bound: starts, ends and changes of health of each node

Pins == Nodes \cup {MonitorCert, NoFlag, Blank}

\* bind: the host of -status.  peer: -status-peer-fp.  pin: what follows the @ in the
\* monitor's -targets.
NodeConfigs == [bind : {"loopback", "external"}, peer : Pins, pin : Pins]

ASSUME MonitorAssumption ==
    /\ MonitorCert \notin Nodes /\ NoFlag \notin Nodes /\ Blank \notin Nodes
    /\ NoFlag # MonitorCert /\ Blank # MonitorCert /\ NoFlag # Blank
    /\ Configs \subseteq NodeConfigs
    /\ MaxChanges \in Nat

VARIABLES
    watch,      \* -watch is positive: the monitor goes on round after round
    parsed,     \* ParseTargets finds a target in -targets
    config,     \* config[n]: how n and the monitor's target for it are set up
    listener,   \* listener[n]: "none", "plain" or "tls"
    health,     \* health[n]: what Evaluate would say
    mon,        \* RunMonitor: "wait", "polling" or "exited"
    poll,       \* poll[n]: the goroutine of PollAll that asks n
    answer,     \* answer[n]: the status on its way to the monitor
    result,     \* results, "none" before PollTarget returns
    code,       \* the exit code
    \* ghosts and bounds
    said,       \* said[n]: what n answered in this round
    changes

States == {"ok", "warn", "fail"}
nodeVars == <<config, listener, health, changes>>
monVars == <<watch, parsed, mon, poll, answer, result, code, said>>
vars == <<nodeVars, monVars>>

All(v) == [n \in Nodes |-> v]

TypeOK ==
    /\ watch \in BOOLEAN /\ parsed \in BOOLEAN
    /\ config \in [Nodes -> Configs]
    /\ listener \in [Nodes -> {"none", "plain", "tls"}]
    /\ health \in [Nodes -> States]
    /\ mon \in {"wait", "polling", "exited"}
    /\ poll \in [Nodes -> {"connect", "asked", "answered", "done"}]
    /\ answer \in [Nodes -> States \cup {"none"}]
    /\ result \in [Nodes -> States \cup {"none", "down"}]
    /\ code \in 0..2
    /\ said \in [Nodes -> SUBSET States]
    /\ changes \in [Nodes -> Nat]
    /\ mon # "polling" => poll = All("done")

Init ==
    /\ watch \in BOOLEAN /\ parsed \in BOOLEAN /\ config \in [Nodes -> Configs]
    /\ listener = All("none") /\ health = All("ok") /\ changes = All(0)
    /\ mon = "wait" /\ poll = All("done") /\ answer = All("none")
    /\ result = All("none") /\ code = 2 /\ said = All({})

----------------------------------------------------------------------------
(* Fingerprints.                                                           *)

\* NormalizeFingerprint and ParseFingerprints: nothing is left of a blank one.
ParseFingerprints(fp) == {fp} \ {NoFlag, Blank}

\* The callback of MakeVerifyPeerCertificate for the certificate a peer presents.
VerifyPeerCertificate(allowed, cert) ==
    allowed # {} /\ cert \in allowed

\* NewClientTLSConfig on one side, NewServerTLSConfig on the other.
HandshakeOk(n) ==
    /\ VerifyPeerCertificate(ParseFingerprints(config[n].pin), n)
    /\ VerifyPeerCertificate(ParseFingerprints(config[n].peer), MonitorCert)

----------------------------------------------------------------------------
(* A node and its status server.                                           *)

Change(n) ==
    /\ changes[n] < MaxChanges
    /\ changes' = [changes EXCEPT ![n] = @ + 1]

\* Mutant: the address is not looked at.
MayBindAnywhere(n) == TRUE

\* NewServer: an external address needs -status-peer-fp.
MayBind(n) == config[n].bind = "loopback" \/ config[n].peer # NoFlag

\* Start: which listener is opened.
Listener(n) ==
    IF config[n].bind = "loopback" \/ config[n].peer = NoFlag THEN "plain" ELSE "tls"

\* runSend or runRecv as far as the status server; a node that may not bind does not
\* boot.
Boot(n) ==
    /\ listener[n] = "none" /\ MayBind(n) /\ Change(n)
    /\ listener' = [listener EXCEPT ![n] = Listener(n)]
    /\ UNCHANGED <<config, health, monVars>>

\* The node is stopped or dies.
Down(n) ==
    /\ listener[n] # "none" /\ Change(n)
    /\ listener' = [listener EXCEPT ![n] = "none"]
    /\ UNCHANGED <<config, health, monVars>>

HealthChanges(n) ==
    /\ listener[n] # "none" /\ Change(n)
    /\ \E s \in States \ {health[n]} : health' = [health EXCEPT ![n] = s]
    /\ UNCHANGED <<config, listener, monVars>>

----------------------------------------------------------------------------
(* PollTarget, one goroutine per node.                                     *)

\* ParseTargets and PollTarget: without a fingerprint the scheme is http.
Scheme(n) == IF ParseFingerprints(config[n].pin) = {} THEN "plain" ELSE "tls"

\* The node is up, speaks the scheme, and each side accepts the other's certificate.
Connect(n) ==
    /\ mon = "polling" /\ poll[n] = "connect"
    /\ listener[n] # "none" /\ listener[n] = Scheme(n)
    /\ listener[n] = "tls" => HandshakeOk(n)
    /\ poll' = [poll EXCEPT ![n] = "asked"]
    /\ UNCHANGED <<nodeVars, watch, parsed, mon, answer, result, code, said>>

\* handleStatus on the node.
HandleStatus(n) ==
    /\ poll[n] = "asked" /\ listener[n] # "none"
    /\ answer' = [answer EXCEPT ![n] = health[n]]
    /\ said' = [said EXCEPT ![n] = @ \cup {health[n]}]
    /\ poll' = [poll EXCEPT ![n] = "answered"]
    /\ UNCHANGED <<nodeVars, watch, parsed, mon, result, code>>

Return(n, r) ==
    /\ poll' = [poll EXCEPT ![n] = "done"]
    /\ result' = [result EXCEPT ![n] = r]
    /\ answer' = [answer EXCEPT ![n] = "none"]
    /\ UNCHANGED <<nodeVars, watch, parsed, mon, code, said>>

ReceiveStatus(n) == poll[n] = "answered" /\ Return(n, answer[n])

\* Mutant: a node that does not answer is asked again.
PollFailsRetry(n) ==
    /\ mon = "polling" /\ poll[n] \in {"connect", "asked", "answered"}
    /\ poll' = [poll EXCEPT ![n] = "connect"]
    /\ answer' = [answer EXCEPT ![n] = "none"]
    /\ UNCHANGED <<nodeVars, watch, parsed, mon, result, code, said>>

\* No connection, a certificate that is refused, a status other than 200, an answer
\* that breaks off, or the timeout: results[idx] holds an error.
PollFails(n) ==
    mon = "polling" /\ poll[n] \in {"connect", "asked", "answered"} /\ Return(n, "down")

----------------------------------------------------------------------------
(* RunMonitor.                                                             *)

\* Without a target RunMonitor returns before the first round.
ParseTargetsFails ==
    /\ mon = "wait" /\ ~parsed
    /\ mon' = "exited" /\ code' = 2
    /\ UNCHANGED <<nodeVars, watch, parsed, poll, answer, result, said>>

\* Mutant: a node that has answered is not asked again.
StartRoundCached ==
    /\ mon = "wait" /\ parsed
    /\ mon' = "polling"
    /\ poll' = [n \in Nodes |-> IF result[n] \in States THEN "done" ELSE "connect"]
    /\ said' = All({})
    /\ UNCHANGED <<nodeVars, watch, parsed, answer, result, code>>

\* A round: PollAll makes a new slice of results and a goroutine per node.
StartRound ==
    /\ mon = "wait" /\ parsed
    /\ mon' = "polling"
    /\ poll' = All("connect") /\ result' = All("none") /\ said' = All({})
    /\ UNCHANGED <<nodeVars, watch, parsed, answer, code>>

\* Mutant: an error in a result is passed over.
EvaluateExitCodeLenient(res) ==
    IF \E n \in Nodes : res[n] = "fail" THEN 2
    ELSE IF \E n \in Nodes : res[n] = "warn" THEN 1
    ELSE 0

EvaluateExitCode(res) ==
    IF \E n \in Nodes : res[n] \in {"down", "fail"} THEN 2
    ELSE IF \E n \in Nodes : res[n] = "warn" THEN 1
    ELSE 0

\* Mutant: the first results are enough.
AllBackFirst == \E n \in Nodes : poll[n] = "done"

\* PollAll: wg.Wait.
AllBack == \A n \in Nodes : poll[n] = "done"

\* The results are rendered; the monitor exits, or waits for its ticker.
Report ==
    /\ mon = "polling" /\ AllBack
    /\ code' = EvaluateExitCode(result)
    /\ mon' = IF watch THEN "wait" ELSE "exited"
    /\ UNCHANGED <<nodeVars, watch, parsed, poll, answer, result, said>>

\* The monitor is over.
Over == mon = "exited" /\ UNCHANGED vars

PollStep(n) == Connect(n) \/ HandleStatus(n) \/ ReceiveStatus(n) \/ PollFails(n)
NodeStep(n) == Boot(n) \/ Down(n) \/ HealthChanges(n)

Next ==
    \/ \E n \in Nodes : PollStep(n) \/ NodeStep(n)
    \/ ParseTargetsFails \/ StartRound \/ Report \/ Over

Spec == Init /\ [][Next]_vars

\* client.Timeout and the context of the round bound every poll.
FairSpec ==
    /\ Spec
    /\ \A n \in Nodes : WF_vars(PollStep(n))
    /\ WF_vars(StartRound) /\ WF_vars(Report)

----------------------------------------------------------------------------
\* What the monitor shows of a node, the node said in this very round; a result is
\* never missing, left over from an earlier round or another node's.
ReportFresh ==
    [][mon = "polling" /\ mon' # "polling" =>
        \A n \in Nodes : result[n] = "down" \/ result[n] \in said[n]]_vars

\* The exit code is the one the comment of EvaluateExitCode promises, in terms of what
\* the nodes said: 0 only if every node answered ok, 1 only if every node answered and
\* none of them fail; 2 also when there was nobody to ask.
ExitCodeHonest ==
    mon = "exited" =>
        /\ code = 0 => \A n \in Nodes : said[n] = {"ok"}
        /\ code = 1 => /\ \A n \in Nodes : said[n] \in {{"ok"}, {"warn"}}
                       /\ \E n \in Nodes : said[n] = {"warn"}
        /\ code = 2 /\ parsed => \E n \in Nodes : result[n] = "down" \/ said[n] = {"fail"}

\* A node bound to an external address tells its status to nobody but the monitor it
\* pinned, and only to one that pinned the node.
ExternalPinned ==
    \A n \in Nodes :
        said[n] # {} /\ config[n].bind = "external" =>
            config[n].peer = MonitorCert /\ config[n].pin = n

\* A round ends however many nodes are down, hang or come and go meanwhile.
RoundEnds == mon = "polling" ~> mon # "polling"
============================================================================
