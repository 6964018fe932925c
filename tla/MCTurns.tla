------------------------------- MODULE MCTurns -------------------------------
(***************************************************************************)
(* Small instances of what a message goes through: ReliableLoop with one   *)
(* worker, AgentExecution (one turn), CircuitBreaker (the requests of all  *)
(* turns), BackgroundServices (what runs the loop and forwards the         *)
(* answers) and Webhook (the turns a request from outside starts).  They   *)
(* share no state: a behaviour moves one of them, the focus, and is fair   *)
(* to that one.                                                            *)
(***************************************************************************)
EXTENDS ReliableLoop, AgentExecution, CircuitBreaker, BackgroundServices,
        Webhook

CONSTANTS m1, m2, bad

VARIABLE focus

\* bad arrives as a message whose producer never set the attempt counter, m2
\* with more attempts than the policy allows.
MCHeaderAttempt ==
    [m \in Msgs |-> IF m = bad THEN 0 ELSE IF m = m2 THEN MaxAttempts + 1 ELSE 1]

MCLimitSets == [iterations : {0, 2, 3}, calls : {0, 1, 3}, budget : {0, 2}]
NoLimits == [iterations |-> 0, calls |-> 0, budget |-> 0]

turnsVars == <<focus, vars, execVars, breakerVars, serviceVars, hookVars>>

TurnsInit ==
    /\ focus \in {"loop", "turn", "breaker", "services", "webhook"}
    /\ Init
    /\ ExecInit
    /\ BreakerInit
    /\ ServicesInit
    /\ HookInit
    /\ focus = "turn" \/ limits = NoLimits
    /\ focus = "webhook" \/ active = BaseSession

TurnsNext ==
    /\ UNCHANGED focus
    /\ \/ /\ focus = "loop" /\ Next
          /\ UNCHANGED <<execVars, breakerVars, serviceVars, hookVars>>
       \/ /\ focus = "turn" /\ ExecNext
          /\ UNCHANGED <<vars, breakerVars, serviceVars, hookVars>>
       \/ /\ focus = "breaker" /\ BreakerNext
          /\ UNCHANGED <<vars, execVars, serviceVars, hookVars>>
       \/ /\ focus = "services" /\ ServicesNext
          /\ UNCHANGED <<vars, execVars, breakerVars, hookVars>>
       \/ /\ focus = "webhook" /\ HookNext
          /\ UNCHANGED <<vars, execVars, breakerVars, serviceVars>>

TurnsSpec ==
    /\ TurnsInit /\ [][TurnsNext]_turnsVars
    /\ \A w \in Workers : WF_vars(focus = "loop" /\ Step(w))
    /\ WF_execVars(focus = "turn" /\ ExecTurn)
    /\ WF_execVars(focus = "turn" /\ Forward)
    /\ WF_breakerVars(focus = "breaker" /\ Tick)
    /\ \A t \in Threads : WF_breakerVars(focus = "breaker" /\ CallerStep(t))
    /\ \A a \in Ticks : SF_serviceVars(focus = "services" /\ TickStep(a))
    /\ \A d \in Drivers : /\ WF_serviceVars(focus = "services" /\ EndUpdate(d))
                          /\ SF_serviceVars(focus = "services" /\ StartTick(d))
    /\ \A r \in Requests : WF_hookVars(focus = "webhook" /\ HookTask(r))

=============================================================================
