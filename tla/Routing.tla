-------------------------------- MODULE Routing --------------------------------
(***************************************************************************)
(* One run over both halves of the router: a behaviour is either a request *)
(* that searches and splits, or the simulation of one hop over tick data.  *)
(***************************************************************************)
EXTENDS Router, TickSwap

vars == <<routerVars, tickVars>>

RouterIdle ==
    /\ pools = <<>> /\ query = <<>> /\ gas = 0 /\ pc = "idle"
    /\ search = <<>> /\ routes = <<>> /\ active = <<>>
    /\ best = <<>> /\ bestNet = -1 /\ answer = [status |-> "none"]

TickIdle == job = <<>> /\ walk = [at |-> "idle"]

Init ==
    \/ RouterInit /\ TickIdle
    \/ RouterIdle /\ TickInit

Next ==
    \/ RouterNext /\ UNCHANGED tickVars
    \/ TickNext /\ UNCHANGED routerVars

\* A request and a simulation are plain computations: they keep running.
Spec == Init /\ [][Next]_vars /\ WF_vars(Next)

=============================================================================
