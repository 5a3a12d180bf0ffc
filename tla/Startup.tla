------------------------------- MODULE Startup -------------------------------
(***************************************************************************)
(* The start of the process: bootstrap() of main.ts.  Before it listens,   *)
(* app.listen() runs the onModuleInit() of every provider.  One that       *)
(* throws ends the process, since nobody catches what bootstrap() rejects  *)
(* with; the two of fabrics-old log their error and return.                *)
(*                                                                         *)
(* The framework is external: it runs the hooks module by module, the      *)
(* global and the deeper ones first, and those of one module at once.      *)
(* Nothing closes the application in good order, so that a process ends by *)
(* a crash only.                                                           *)
(***************************************************************************)
EXTENDS Naturals

CONSTANT MayFail  \* whether the hooks, the CA, the disk and the process can fail

ASSUME MayFailAssumption == MayFail \in BOOLEAN

VARIABLES
    phase,  \* of the process
    tried,  \* the hooks that returned
    ready   \* those of them that did what they are for

startVars == <<phase, tried, ready>>

Modules == <<{"redis"}, {"gateway", "ca"}, {"legacyFabric", "legacyCa"}>>
Hooks == {"redis", "gateway", "ca", "legacyFabric", "legacyCa"}

(* The hooks that catch what goes wrong in them. *)
Forgiving == {"legacyFabric", "legacyCa"}
Required == Hooks \ Forgiving

StartTypeOK ==
    /\ phase \in {"starting", "serving", "ended"}
    /\ tried \in SUBSET Hooks
    /\ ready \in SUBSET tried

StartInit ==
    /\ phase = "starting"
    /\ tried = {}
    /\ ready = {}

(* The process ends, and its memory with it. *)
End ==
    /\ phase' = "ended"
    /\ tried' = {}
    /\ ready' = {}

(* The hooks that run: those of the first module that is not done. *)
Running ==
    {h \in Hooks \ tried :
        \A i \in 1..3 : h \in Modules[i] => \A j \in 1..(i - 1) : Modules[j] \subseteq tried}

HookReturns(h) ==
    /\ phase = "starting"
    /\ h \in Running
    /\ tried' = tried \cup {h}
    /\ ready' = ready \cup {h}
    /\ UNCHANGED phase

(* Defect: the CA client of the certificates forgives its errors too. *)
DefectForgiveCa(h) ==
    /\ MayFail
    /\ phase = "starting"
    /\ h \in Running
    /\ \/ h \in Forgiving \cup {"ca"} /\ tried' = tried \cup {h} /\ UNCHANGED <<phase, ready>>
       \/ h \notin Forgiving \cup {"ca"} /\ End

HookErrs(h) ==
    /\ MayFail
    /\ phase = "starting"
    /\ h \in Running
    /\ \/ h \in Forgiving /\ tried' = tried \cup {h} /\ UNCHANGED <<phase, ready>>
       \/ h \notin Forgiving /\ End

(* Binding the port can fail as well. *)
Listen ==
    /\ phase = "starting"
    /\ tried = Hooks
    /\ \/ phase' = "serving" /\ UNCHANGED <<tried, ready>>
       \/ MayFail /\ End

(* Somebody starts the process again. *)
Restart ==
    /\ phase = "ended"
    /\ phase' = "starting"
    /\ UNCHANGED <<tried, ready>>

Starting == (\E h \in Hooks : HookReturns(h) \/ HookErrs(h)) \/ Listen \/ Restart

(* A process that takes requests has started all that ends it otherwise. *)
StartStages ==
    /\ phase = "serving" => tried = Hooks
    /\ Required \cap tried \subseteq ready

=============================================================================
