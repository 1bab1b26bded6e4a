--------------------------- MODULE DurableConfig ---------------------------
(***************************************************************************)
(* What the device configuration store promises, without slots, buffers or *)
(* checksums: one stored configuration, replaced as a whole or not at all. *)
(*                                                                         *)
(*   stored   what the next boot would load, or NoConfig                   *)
(*   job      the configuration a save is storing, Erase, or NoJob         *)
(*   outcome  what the save has reported to its caller, if it has          *)
(***************************************************************************)
CONSTANTS Config, NoConfig, NoJob, Erase

VARIABLES stored, job, outcome

vars == <<stored, job, outcome>>

Init == stored = NoConfig /\ job = NoJob /\ outcome = "none"

Begin ==
    /\ job = NoJob
    /\ job' \in Config \cup {Erase}
    /\ UNCHANGED <<stored, outcome>>

Install ==
    /\ job \in Config /\ outcome = "none"
    /\ stored' = job
    /\ UNCHANGED <<job, outcome>>

\* A save reports success only for what is stored.
ReportSaved ==
    /\ job \in Config /\ outcome = "none"
    /\ stored = job
    /\ outcome' = "saved"
    /\ UNCHANGED <<stored, job>>

ReportFailed ==
    /\ job \in Config /\ outcome = "none"
    /\ outcome' = "failed"
    /\ UNCHANGED <<stored, job>>

\* The caller takes the outcome; a factory reset goes on to erase.
Finish ==
    /\ outcome # "none"
    /\ outcome' = "none"
    /\ job' \in {NoJob, Erase}
    /\ UNCHANGED stored

\* A reset erases the store; a parameter reset goes on to save.
EraseAll ==
    /\ job = Erase
    /\ stored' = NoConfig
    /\ job' \in Config \cup {NoJob}
    /\ UNCHANGED outcome

\* Power is lost. A save is all or nothing; an interrupted erase promises
\* nothing, it may even uncover an older configuration.
PowerCut ==
    /\ job' = NoJob
    /\ outcome' = "none"
    /\ \/ stored' = stored
       \/ job \in Config /\ outcome = "none" /\ stored' = job
       \/ job = Erase /\ stored' \in Config \cup {NoConfig}

Next ==
    \/ Begin \/ Install \/ ReportSaved \/ ReportFailed
    \/ Finish \/ EraseAll \/ PowerCut

Spec == Init /\ [][Next]_vars
=============================================================================
