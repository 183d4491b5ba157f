----------------------------- MODULE UserStoreMC -----------------------------
(***************************************************************************)
(* The store in two worlds, one at a time: machines that lose power, whose *)
(* directories can be fsync'd, and machines whose process is killed, where *)
(* the fsync of the directory may also fail.  "world" says which one runs. *)
(***************************************************************************)
EXTENDS UserStore

VARIABLES world, kmode, klock, kpc, kop, kcand, krecords, khandle, ktmp, kfile, kdurable, kpromised

Kill == INSTANCE UserStore WITH
          Crashes <- {"kill"}, DirSyncMayFail <- TRUE,
          mode <- kmode, lock <- klock, pc <- kpc, op <- kop, cand <- kcand, records <- krecords,
          handle <- khandle, tmp <- ktmp, file <- kfile, durable <- kdurable, promised <- kpromised

killVars == <<kmode, klock, kpc, kop, kcand, krecords, khandle, ktmp, kfile, kdurable, kpromised>>

WorldsInit == world \in {"power", "kill"} /\ Init /\ Kill!Init

WorldsNext ==
    \/ world = "power" /\ Next /\ UNCHANGED <<world, killVars>>
    \/ world = "kill" /\ Kill!Next /\ UNCHANGED <<world, vars>>

WorldsSpec == WorldsInit /\ [][WorldsNext]_<<world, vars, killVars>> /\ Fairness

\* PromiseKept of UserStore: what the admin was told survives a kill, whatever the fsync of the
\* directory did.
PromiseSurvivesKill == Kill!PromiseKept
=============================================================================
