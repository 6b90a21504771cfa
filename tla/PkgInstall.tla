----------------------------- MODULE PkgInstall -----------------------------
(***************************************************************************)
(* pkginstall of the daemon (itemz-daemon/source/utils.cpp), called by the *)
(* IPC handler that updates the app and, without a lock, by every FTP      *)
(* client that asks to install /user/app/temp.pkg.  It starts two services *)
(* of the system once, tracked by flags that are tested and set without a  *)
(* lock, registers a task, uninstalling what is in the way, and waits for  *)
(* the task.                                                               *)
(*                                                                         *)
(* The packages are of one title.  The BGFT service is a pointer to the    *)
(* heap it was given; it refuses a second start, and tasks fail.  A heap   *)
(* is named after the thread that allocated it.                            *)
(***************************************************************************)
CONSTANTS
  Installers,    \* threads that install
  NoHeap

ASSUME InstallersAssumption == NoHeap \notin Installers

VARIABLES
  utilFlag, bgftFlag,  \* s_app_inst_util_initialized, s_bgft_initialized
  utilUp,              \* AppInstUtil is started
  paramsHeap,          \* s_bgft_init_params.heap
  bgftHeap,            \* the heap the BGFT service has
  freed,               \* heaps that were freed
  present,             \* the title is installed
  task,                \* of each thread
  instPc,
  overlap              \* history: two threads were in bgft_init at a time

instVars == <<utilFlag, bgftFlag, utilUp, paramsHeap, bgftHeap, freed, present, task, instPc,
              overlap>>

InstPc == {"idle", "util", "utilInit", "bgft", "alloc", "service", "register", "uninstall",
           "start", "progress"}

InstTypeOK ==
  /\ utilFlag \in BOOLEAN /\ bgftFlag \in BOOLEAN /\ utilUp \in BOOLEAN
  /\ paramsHeap \in Installers \cup {NoHeap} /\ bgftHeap \in Installers \cup {NoHeap}
  /\ freed \subseteq Installers /\ present \in BOOLEAN
  /\ task \in [Installers -> {"none", "registered", "running", "failed", "done"}]
  /\ instPc \in [Installers -> InstPc]
  /\ overlap \in BOOLEAN

InstInit ==
  /\ utilFlag = FALSE /\ bgftFlag = FALSE /\ utilUp = FALSE
  /\ paramsHeap = NoHeap /\ bgftHeap = NoHeap /\ freed = {} /\ present = TRUE
  /\ task = [t \in Installers |-> "none"] /\ instPc = [t \in Installers |-> "idle"]
  /\ overlap = FALSE

Goto(t, pc) == instPc' = [instPc EXCEPT ![t] = pc]

-----------------------------------------------------------------------------
(* Slips a change to the code could make, for the mutation runs *)

\* bgft_fini after every call, as the app does and a comment announces.
CleanUp_fini ==
  IF bgftFlag
  THEN /\ freed' = freed \cup ({paramsHeap} \ {NoHeap})
       /\ bgftHeap' = NoHeap /\ paramsHeap' = NoHeap /\ bgftFlag' = FALSE
  ELSE UNCHANGED <<freed, bgftHeap, paramsHeap, bgftFlag>>

\* The task is registered again without uninstalling what it clashes with.
MakeRoom_forgets == UNCHANGED present

-----------------------------------------------------------------------------
InstallBegins(t) ==
  /\ instPc[t] = "idle"
  /\ Goto(t, "util")
  /\ task' = [task EXCEPT ![t] = "none"]
  /\ UNCHANGED <<utilFlag, bgftFlag, utilUp, paramsHeap, bgftHeap, freed, present, overlap>>

\* app_inst_util_init
TestUtil(t) ==
  /\ instPc[t] = "util"
  /\ Goto(t, IF utilFlag THEN "bgft" ELSE "utilInit")
  /\ UNCHANGED <<utilFlag, bgftFlag, utilUp, paramsHeap, bgftHeap, freed, present, task, overlap>>

StartUtil(t) ==
  /\ instPc[t] = "utilInit"
  /\ \/ ~utilUp /\ utilUp' = TRUE /\ utilFlag' = TRUE /\ Goto(t, "bgft")
     \/ utilFlag' = FALSE /\ Goto(t, "idle") /\ UNCHANGED utilUp
  /\ UNCHANGED <<bgftFlag, paramsHeap, bgftHeap, freed, present, task, overlap>>

\* bgft_init
InBgftInit == {t \in Installers : instPc[t] \in {"alloc", "service"}}

TestBgft(t) ==
  /\ instPc[t] = "bgft"
  /\ Goto(t, IF bgftFlag THEN "register" ELSE "alloc")
  /\ overlap' = (overlap \/ (~bgftFlag /\ InBgftInit # {}))
  /\ UNCHANGED <<utilFlag, bgftFlag, utilUp, paramsHeap, bgftHeap, freed, present, task>>

\* The parameters are cleared and get a new heap, or there is no memory.
AllocHeap(t) ==
  /\ instPc[t] = "alloc"
  /\ \/ paramsHeap' = t /\ freed' = freed \ {t} /\ Goto(t, "service") /\ UNCHANGED bgftFlag
     \/ paramsHeap' = NoHeap /\ bgftFlag' = FALSE /\ Goto(t, "idle") /\ UNCHANGED freed
  /\ UNCHANGED <<utilFlag, utilUp, bgftHeap, present, task, overlap>>

\* On failure the heap that is in the parameters now is freed, and they are
\* cleared.
StartBgft(t) ==
  /\ instPc[t] = "service"
  /\ \/ /\ bgftHeap = NoHeap /\ bgftHeap' = paramsHeap
        /\ bgftFlag' = TRUE /\ Goto(t, "register") /\ UNCHANGED <<paramsHeap, freed>>
     \/ /\ freed' = freed \cup ({paramsHeap} \ {NoHeap}) /\ paramsHeap' = NoHeap
        /\ bgftFlag' = FALSE /\ Goto(t, "idle") /\ UNCHANGED bgftHeap
  /\ UNCHANGED <<utilFlag, utilUp, present, task, overlap>>

Started == UNCHANGED <<freed, bgftHeap, paramsHeap, bgftFlag>>

\* The end of pkginstall leaves the services as they are.
CleanUp == Started

\* The title id is read and the task registered; the service says if the title
\* is installed already, and refuses for other reasons.
RegisterTask(t) ==
  /\ instPc[t] = "register"
  /\ \/ present /\ Goto(t, "uninstall") /\ Started /\ UNCHANGED task
     \/ ~present /\ Goto(t, "start") /\ Started /\ task' = [task EXCEPT ![t] = "registered"]
     \/ Goto(t, "idle") /\ CleanUp /\ UNCHANGED task
  /\ UNCHANGED <<utilFlag, utilUp, present, overlap>>

MakeRoom == present' = FALSE

\* sceAppInstUtilAppUnInstall, and goto retry.
UninstallTitle(t) ==
  /\ instPc[t] = "uninstall"
  /\ \/ Goto(t, "register") /\ MakeRoom /\ Started
     \/ Goto(t, "idle") /\ UNCHANGED present /\ CleanUp
  /\ UNCHANGED <<utilFlag, utilUp, task, overlap>>

StartTask(t) ==
  /\ instPc[t] = "start"
  /\ \/ Goto(t, "progress") /\ task' = [task EXCEPT ![t] = "running"] /\ Started
     \/ Goto(t, "idle") /\ CleanUp /\ UNCHANGED task
  /\ UNCHANGED <<utilFlag, utilUp, present, overlap>>

\* The loop ends at 99 per cent or when there is no progress to get.  The error
\* of a task is not looked at: the thread goes on asking for one that failed.
WaitForTask(t) ==
  /\ instPc[t] = "progress" /\ task[t] = "done"
  /\ Goto(t, "idle") /\ CleanUp
  /\ UNCHANGED <<utilFlag, utilUp, present, task, overlap>>

NoProgress(t) ==
  /\ instPc[t] = "progress"
  /\ Goto(t, "idle") /\ CleanUp
  /\ UNCHANGED <<utilFlag, utilUp, present, task, overlap>>

\* The service works on a task.
TaskEnds(t) ==
  /\ task[t] = "running"
  /\ \/ task' = [task EXCEPT ![t] = "done"] /\ present' = TRUE
     \/ task' = [task EXCEPT ![t] = "failed"] /\ UNCHANGED present
  /\ UNCHANGED <<utilFlag, bgftFlag, utilUp, paramsHeap, bgftHeap, freed, instPc, overlap>>

InstallStep(t) ==
  \/ TestUtil(t) \/ StartUtil(t) \/ TestBgft(t) \/ AllocHeap(t) \/ StartBgft(t)
  \/ RegisterTask(t) \/ UninstallTitle(t) \/ StartTask(t) \/ WaitForTask(t)

InstNext == \E t \in Installers : InstallBegins(t) \/ InstallStep(t) \/ NoProgress(t) \/ TaskEnds(t)

InstSpec == InstInit /\ [][InstNext]_instVars

\* The threads run, and the service ends its tasks.
InstFairSpec ==
  InstSpec /\ \A t \in Installers : WF_instVars(InstallStep(t)) /\ WF_instVars(TaskEnds(t))

-----------------------------------------------------------------------------
(* Properties *)

\* A thread that works with a task has a service to ask, with a heap that was
\* not freed, although no call ends what the calls share, and a failing start
\* frees a heap: unless two threads were in bgft_init at a time, which test the
\* flag before either sets it, so that one frees the heap the other handed over.
ServiceKept ==
  \A t \in Installers :
    instPc[t] \in {"register", "uninstall", "start", "progress"} =>
      overlap \/ (bgftHeap # NoHeap /\ bgftHeap \notin freed)

\* A call ends, although it registers again each time the title was in the way,
\* and another thread may install it meanwhile: unless others go on calling for
\* ever, or the task fails, whose progress it asks for for ever then (with
\* ipc_mutex, when IPC is the caller).
InstallsEnd ==
  \A t \in Installers :
    (\A u \in Installers \ {t} : <>[](instPc[u] # "util"))
      => (instPc[t] # "idle" ~> instPc[t] = "idle" \/ task[t] = "failed")
=============================================================================
