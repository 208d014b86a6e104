-------------------------------- MODULE Deploy --------------------------------
(***************************************************************************)
(* deploy_example.py: the steps of deploy(), any of which may raise, the   *)
(* remote commands of ssh_exec with the channel's window between them and  *)
(* the script, and repeated runs.  A file's content is the local file it   *)
(* came from and its version; a binary is the sources it was made of.      *)
(***************************************************************************)
EXTENDS Integers, FiniteSets

CONSTANTS
    LocalFiles,
    basename(_),        \* os.path.basename
    Window,             \* what a channel holds of output nobody has read
    Outputs,            \* how much a remote command may print
    MaxEdits, MaxRuns   \* bounds: edits of a file, runs of the script

ASSUME DeployAssumption ==
    /\ Window \in Nat /\ Outputs \subseteq Nat
    /\ MaxEdits \in Nat /\ MaxRuns \in Nat
    /\ "torn" \notin LocalFiles  \* what stands for half a file is no file's name

VARIABLES
    version,            \* of each local file
    changed,            \* local files edited or tried since they were last deployed
    step, files, todo, runs,    \* the script; todo: not yet uploaded
    cmd,                \* the remote command: [state, left, unread, ok]
    source,             \* REMOTE_SRC
    built, deployed     \* the binaries in REMOTE_BUILD and REMOTE_DEPLOY

vars == <<version, changed, step, files, todo, runs, cmd, source, built, deployed>>
scriptVars == <<files, todo, runs>>

Names   == {basename(f) : f \in LocalFiles}
Torn    == <<"torn", 0>>
Content == (LocalFiles \X (0 .. MaxEdits)) \cup {Torn}
Unusable == [n \in Names |-> Torn]      \* a binary half copied
NoCommand == [state |-> "none", left |-> 0, unread |-> 0, ok |-> TRUE]

Commands == {"cmake", "make", "cp", "stat"}
Between == {"idle", "done", "raised"}

-----------------------------------------------------------------------------
\* Everything is deployed as it is; of files with one name, one got there.
Init ==
    /\ version = [f \in LocalFiles |-> 0] /\ changed = {}
    /\ step = "idle" /\ files = {} /\ todo = {} /\ runs = 0
    /\ cmd = NoCommand
    /\ source \in [Names -> LocalFiles \X {0}]
    /\ \A n \in Names : basename(source[n][1]) = n
    /\ built = source /\ deployed = source

\* The developer edits a file between two runs.
Edit ==
    /\ step \in Between
    /\ \E f \in LocalFiles :
         /\ version[f] < MaxEdits
         /\ version' = [version EXCEPT ![f] = @ + 1]
         /\ changed' = changed \cup {f}
    /\ UNCHANGED <<step, scriptVars, cmd, source, built, deployed>>

\* The script is started with the files edited, or tried in vain, and perhaps more.
Start ==
    /\ step \in Between /\ runs < MaxRuns
    /\ \E fs \in SUBSET LocalFiles :
         /\ fs # {} /\ changed \subseteq fs
         /\ files' = fs /\ todo' = fs /\ changed' = fs
    /\ runs' = runs + 1
    /\ step' = "upload"
    /\ UNCHANGED <<version, cmd, source, built, deployed>>

\* client.connect() or open_sftp() raises.
ConnectFails ==
    /\ step = "upload" /\ todo = files
    /\ step' = "raised"
    /\ UNCHANGED <<version, changed, scriptVars, cmd, source, built, deployed>>

\* Mutant: the remote path is the local one.
PutUnderPath ==
    /\ step = "upload"
    /\ \E f \in todo :
         /\ todo' = todo \ {f}
         /\ source' = [n \in DOMAIN source \cup {f} |->
                         IF n = f THEN <<f, version[f]>> ELSE source[n]]
    /\ UNCHANGED <<version, changed, step, files, runs, cmd, built, deployed>>

\* sftp.put writes one file under its base name, or raises half-way.
Put ==
    /\ step = "upload"
    /\ \E f \in todo :
         /\ todo' = todo \ {f}
         /\ source' = [source EXCEPT ![basename(f)] = <<f, version[f]>>]
    /\ UNCHANGED <<version, changed, step, files, runs, cmd, built, deployed>>

PutFails ==
    /\ step = "upload"
    /\ \E f \in todo : source' = [source EXCEPT ![basename(f)] = Torn]
    /\ step' = "raised"
    /\ UNCHANGED <<version, changed, scriptVars, cmd, built, deployed>>

UploadDone ==
    /\ step = "upload" /\ todo = {}
    /\ step' = "cmake"
    /\ UNCHANGED <<version, changed, scriptVars, cmd, source, built, deployed>>

-----------------------------------------------------------------------------
(* ssh_exec *)

ExecCommand ==
    /\ step \in Commands /\ cmd.state = "none"
    /\ \E n \in Outputs :
         cmd' = [state |-> "running", left |-> n, unread |-> 0, ok |-> TRUE]
    /\ UNCHANGED <<version, changed, step, scriptVars, source, built, deployed>>

\* The command prints into the channel while its window has room.
Emit ==
    /\ cmd.state = "running" /\ cmd.left > 0 /\ cmd.unread < Window
    /\ cmd' = [cmd EXCEPT !.left = @ - 1, !.unread = @ + 1]
    /\ UNCHANGED <<version, changed, step, scriptVars, source, built, deployed>>

\* What a command has done when it ends; cp may fail in the middle.
Done(ok) ==
    CASE step = "make" /\ ok -> built' = source /\ UNCHANGED deployed
      [] step = "cp" /\ ok   -> deployed' = built /\ UNCHANGED built
      [] step = "cp" /\ ~ok  -> deployed' \in {deployed, Unusable} /\ UNCHANGED built
      [] OTHER               -> UNCHANGED <<built, deployed>>

\* The command ends by itself, well or not.
Exit ==
    /\ cmd.state = "running" /\ cmd.left = 0
    /\ \E ok \in BOOLEAN : Done(ok) /\ cmd' = [cmd EXCEPT !.state = "exited", !.ok = ok]
    /\ UNCHANGED <<version, changed, step, scriptVars, source>>

\* The connection is lost: recv_exit_status gives -1, whatever the command did.
Disconnect ==
    /\ cmd.state = "running"
    /\ \E ok \in BOOLEAN : Done(ok)
    /\ cmd' = [cmd EXCEPT !.state = "exited", !.ok = FALSE]
    /\ UNCHANGED <<version, changed, step, scriptVars, source>>

After(s) == CASE s = "cmake" -> "make" [] s = "make" -> "cp"
              [] s = "cp" -> "stat"    [] s = "stat" -> "done"

\* Mutant: the exit status is not looked at.
StatusIgnored ==
    /\ cmd.state = "exited" /\ cmd' = NoCommand
    /\ step' = After(step)
    /\ changed' = IF step' = "done" THEN changed \ files ELSE changed
    /\ UNCHANGED <<version, scriptVars, source, built, deployed>>

\* Mutant: cp follows cmake.
StatusSkipsMake ==
    /\ cmd.state = "exited" /\ cmd' = NoCommand
    /\ step' = IF cmd.ok THEN After(IF step = "cmake" THEN "make" ELSE step) ELSE "raised"
    /\ changed' = IF step' = "done" THEN changed \ files ELSE changed
    /\ UNCHANGED <<version, scriptVars, source, built, deployed>>

\* Mutant: the script waits for a channel with nothing unread.
ExitStatusDrained ==
    /\ cmd.state = "exited" /\ cmd.unread = 0 /\ cmd' = NoCommand
    /\ step' = IF cmd.ok THEN After(step) ELSE "raised"
    /\ changed' = IF step' = "done" THEN changed \ files ELSE changed
    /\ UNCHANGED <<version, scriptVars, source, built, deployed>>

\* recv_exit_status returns; ssh_exec reads the output or raises.
ExitStatus ==
    /\ cmd.state = "exited" /\ cmd' = NoCommand
    /\ step' = IF cmd.ok THEN After(step) ELSE "raised"
    /\ changed' = IF step' = "done" THEN changed \ files ELSE changed
    /\ UNCHANGED <<version, scriptVars, source, built, deployed>>

Script == Put \/ PutFails \/ UploadDone \/ ExecCommand \/ ExitStatus

Next == \/ Edit \/ Start \/ ConnectFails \/ Disconnect
        \/ Script \/ Emit \/ Exit

(* A started script goes on, and a remote command runs and ends when it    *)
(* can; nobody has to start the script, and no connection has to be lost.  *)
Fairness == WF_vars(Script) /\ WF_vars(Emit) /\ WF_vars(Exit)

Spec == Init /\ [][Next]_vars
FairSpec == Spec /\ Fairness

-----------------------------------------------------------------------------
(* Properties *)

Binary == [Names -> Content]

TypeOK ==
    /\ version \in [LocalFiles -> 0 .. MaxEdits] /\ changed \subseteq LocalFiles
    /\ step \in Between \cup Commands \cup {"upload"}
    /\ todo \subseteq files /\ files \subseteq LocalFiles /\ runs \in 0 .. MaxRuns
    /\ cmd \in [state : {"none", "running", "exited"}, left : Nat,
                unread : 0 .. Window, ok : BOOLEAN]
    /\ source \in Binary /\ built \in Binary /\ deployed \in Binary

(* A binary reaches the server only when it was built, in the same run,    *)
(* from every file of that run: an upload, cmake or make that fails keeps  *)
(* cp from running, also when an earlier run left sources or a binary      *)
(* behind; and none of its sources is half uploaded, by this run or by one *)
(* that failed, provided that the files of a failed run are given again.   *)
OnlyBuiltIsCopied ==
    [][deployed' \notin {deployed, Unusable} =>
         /\ step = "cp" /\ todo = {}
         /\ deployed' = source /\ \A n \in Names : source[n] # Torn]_vars

(* "Upload changed source files, build remotely, and deploy": when a run   *)
(* has finished the server has the present version of each file it was     *)
(* given, or of another one with the same base name that was given too,    *)
(* whichever earlier runs failed and where.                                *)
DoneIsDeployed ==
    step = "done" =>
      \A f \in files \ changed :
        LET d == deployed[basename(f)]
        IN  d[1] \in files /\ (d[1] \in changed \/ d[2] = version[d[1]])

(* "Execute a command over SSH and return stdout": ssh_exec comes back     *)
(* from every command that prints no more than the channel holds.  (From   *)
(* another one only the loss of the connection lets it come back.)         *)
CommandReturns ==
    cmd.state = "running" /\ cmd.left + cmd.unread <= Window
      ~> cmd.state = "none"
=============================================================================
