----------------------------- MODULE DeployProofs -----------------------------
(***************************************************************************)
(* Proofs about Deploy: the type invariant, OnlyBuiltIsCopied and          *)
(* DoneIsDeployed, for every set of files, every basename and every window.*)
(***************************************************************************)
EXTENDS Deploy, TLAPS

Running == Commands \cup {"upload"}

(* Where the script stands: what it was given stays "changed" until it is  *)
(* done, nothing is left to upload once commands run, a command belongs to *)
(* a step, and each binary is the one that the steps behind have made.     *)
Progress ==
    /\ step \in Running => changed = files
    /\ step \in Commands \cup {"done"} => todo = {}
    /\ step \notin Commands => cmd = NoCommand
    /\ step = "make" /\ cmd.state = "exited" /\ cmd.ok => built = source
    /\ step = "cp" => built = source
    /\ step = "cp" /\ cmd.state = "exited" /\ cmd.ok => deployed = source
    /\ step \in {"stat", "done"} => deployed = source

(* A half-written source belongs to a file whose upload is owed: still to  *)
(* be uploaded by this run, or to be given to the next one.                *)
TornIsOwed ==
    \A n \in Names : source[n] = Torn =>
      \E f \in changed : /\ basename(f) = n
                         /\ step \in Running \cup {"done"} => f \in todo

(* What was uploaded under a name is a file of the run, at the version it  *)
(* had; it can be edited again only when the run is over.                  *)
Uploaded ==
    step \in Running \cup {"done"} =>
      \A f \in files \ todo :
        LET s == source[basename(f)]
        IN  /\ s[1] \in files
            /\ s[2] = version[s[1]] \/ (step = "done" /\ s[1] \in changed)

IInv == TypeOK /\ Progress /\ TornIsOwed /\ Uploaded

-----------------------------------------------------------------------------

(* What a command leaves behind, as one alternative per case: only make    *)
(* writes the build directory, only cp the deploy directory.               *)
LEMMA DoneCases ==
    ASSUME NEW ok \in BOOLEAN, Done(ok)
    PROVE  \/ step = "make" /\ ok /\ built' = source /\ deployed' = deployed
           \/ step = "cp" /\ ok /\ deployed' = built /\ built' = built
           \/ step = "cp" /\ ~ok /\ deployed' \in {deployed, Unusable} /\ built' = built
           \/ /\ ~(step = "make" /\ ok) /\ step # "cp"
              /\ built' = built /\ deployed' = deployed
  BY DEF Done

(* The step after one that went well.                                      *)
LEMMA AfterCases ==
    /\ After("cmake") = "make" /\ After("make") = "cp"
    /\ After("cp") = "stat"    /\ After("stat") = "done"
  BY DEF After

(* A version fits in a content, and a half-copied binary is a binary.      *)
LEMMA Contents ==
    /\ \A f \in LocalFiles : basename(f) \in Names
    /\ \A f \in LocalFiles, v \in 0 .. MaxEdits : <<f, v>> \in Content /\ <<f, v>> # Torn
    /\ Torn \in Content /\ Unusable \in Binary
<1>1. \A f \in LocalFiles : basename(f) \in Names
  BY DEF Names
<1>2. \A f \in LocalFiles, v \in 0 .. MaxEdits : <<f, v>> \in Content
  BY DEF Content
<1>3. \A f \in LocalFiles, v \in 0 .. MaxEdits : <<f, v>> # Torn
  BY DeployAssumption DEF Torn
<1>4. Torn \in Content /\ Unusable \in Binary
  BY DEF Content, Unusable, Binary
<1> QED
  BY <1>1, <1>2, <1>3, <1>4

(* The first state: nothing is torn, nothing runs.                         *)
LEMMA InitIInv == Init => IInv
<1> SUFFICES ASSUME Init PROVE IInv
  OBVIOUS
<1>1. 0 \in 0 .. MaxEdits /\ 0 \in 0 .. MaxRuns /\ 0 \in 0 .. Window
  BY DeployAssumption
<1>2. source \in Binary
  BY <1>1 DEF Init, Binary, Content
<1>3. TypeOK
  BY <1>1, <1>2 DEF Init, TypeOK, Between, NoCommand
<1>4. \A n \in Names : source[n] # Torn
  <2> SUFFICES ASSUME NEW n \in Names PROVE source[n] # Torn
    OBVIOUS
  <2>1. source[n] \in LocalFiles \X {0}
    BY DEF Init
  <2>2. source[n] = <<source[n][1], 0>> /\ source[n][1] \in LocalFiles
    BY <2>1
  <2> QED
    BY <1>1, <2>2, Contents
<1> QED
  BY <1>3, <1>4 DEF Init, IInv, Progress, TornIsOwed, Uploaded, Running, Commands

(* Edit: only between runs; the file edited is owed from now on.           *)
LEMMA EditIInv == IInv /\ Edit => IInv'
<1> SUFFICES ASSUME IInv, Edit PROVE IInv'
  OBVIOUS
<1>0. PICK f \in LocalFiles :
        /\ version[f] < MaxEdits
        /\ version' = [version EXCEPT ![f] = @ + 1]
        /\ changed' = changed \cup {f}
  BY DEF Edit
<1>1. /\ step \in Between /\ step \notin Running /\ step \notin Commands
      /\ UNCHANGED <<step, files, todo, runs, cmd, source, built, deployed>>
  BY DEF Edit, Between, Running, Commands, scriptVars
<1>2. TypeOK'
  <2>1. version \in [LocalFiles -> 0 .. MaxEdits] /\ version[f] + 1 \in 0 .. MaxEdits
    BY <1>0, DeployAssumption DEF IInv, TypeOK
  <2>2. version' \in [LocalFiles -> 0 .. MaxEdits] /\ changed' \subseteq LocalFiles
    BY <1>0, <2>1 DEF IInv, TypeOK
  <2> QED
    BY <1>1, <2>2 DEF IInv, TypeOK, Binary
<1>3. Progress'
  BY <1>1 DEF IInv, Progress
<1>4. TornIsOwed'
  BY <1>0, <1>1 DEF IInv, TornIsOwed
<1>5. Uploaded'
  <2> SUFFICES ASSUME step = "done", NEW g \in files \ todo
               PROVE  /\ source[basename(g)][1] \in files
                      /\ \/ source[basename(g)][2] = version'[source[basename(g)][1]]
                         \/ source[basename(g)][1] \in changed'
    BY <1>1 DEF Uploaded
  <2>1. /\ source[basename(g)][1] \in files
        /\ \/ source[basename(g)][2] = version[source[basename(g)][1]]
           \/ source[basename(g)][1] \in changed
    BY DEF IInv, Uploaded
  <2>2. source[basename(g)][1] \in LocalFiles
    BY <2>1 DEF IInv, TypeOK
  <2>3. CASE source[basename(g)][1] = f
    BY <1>0, <2>1, <2>3
  <2>4. CASE source[basename(g)][1] # f
    BY <1>0, <2>1, <2>2, <2>4 DEF IInv, TypeOK
  <2> QED
    BY <2>3, <2>4
<1> QED
  BY <1>2, <1>3, <1>4, <1>5 DEF IInv

(* Start: every file owed is given again, and all of it is to be uploaded. *)
LEMMA StartIInv == IInv /\ Start => IInv'
<1> SUFFICES ASSUME IInv, Start PROVE IInv'
  OBVIOUS
<1>0. PICK fs \in SUBSET LocalFiles :
        /\ fs # {} /\ changed \subseteq fs
        /\ files' = fs /\ todo' = fs /\ changed' = fs
  BY DEF Start
<1>1. /\ step \in Between /\ step \notin Commands /\ step' = "upload" /\ runs < MaxRuns
      /\ runs' = runs + 1
      /\ UNCHANGED <<version, cmd, source, built, deployed>>
  BY DEF Start, Between, Commands
<1>2. TypeOK'
  <2>1. runs' \in 0 .. MaxRuns
    BY <1>1, DeployAssumption DEF IInv, TypeOK
  <2> QED
    BY <1>0, <1>1, <2>1 DEF IInv, TypeOK, Binary
<1>3. Progress'
  BY <1>0, <1>1 DEF IInv, Progress, Running, Commands
<1>4. TornIsOwed'
  BY <1>0, <1>1 DEF IInv, TornIsOwed
<1>5. Uploaded'
  BY <1>0, <1>1 DEF Uploaded
<1> QED
  BY <1>2, <1>3, <1>4, <1>5 DEF IInv

(* ConnectFails: the run is over, and what it was given is owed.           *)
LEMMA ConnectFailsIInv == IInv /\ ConnectFails => IInv'
<1> SUFFICES ASSUME IInv, ConnectFails PROVE IInv'
  OBVIOUS
<1>1. /\ step = "upload" /\ step' = "raised"
      /\ UNCHANGED <<version, changed, files, todo, runs, cmd, source, built, deployed>>
  BY DEF ConnectFails, scriptVars
<1>2. TypeOK'
  BY <1>1 DEF IInv, TypeOK, Between, Binary
<1>3. Progress'
  BY <1>1 DEF IInv, Progress, Running, Commands
<1>4. TornIsOwed' /\ Uploaded'
  BY <1>1 DEF IInv, TornIsOwed, Uploaded, Running, Commands
<1> QED
  BY <1>2, <1>3, <1>4 DEF IInv

(* Put: the name written is the file's; another torn name is still owed.   *)
LEMMA PutIInv == IInv /\ Put => IInv'
<1> SUFFICES ASSUME IInv, Put PROVE IInv'
  OBVIOUS
<1>0. PICK f \in todo :
        /\ todo' = todo \ {f}
        /\ source' = [source EXCEPT ![basename(f)] = <<f, version[f]>>]
  BY DEF Put
<1>1. /\ step = "upload"
      /\ UNCHANGED <<version, changed, step, files, runs, cmd, built, deployed>>
  BY DEF Put
<1>2. /\ f \in files /\ f \in LocalFiles /\ basename(f) \in Names
      /\ version[f] \in 0 .. MaxEdits /\ source \in [Names -> Content]
      /\ <<f, version[f]>> \in Content /\ <<f, version[f]>> # Torn
  BY Contents DEF IInv, TypeOK, Binary
<1>3. TypeOK'
  <2>1. source' \in [Names -> Content]
    BY <1>0, <1>2
  <2> QED
    BY <1>0, <1>1, <2>1 DEF IInv, TypeOK, Binary
<1>4. Progress'
  BY <1>1 DEF IInv, Progress, Running, Commands
<1>5. TornIsOwed'
  <2> SUFFICES ASSUME NEW n \in Names, source'[n] = Torn
               PROVE  \E g \in changed : basename(g) = n /\ g \in todo'
    BY <1>1 DEF TornIsOwed
  <2>1. n # basename(f)
    BY <1>0, <1>2
  <2>2. source[n] = Torn
    BY <1>0, <1>2, <2>1
  <2>3. PICK g \in changed : basename(g) = n /\ g \in todo
    BY <1>1, <2>2 DEF IInv, TornIsOwed, Running
  <2> QED
    BY <1>0, <2>1, <2>3
<1>6. Uploaded'
  <2> SUFFICES ASSUME NEW g \in files \ todo'
               PROVE  /\ source'[basename(g)][1] \in files
                      /\ source'[basename(g)][2] = version[source'[basename(g)][1]]
    BY <1>1 DEF Uploaded
  <2>1. g \in LocalFiles /\ basename(g) \in Names
    BY Contents DEF IInv, TypeOK
  <2>2. CASE basename(g) = basename(f)
    <3>1. source'[basename(g)] = <<f, version[f]>>
      BY <1>0, <1>2, <2>2
    <3> QED
      BY <1>2, <3>1
  <2>3. CASE basename(g) # basename(f)
    <3>1. source'[basename(g)] = source[basename(g)] /\ g \in files \ todo
      BY <1>0, <1>2, <2>1, <2>3
    <3> QED
      BY <1>1, <3>1 DEF IInv, Uploaded, Running
  <2> QED
    BY <2>2, <2>3
<1> QED
  BY <1>3, <1>4, <1>5, <1>6 DEF IInv

(* PutFails: the torn name is that of a file still to be uploaded.         *)
LEMMA PutFailsIInv == IInv /\ PutFails => IInv'
<1> SUFFICES ASSUME IInv, PutFails PROVE IInv'
  OBVIOUS
<1>0. PICK f \in todo : source' = [source EXCEPT ![basename(f)] = Torn]
  BY DEF PutFails
<1>1. /\ step = "upload" /\ step' = "raised"
      /\ UNCHANGED <<version, changed, files, todo, runs, cmd, built, deployed>>
  BY DEF PutFails, scriptVars
<1>2. /\ f \in changed /\ f \in LocalFiles /\ basename(f) \in Names
      /\ source \in [Names -> Content]
  BY <1>1, Contents DEF IInv, TypeOK, Binary, Progress, Running
<1>3. TypeOK'
  <2>1. source' \in [Names -> Content]
    BY <1>0, <1>2, Contents
  <2> QED
    BY <1>1, <2>1 DEF IInv, TypeOK, Between, Binary
<1>4. Progress'
  BY <1>1 DEF IInv, Progress, Running, Commands
<1>5. TornIsOwed'
  <2> SUFFICES ASSUME NEW n \in Names, source'[n] = Torn
               PROVE  \E g \in changed : basename(g) = n
    BY <1>1 DEF TornIsOwed, Running, Commands
  <2>1. CASE n = basename(f)
    BY <1>2, <2>1
  <2>2. CASE n # basename(f)
    <3>1. source[n] = Torn
      BY <1>0, <1>2, <2>2
    <3> QED
      BY <3>1 DEF IInv, TornIsOwed
  <2> QED
    BY <2>1, <2>2
<1>6. Uploaded'
  BY <1>1 DEF Uploaded, Running, Commands
<1> QED
  BY <1>3, <1>4, <1>5, <1>6 DEF IInv

(* UploadDone: nothing is owed to the upload any more.                     *)
LEMMA UploadDoneIInv == IInv /\ UploadDone => IInv'
<1> SUFFICES ASSUME IInv, UploadDone PROVE IInv'
  OBVIOUS
<1>1. /\ step = "upload" /\ todo = {} /\ step' = "cmake"
      /\ UNCHANGED <<version, changed, files, todo, runs, cmd, source, built, deployed>>
  BY DEF UploadDone, scriptVars
<1>2. TypeOK'
  BY <1>1 DEF IInv, TypeOK, Commands, Binary
<1>3. Progress'
  BY <1>1 DEF IInv, Progress, Running, Commands
<1>4. TornIsOwed' /\ Uploaded'
  BY <1>1 DEF IInv, TornIsOwed, Uploaded, Running, Commands
<1> QED
  BY <1>2, <1>3, <1>4 DEF IInv

(* ExecCommand and Emit: a command starts and prints, and makes nothing.   *)
LEMMA ExecIInv == IInv /\ (ExecCommand \/ Emit) => IInv'
<1> SUFFICES ASSUME IInv, ExecCommand \/ Emit PROVE IInv'
  OBVIOUS
<1>1. UNCHANGED <<version, changed, step, files, todo, runs, source, built, deployed>>
  BY DEF ExecCommand, Emit, scriptVars
<1>2. /\ cmd' \in [state : {"none", "running", "exited"}, left : Nat,
                   unread : 0 .. Window, ok : BOOLEAN]
      /\ cmd'.state = "running" /\ step \in Commands
  <2>1. CASE ExecCommand
    BY <2>1, DeployAssumption DEF ExecCommand
  <2>2. CASE Emit
    <3>1. /\ cmd \in [state : {"none", "running", "exited"}, left : Nat,
                      unread : 0 .. Window, ok : BOOLEAN]
          /\ cmd.state = "running" /\ cmd.left > 0 /\ cmd.unread < Window
          /\ cmd' = [cmd EXCEPT !.left = @ - 1, !.unread = @ + 1]
      BY <2>2 DEF Emit, IInv, TypeOK
    <3>2. cmd.left - 1 \in Nat /\ cmd.unread + 1 \in 0 .. Window
      BY <3>1, DeployAssumption
    <3>3. step \in Commands
      BY <3>1 DEF IInv, Progress, NoCommand
    <3> QED
      BY <3>1, <3>2, <3>3
  <2> QED
    BY <2>1, <2>2
<1>3. TypeOK'
  BY <1>1, <1>2 DEF IInv, TypeOK, Binary
<1>4. Progress'
  BY <1>1, <1>2 DEF IInv, Progress
<1>5. TornIsOwed' /\ Uploaded'
  BY <1>1 DEF IInv, TornIsOwed, Uploaded
<1> QED
  BY <1>3, <1>4, <1>5 DEF IInv

(* Exit and Disconnect: the command has made what its step makes when it   *)
(* is reported to have gone well, and perhaps also when it is not.         *)
LEMMA EndIInv == IInv /\ (Exit \/ Disconnect) => IInv'
<1> SUFFICES ASSUME IInv, Exit \/ Disconnect PROVE IInv'
  OBVIOUS
<1>0. PICK ok \in BOOLEAN :
        /\ Done(ok)
        /\ cmd' = [cmd EXCEPT !.state = "exited", !.ok = ok]
             \/ cmd' = [cmd EXCEPT !.state = "exited", !.ok = FALSE]
  BY DEF Exit, Disconnect
<1>1. /\ cmd.state = "running"
      /\ UNCHANGED <<version, changed, step, files, todo, runs, source>>
  BY DEF Exit, Disconnect, scriptVars
<1>2. /\ cmd' \in [state : {"none", "running", "exited"}, left : Nat,
                   unread : 0 .. Window, ok : BOOLEAN]
      /\ cmd'.state = "exited" /\ (cmd'.ok => ok)
  BY <1>0 DEF IInv, TypeOK
<1>3. step \in Commands
  BY <1>1 DEF IInv, Progress, NoCommand
<1>4. \/ step = "make" /\ ok /\ built' = source /\ deployed' = deployed
      \/ step = "cp" /\ ok /\ deployed' = built /\ built' = built
      \/ step = "cp" /\ ~ok /\ deployed' \in {deployed, Unusable} /\ built' = built
      \/ /\ ~(step = "make" /\ ok) /\ step # "cp"
         /\ built' = built /\ deployed' = deployed
  BY <1>0, DoneCases
<1>5. TypeOK'
  <2>1. built' \in Binary /\ deployed' \in Binary
    BY <1>4, Contents DEF IInv, TypeOK
  <2> QED
    BY <1>1, <1>2, <2>1 DEF IInv, TypeOK, Binary
<1>6. Progress'
  BY <1>1, <1>2, <1>3, <1>4 DEF IInv, Progress, Commands
<1>7. TornIsOwed' /\ Uploaded'
  BY <1>1 DEF IInv, TornIsOwed, Uploaded
<1> QED
  BY <1>5, <1>6, <1>7 DEF IInv

(* ExitStatus: the next step when the command went well, else the end.     *)
LEMMA ExitStatusIInv == IInv /\ ExitStatus => IInv'
<1> SUFFICES ASSUME IInv, ExitStatus PROVE IInv'
  OBVIOUS
<1>1. /\ cmd.state = "exited" /\ cmd' = NoCommand
      /\ step' = IF cmd.ok THEN After(step) ELSE "raised"
      /\ changed' = IF step' = "done" THEN changed \ files ELSE changed
      /\ UNCHANGED <<version, files, todo, runs, source, built, deployed>>
  BY DEF ExitStatus, scriptVars
<1>2. step \in Commands /\ todo = {} /\ changed = files
  BY <1>1 DEF IInv, Progress, NoCommand, Running
<1>3. \/ step = "cmake" /\ cmd.ok /\ step' = "make" /\ changed' = changed
      \/ step = "make" /\ cmd.ok /\ step' = "cp" /\ changed' = changed
      \/ step = "cp" /\ cmd.ok /\ step' = "stat" /\ changed' = changed
      \/ step = "stat" /\ cmd.ok /\ step' = "done" /\ changed' = {}
      \/ ~cmd.ok /\ step' = "raised" /\ changed' = changed
  BY <1>1, <1>2, AfterCases DEF Commands
<1>4. \A n \in Names : source[n] # Torn
  BY <1>2 DEF IInv, TornIsOwed, Running
<1>5. TypeOK'
  <2>1. NoCommand \in [state : {"none", "running", "exited"}, left : Nat,
                       unread : 0 .. Window, ok : BOOLEAN]
    BY DeployAssumption DEF NoCommand
  <2>2. step' \in Between \cup Commands \cup {"upload"} /\ changed' \subseteq LocalFiles
    BY <1>3 DEF Between, Commands, IInv, TypeOK
  <2> QED
    BY <1>1, <2>1, <2>2 DEF IInv, TypeOK, Binary
<1>6. Progress'
  BY <1>1, <1>2, <1>3 DEF IInv, Progress, Commands, Running, NoCommand
<1>7. TornIsOwed'
  BY <1>1, <1>4 DEF TornIsOwed
<1>8. Uploaded'
  <2> SUFFICES ASSUME NEW f \in files
               PROVE  /\ source[basename(f)][1] \in files
                      /\ source[basename(f)][2] = version[source[basename(f)][1]]
    BY <1>1 DEF Uploaded
  <2> QED
    BY <1>2 DEF IInv, Uploaded, Running, Commands
<1> QED
  BY <1>5, <1>6, <1>7, <1>8 DEF IInv

(* Every step of the script, the server or the developer keeps it.         *)
LEMMA NextIInv == IInv /\ [Next]_vars => IInv'
<1> SUFFICES ASSUME IInv, [Next]_vars PROVE IInv'
  OBVIOUS
<1>1. CASE UNCHANGED vars
  BY <1>1 DEF vars, scriptVars, IInv, TypeOK, Binary, Progress, TornIsOwed, Uploaded
<1> QED
  BY <1>1, EditIInv, StartIInv, ConnectFailsIInv, PutIInv, PutFailsIInv,
     UploadDoneIInv, ExecIInv, EndIInv, ExitStatusIInv
  DEF Next, Script

(* The invariant of deploy() holds in every state.                         *)
THEOREM Invariant == Spec => []IInv
  BY InitIInv, NextIInv, PTL DEF Spec

(* The types of Deploy: only base names appear on the server, and what a   *)
(* channel holds never exceeds its window.                                 *)
THEOREM TypeCorrect == Spec => []TypeOK
  BY Invariant, PTL DEF IInv

(* A finished run of deploy() leaves on the server the present version of  *)
(* every file it was given, or of one that shares its base name.           *)
THEOREM DoneCorrect == Spec => []DoneIsDeployed
<1>1. IInv => DoneIsDeployed
  <2> SUFFICES ASSUME IInv, step = "done", NEW f \in files \ changed
               PROVE  /\ deployed[basename(f)][1] \in files
                      /\ \/ deployed[basename(f)][1] \in changed
                         \/ deployed[basename(f)][2] = version[deployed[basename(f)][1]]
    BY DEF DoneIsDeployed
  <2>1. deployed = source /\ todo = {}
    BY DEF IInv, Progress
  <2> QED
    BY <2>1 DEF IInv, Uploaded
<1> QED
  BY <1>1, Invariant, PTL

(* A binary reaches the server only from cp, of a build of every file of   *)
(* this run, none of them half uploaded.                                   *)
THEOREM CopyCorrect == Spec => OnlyBuiltIsCopied
<1>1. IInv /\ [Next]_vars =>
        [deployed' \notin {deployed, Unusable} =>
           /\ step = "cp" /\ todo = {}
           /\ deployed' = source /\ \A n \in Names : source[n] # Torn]_vars
  <2> SUFFICES ASSUME IInv, [Next]_vars, deployed' \notin {deployed, Unusable}
               PROVE  /\ step = "cp" /\ todo = {}
                      /\ deployed' = source /\ \A n \in Names : source[n] # Torn
    OBVIOUS
  <2>1. PICK ok \in BOOLEAN : Done(ok)
    BY DEF Next, Script, Edit, Start, ConnectFails, Disconnect, Put, PutFails, UploadDone,
           ExecCommand, ExitStatus, Emit, Exit, vars
  <2>2. step = "cp" /\ deployed' = built
    BY <2>1, DoneCases
  <2>3. todo = {} /\ built = source
    BY <2>2 DEF IInv, Progress, Commands
  <2>4. \A n \in Names : source[n] # Torn
    BY <2>2, <2>3 DEF IInv, TornIsOwed, Running, Commands
  <2> QED
    BY <2>2, <2>3, <2>4
<1> QED
  BY <1>1, Invariant, PTL DEF Spec, OnlyBuiltIsCopied
=============================================================================
