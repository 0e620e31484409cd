------------------------------ MODULE GitHook -------------------------------
(***************************************************************************)
(* hooks install and hooks uninstall, chaffra-autofix/src/hooks.rs, run by *)
(* several processes next to a pre-commit hook of the user's. Each reads   *)
(* the file, decides, empties it, fills it from the start and, to install, *)
(* makes it executable; each of these may fail, the filling half way, and  *)
(* the other processes go on between any two. A hook is a sequence of      *)
(* pieces: lines of the user, line ends, this version's script, and the    *)
(* script of another version, which bears the marker but is not the same   *)
(* text.                                                                   *)
(***************************************************************************)
EXTENDS Naturals, FiniteSets, Sequences, SequencesExt

CONSTANTS Installers,  \* processes
          UserLines,   \* lines the user may have in a hook
          UserHooks,   \* what the user may write: such lines, and line ends
          Absent,
          MaxPieces    \* bound: commands start while the hook is no longer than this

Own == {"nl", "script", "old script"}  \* the pieces that are no lines of the user

HooksAssumption ==
    /\ MaxPieces \in Nat
    /\ UserLines \cap Own = {}
    /\ UserHooks \subseteq Seq(UserLines \cup {"nl"})
    /\ Absent \notin [text : Seq(UserLines \cup Own), exec : BOOLEAN]
ASSUME HooksAssumption

VARIABLES hook,      \* [text, exec] or Absent
          job,       \* what each process is doing
          users,     \* history: what the user last wrote
          spoiled    \* history: the file was filled half way or with two texts at
                     \* once, or a command set out from what another had emptied

hookVars == <<hook, job, users, spoiled>>

NoJob == [step |-> "idle", op |-> "none", read |-> <<>>, result |-> "none"]

HasMarker(text) == Contains(text, "script") \/ Contains(text, "old script")

\* Where the user's lines stand, and the pieces that are not the script.
Lines(text) == {i \in DOMAIN text : text[i] \notin Own}
Others(text) == {i \in DOMAIN text : text[i] # "script"}
OthersBefore(text, i) == {j \in Others(text) : j < i}

\* str::replace of the script by nothing.
Without_script(text) ==
    [k \in 1..Cardinality(Others(text)) |->
        text[CHOOSE i \in Others(text) : Cardinality(OthersBefore(text, i)) = k - 1]]

\* str::trim and trim_end, as far as line ends go; the script ends in a line end of its own.
trim_end(text) ==
    LET last == {i \in DOMAIN text : text[i] # "nl"} IN
    IF last = {} THEN <<>> ELSE SubSeq(text, 1, CHOOSE i \in last : \A j \in last : j <= i)
trim(text) == Reverse(trim_end(Reverse(trim_end(text))))

Combined(existing) == existing \o <<"nl", "script">>
Cleaned(text) == trim_end(Without_script(text))

Done(p, result) == [job EXCEPT ![p] = [NoJob EXCEPT !.result = result]]

\* The user writes a hook of their own, when no command is running.
UserWrites ==
    /\ \A p \in Installers : job[p].step = "idle"
    /\ hook # Absent => ~HasMarker(hook.text)
    /\ \E text \in UserHooks, exec \in BOOLEAN :
          /\ hook' = [text |-> text, exec |-> exec]
          /\ users' = text
    /\ spoiled' = FALSE
    /\ UNCHANGED job

\* Another version of chaffra installed its script here.
OtherVersion ==
    /\ \A p \in Installers : job[p].step = "idle"
    /\ hook = Absent
    /\ hook' = [text |-> <<"old script">>, exec |-> TRUE]
    /\ users' = <<>>
    /\ spoiled' = FALSE
    /\ UNCHANGED job

\* fs::write empties the file when it opens it: who reads it before the text
\* is there finds nothing.
Truncated == hook # Absent /\ hook.text = <<>> /\ \E q \in Installers : job[q].step = "fill"
GoesOn(p) == job'[p].step = "write"

\* Mutant: a marker does not keep install from appending again.
Read_Again(p, op) ==
    /\ job[p].step = "idle" /\ hook # Absent
    /\ job' = [job EXCEPT ![p] = [step |-> "write", op |-> op, read |-> hook.text, result |-> "append"]]
    /\ spoiled' = (spoiled \/ Truncated)
    /\ UNCHANGED <<hook, users>>

\* The first part of both commands: look at the file. It may be gone, or not readable.
Read(p, op) ==
    /\ job[p].step = "idle"
    /\ hook # Absent => Len(hook.text) <= MaxPieces
    /\ \/ job' = Done(p, "error")
       \/ hook = Absent /\ job' = IF op = "install"
             THEN [job EXCEPT ![p] = [step |-> "write", op |-> op, read |-> <<>>, result |-> "fresh"]]
             ELSE Done(p, "NotInstalled")
       \/ /\ hook # Absent
          /\ job' = IF HasMarker(hook.text) = (op = "install")
                    THEN Done(p, IF op = "install" THEN "AlreadyInstalled" ELSE "NotInstalled")
                    ELSE [job EXCEPT ![p] = [step |-> "write", op |-> op, read |-> hook.text, result |-> "append"]]
    /\ spoiled' = (spoiled \/ (Truncated /\ GoesOn(p)))
    /\ UNCHANGED <<hook, users>>

\* fs::write keeps the mode of a file that exists and creates one that is not executable.
Written(text) == [text |-> text, exec |-> hook # Absent /\ hook.exec]

\* Install writes what it read with its script after it, or the script alone;
\* uninstall what is left without the script. A file that is nothing but the
\* script is removed instead.
NewText(p) ==
    IF job[p].op = "uninstall" THEN Cleaned(job[p].read)
    ELSE IF job[p].result = "fresh" THEN <<"script">> ELSE Combined(job[p].read)
Pure(p) == job[p].op = "uninstall" /\ trim(job[p].read) = <<"script">>

\* One text written from the start of a file that holds another: what is longer
\* shows, and a piece that is cut through is lost.
Overlaid(new, old) ==
    IF IsPrefix(new, old) THEN {old}
    ELSE IF IsPrefix(old, new) THEN {new}
    ELSE {new \o SubSeq(old, k, Len(old)) : k \in 2..(Len(old) + 1)}

\* fs::write, first half: the file is opened, created where it is gone, and emptied.
fs_write_open(p) ==
    /\ job[p].step = "write" /\ ~Pure(p)
    /\ \/ hook' = Written(<<>>) /\ job' = [job EXCEPT ![p].step = "fill"]
       \/ hook' = hook /\ job' = Done(p, "error")
    /\ UNCHANGED <<users, spoiled>>

\* Second half: the text is written, all of it or a part; into a file that has
\* been removed since, it is written for nobody.
fs_write_all(p) ==
    /\ job[p].step \in {"fill", "unlinked"}
    /\ \E n \in 0..Len(NewText(p)) :
          LET text == SubSeq(NewText(p), 1, n)
              alone == IsPrefix(text, hook.text) \/ IsPrefix(hook.text, text) IN
          /\ \/ /\ job[p].step = "fill"
                /\ \E shown \in Overlaid(text, hook.text) : hook' = Written(shown)
                /\ spoiled' = (spoiled \/ n < Len(NewText(p)) \/ ~alone)
             \/ job[p].step = "unlinked" /\ UNCHANGED <<hook, spoiled>>
          /\ job' = IF n < Len(NewText(p)) THEN Done(p, "error")
                    ELSE IF job[p].op = "install" THEN [job EXCEPT ![p].step = "chmod"]
                    ELSE Done(p, "Uninstalled")
    /\ UNCHANGED users

\* Then install makes the file executable; when that fails the file stays as it is.
install_hook_chmod(p) ==
    /\ job[p].step = "chmod"
    /\ \/ hook # Absent /\ hook' = [hook EXCEPT !.exec = TRUE] /\ job' = Done(p, "Installed")
       \/ UNCHANGED hook /\ job' = Done(p, "error")
    /\ UNCHANGED <<users, spoiled>>

\* uninstall_hook removes a file that was nothing but the script when it looked;
\* who has it open keeps writing into a file without a name.
uninstall_hook_remove(p) ==
    /\ job[p].step = "write" /\ Pure(p)
    /\ \/ /\ hook # Absent /\ hook' = Absent
          /\ job' = [q \in Installers |->
                        IF job[q].step = "fill" THEN [job[q] EXCEPT !.step = "unlinked"]
                        ELSE Done(p, "Uninstalled")[q]]
       \/ hook' = hook /\ job' = Done(p, "error")
    /\ UNCHANGED <<users, spoiled>>

HookInit ==
    /\ hook = Absent
    /\ job = [p \in Installers |-> NoJob]
    /\ users = <<>>
    /\ spoiled = FALSE

HookNext ==
    \/ UserWrites \/ OtherVersion
    \/ \E p \in Installers : \/ \E op \in {"install", "uninstall"} : Read(p, op)
                             \/ fs_write_open(p) \/ fs_write_all(p)
                             \/ install_hook_chmod(p) \/ uninstall_hook_remove(p)

(***************************************************************************)
(* Properties.                                                             *)
(***************************************************************************)

\* The lines of one text are those of the other, in the same order.
SameLines(old, new) ==
    \E place \in [Lines(old) -> Lines(new)] :
        /\ \A k \in Lines(new) : \E i \in Lines(old) : place[i] = k
        /\ \A i \in Lines(old) : new[place[i]] = old[i]
        /\ \A i, j \in Lines(old) : i < j => place[i] < place[j]

AtMostOnce(text) ==
    \A i, j \in DOMAIN text : text[i] = "script" /\ text[j] = "script" => i = j

\* Whatever commands run at the same time and whichever of their steps fails,
\* when none has the file open: the user's lines are all there, in their order,
\* and the script is there at most once. Short of a file filled half way or with
\* two texts at once, and of a command that read the file just when another had
\* emptied it: there the lines can be lost.
UserLinesSurvive ==
    ~spoiled /\ (\A p \in Installers : job[p].step # "fill") =>
        /\ hook = Absent => Lines(users) = {}
        /\ hook # Absent => SameLines(users, hook.text) /\ AtMostOnce(hook.text)
=============================================================================
