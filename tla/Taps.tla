-------------------------------- MODULE Taps --------------------------------
(***************************************************************************)
(* Taps: directories Library/Taps/<user>/homebrew-<repository> that `tap'  *)
(* clones, `untap' removes and `update' pulls.  tap and untap hold the     *)
(* tap's exclusive lock from before they look to their end, update takes   *)
(* none; the directory of a user is shared by his taps, and locked by      *)
(* nobody.  Each process runs one command and may be killed at any point.  *)
(*                                                                         *)
(* git is external: a clone and a pull may fail, a clone that failed may   *)
(* leave a part of the tap, and a pull writes into a tap while it runs.    *)
(***************************************************************************)
EXTENDS Naturals, Sequences, SequencesExt

CONSTANTS
    TapProcs,
    Users, Repositories,
    TapCommands,    \* the commands: [op, names, remote, force]; a name is what a user
                    \* types, [parts, user, repository, prefixed]
    AllowedTaps, ForbiddenTaps,  \* references: <<"remote", r>>, <<"owner", u>>, <<"tap", raw>>
    MaxTapFaults    \* bound: calls that fail, and kills

ASSUME TapsAssumption ==
    /\ MaxTapFaults \in Nat /\ "nobody" \notin TapProcs
    /\ \A c \in TapCommands :
          /\ DOMAIN c = {"op", "names", "remote", "force"}
          /\ c.op \in {"tap", "untap", "update"}
          /\ DOMAIN c.names = 1 .. Len(c.names) /\ Len(c.names) \in Nat \ {0}
          /\ c.op = "tap" => Len(c.names) = 1

TapNames == Users \X Repositories
Invalid == <<>>

\* TapName::parse: two parts that are names; the repository without its "homebrew-".
TapName(raw) ==
    IF raw.parts # 2 \/ raw.user \notin Users \/ raw.repository \notin Repositories
    THEN Invalid ELSE <<raw.user, raw.repository>>

IsApiTap(t) == t \in {<<"homebrew", "core">>, <<"linuxbrew", "core">>, <<"homebrew", "cask">>}

\* normalize_remote: of a remote on github.com only the path counts; elsewhere the
\* scheme does too, and only gitlab.com loses ".git" and the last slash.
NormalizeRemote(r) ==
    CASE r.host = "github" -> [r EXCEPT !.scheme = "https", !.dotgit = FALSE]
      [] r.host = "gitlab" -> [r EXCEPT !.dotgit = FALSE]
      [] OTHER -> r
DefaultRemote(t) == [host |-> "github", path |-> t, scheme |-> "https", dotgit |-> FALSE]

MatchesTapReference(ref, t, remote) ==
    CASE ref[1] = "remote" -> NormalizeRemote(ref[2]) = NormalizeRemote(remote)
      [] ref[1] = "owner" -> ref[2] = t[1]
      [] OTHER -> TapName(ref[2]) = t

TapAllowed(t, remote) ==
    \/ AllowedTaps = {}
    \/ IsApiTap(t) /\ NormalizeRemote(remote) = NormalizeRemote(DefaultRemote(t))
    \/ \E ref \in AllowedTaps : MatchesTapReference(ref, t, remote)
TapForbidden(t, remote) == \E ref \in ForbiddenTaps : MatchesTapReference(ref, t, remote)

VARIABLES
    taps,       \* taps[t]: "none", "part", "whole", or "other" (no directory)
    userDirs,   \* the users whose directory exists
    tapLock,    \* tapLock[t]: the process that holds its exclusive lock, or none
    sources,    \* the taps that receipts of installed kegs name
    task,       \* task[p]: the command of p
    tapPc, tapAt,  \* where p is, and at which of its taps
    tapLeft,    \* taps somebody was told of, or was killed at
    tapFaults

tapVars == <<taps, userDirs, tapLock, sources, task, tapPc, tapAt, tapLeft, tapFaults>>

Nobody == "nobody"
Asked(p) == [i \in DOMAIN task[p].names |-> TapName(task[p].names[i])]
AskedSet(p) == {Asked(p)[i] : i \in DOMAIN Asked(p)}
Tap(p) == Asked(p)[tapAt[p]]
User(t) == t[1]

IsEmptyUser(u) == u \in userDirs /\ \A t \in TapNames : User(t) = u => taps[t] = "none"

TapsInit ==
    /\ taps \in [TapNames -> {"none", "whole", "part", "other"}]
    /\ userDirs = {User(t) : t \in {s \in TapNames : taps[s] # "none"}}
    /\ sources \in {{}, {t \in TapNames : taps[t] = "whole"}}
    /\ tapLock = [t \in TapNames |-> Nobody]
    /\ task \in [TapProcs -> TapCommands]
    /\ tapPc = [p \in TapProcs |-> "start"]
    /\ tapAt = [p \in TapProcs |-> 1]
    /\ tapLeft = {t \in TapNames : taps[t] = "part"}
    /\ tapFaults = 0

-----------------------------------------------------------------------------

Goto(p, at) == tapPc' = [tapPc EXCEPT ![p] = at]
Fault == tapFaults < MaxTapFaults /\ tapFaults' = tapFaults + 1
Unlocked(p) == [t \in TapNames |-> IF tapLock[t] = p THEN Nobody ELSE tapLock[t]]

\* The command ends, and drops its locks.
Finish(p, result) ==
    /\ Goto(p, result)
    /\ tapLock' = Unlocked(p)

\* acquire_exclusive_tap_locks: all or, when one is held, none (one file after the
\* other; LockFiles has the steps).
LockTaps(p) ==
    /\ tapPc[p] = "locks"
    /\ IF \A t \in AskedSet(p) : tapLock[t] = Nobody
       THEN /\ tapLock' = [t \in TapNames |-> IF t \in AskedSet(p) THEN p ELSE tapLock[t]]
            /\ Goto(p, "look")
       ELSE Goto(p, "failed") /\ UNCHANGED tapLock
    /\ UNCHANGED <<taps, userDirs, sources, task, tapAt, tapLeft, tapFaults>>

TapThere(t) == taps[t] \in {"part", "whole"}

\* installed: what update goes over, the directories that are there when it starts.
ListTaps(p) ==
    /\ tapPc[p] = "start" /\ task[p].op = "update"
    /\ LET there == SelectSeq(task[p].names, LAMBDA raw : TapThere(TapName(raw)))
       IN  /\ task' = [task EXCEPT ![p].names = there]
           /\ Goto(p, IF there = <<>> THEN "ok" ELSE "pull")
    /\ UNCHANGED <<taps, userDirs, tapLock, sources, tapAt, tapLeft, tapFaults>>

\* What tap and untap refuse before anything is locked.
StartTask(p) ==
    /\ tapPc[p] = "start" /\ task[p].op # "update"
    /\ LET c == task[p]
           refused == \/ Invalid \in AskedSet(p)
                      \/ /\ c.op = "tap"
                         /\ \/ IsApiTap(Tap(p)) /\ ~c.force
                            \/ ~TapAllowed(Tap(p), c.remote)
                            \/ TapForbidden(Tap(p), c.remote)
       IN  Goto(p, IF refused THEN "failed" ELSE "locks")
    /\ UNCHANGED <<taps, userDirs, tapLock, sources, task, tapAt, tapLeft, tapFaults>>

\* tap: "already tapped" is whatever is there; prepare_parent.
PrepareParent(p) ==
    /\ tapPc[p] = "look" /\ task[p].op = "tap"
    /\ IF taps[Tap(p)] # "none"
       THEN Finish(p, "failed") /\ UNCHANGED userDirs
       ELSE /\ userDirs' = userDirs \cup {User(Tap(p))}
            /\ Goto(p, "clone")
            /\ UNCHANGED tapLock
    /\ UNCHANGED <<taps, sources, task, tapAt, tapLeft, tapFaults>>

\* git clone makes the directories it needs and fills them.
BeginClone(p) ==
    /\ tapPc[p] = "clone"
    /\ taps' = [taps EXCEPT ![Tap(p)] = "part"]
    /\ userDirs' = userDirs \cup {User(Tap(p))}
    /\ Goto(p, "cloning")
    /\ UNCHANGED <<tapLock, sources, task, tapAt, tapLeft, tapFaults>>

EndClone(p) ==
    /\ tapPc[p] = "cloning"
    /\ \/ /\ taps' = [taps EXCEPT ![Tap(p)] = "whole"]
          /\ Finish(p, "ok")
          /\ UNCHANGED tapFaults
       \/ \* measure fails: the tap is there all the same.
          /\ taps' = [taps EXCEPT ![Tap(p)] = "whole"]
          /\ Finish(p, "failed")
          /\ Fault
       \/ /\ taps' \in {taps, [taps EXCEPT ![Tap(p)] = "none"]}
          /\ Goto(p, "rollback")
          /\ Fault
          /\ UNCHANGED tapLock
    /\ UNCHANGED <<userDirs, sources, task, tapAt, tapLeft>>

\* rollback_clone: remove_tree, and the directory of the user when that was all.
\* When it fails, the user is told of the partial tap.
RollbackClone(p) ==
    /\ tapPc[p] = "rollback"
    /\ LET rest == [taps EXCEPT ![Tap(p)] = "none"]
           empty == \A t \in TapNames : User(t) = User(Tap(p)) => rest[t] = "none"
       IN  \/ /\ taps' = rest
              /\ userDirs' = IF empty THEN userDirs \ {User(Tap(p))} ELSE userDirs
              /\ UNCHANGED <<tapLeft, tapFaults>>
           \/ /\ Fault
              /\ tapLeft' = tapLeft \cup {Tap(p)}
              /\ UNCHANGED <<taps, userDirs>>
    /\ Finish(p, "failed")
    /\ UNCHANGED <<sources, task, tapAt>>

\* Mutant: of the taps that are asked for, only the first is looked at.
CheckDependentsFirst(p) ==
    /\ tapPc[p] = "look" /\ task[p].op = "untap"
    /\ IF ~task[p].force /\ Tap(p) \in sources
       THEN Finish(p, "failed")
       ELSE Goto(p, "untap") /\ UNCHANGED tapLock
    /\ UNCHANGED <<taps, userDirs, sources, task, tapAt, tapLeft, tapFaults>>

\* refuse_if_dependents, under the locks of all taps asked for
CheckDependents(p) ==
    /\ tapPc[p] = "look" /\ task[p].op = "untap"
    /\ IF ~task[p].force /\ sources \cap AskedSet(p) # {}
       THEN Finish(p, "failed")
       ELSE Goto(p, "untap") /\ UNCHANGED tapLock
    /\ UNCHANGED <<taps, userDirs, sources, task, tapAt, tapLeft, tapFaults>>

\* is_installed, measure, and the first files of remove_tree.
BeginRemove(p) ==
    /\ tapPc[p] = "untap"
    /\ \/ /\ TapThere(Tap(p))
          /\ taps' = [taps EXCEPT ![Tap(p)] = "part"]
          /\ Goto(p, "removing")
          /\ UNCHANGED <<tapLock, tapFaults>>
       \/ /\ ~TapThere(Tap(p))
          /\ Finish(p, "failed")
          /\ UNCHANGED <<taps, tapFaults>>
       \/ /\ TapThere(Tap(p))
          /\ Fault
          /\ Finish(p, "failed")
          /\ UNCHANGED taps
    /\ UNCHANGED <<userDirs, sources, task, tapAt, tapLeft>>

Pulled(t) == \E q \in TapProcs : tapPc[q] = "pulling" /\ Tap(q) = t

\* The last files and the directory; a pull that writes meanwhile makes it fail.
EndRemove(p) ==
    /\ tapPc[p] = "removing"
    /\ \/ /\ taps' = [taps EXCEPT ![Tap(p)] = "none"]
          /\ Goto(p, "parent")
          /\ UNCHANGED <<tapLock, tapLeft, tapFaults>>
       \/ /\ IF Pulled(Tap(p)) THEN UNCHANGED tapFaults ELSE Fault
          /\ tapLeft' = tapLeft \cup {Tap(p)}
          /\ Finish(p, "failed")
          /\ UNCHANGED taps
    /\ UNCHANGED <<userDirs, sources, task, tapAt>>

\* is_empty_real_directory
LookAtParent(p) ==
    /\ tapPc[p] = "parent"
    /\ IF IsEmptyUser(User(Tap(p))) THEN Goto(p, "rmdir") ELSE Goto(p, "next")
    /\ UNCHANGED <<taps, userDirs, tapLock, sources, task, tapAt, tapLeft, tapFaults>>

\* remove_dir fails when another command filled the directory or removed it first.
RemoveParent(p) ==
    /\ tapPc[p] = "rmdir"
    /\ IF IsEmptyUser(User(Tap(p)))
       THEN /\ userDirs' = userDirs \ {User(Tap(p))}
            /\ Goto(p, "next")
            /\ UNCHANGED tapLock
       ELSE Finish(p, "failed") /\ UNCHANGED userDirs
    /\ UNCHANGED <<taps, sources, task, tapAt, tapLeft, tapFaults>>

NextTap(p) ==
    /\ tapPc[p] = "next"
    /\ IF tapAt[p] < Len(task[p].names)
       THEN /\ tapAt' = [tapAt EXCEPT ![p] = @ + 1]
            /\ Goto(p, IF task[p].op = "update" THEN "pull" ELSE "untap")
            /\ UNCHANGED tapLock
       ELSE Finish(p, "ok") /\ UNCHANGED tapAt
    /\ UNCHANGED <<taps, userDirs, sources, task, tapLeft, tapFaults>>

\* update: a tap that is there is pulled, without its lock, when it has a .git directory.
BeginPull(p) ==
    /\ tapPc[p] = "pull"
    /\ \/ TapThere(Tap(p)) /\ Goto(p, "pulling")
       \/ Goto(p, "next")
    /\ UNCHANGED <<taps, userDirs, tapLock, sources, task, tapAt, tapLeft, tapFaults>>

\* A pull that failed is a warning.
EndPull(p) ==
    /\ tapPc[p] = "pulling"
    /\ Goto(p, "next")
    /\ UNCHANGED <<taps, userDirs, tapLock, sources, task, tapAt, tapLeft, tapFaults>>

KillTask(p) ==
    /\ tapPc[p] \notin {"start", "ok", "failed", "killed"}
    /\ Fault
    /\ Finish(p, "killed")
    /\ tapLeft' = tapLeft \cup {t \in AskedSet(p) : taps[t] = "part"}
    /\ UNCHANGED <<taps, userDirs, sources, task, tapAt>>

TapStep(p) ==
    \/ StartTask(p) \/ ListTaps(p) \/ LockTaps(p) \/ PrepareParent(p) \/ BeginClone(p) \/ EndClone(p)
    \/ RollbackClone(p) \/ CheckDependents(p) \/ BeginRemove(p) \/ EndRemove(p)
    \/ LookAtParent(p) \/ RemoveParent(p) \/ NextTap(p) \/ BeginPull(p) \/ EndPull(p)

TapsNext == \E p \in TapProcs : TapStep(p) \/ KillTask(p)
TapsSpec == TapsInit /\ [][TapsNext]_tapVars

-----------------------------------------------------------------------------
(* Properties                                                              *)

\* A tap is partial only while a command that holds its lock works on it, or after
\* its user was told, or the command was killed: the next `tap' finds it "tapped".
PartialTold ==
    \A t \in TapNames : taps[t] = "part" => tapLock[t] # Nobody \/ t \in tapLeft

\* A command that succeeds has done what it was asked to all its taps, whatever
\* the others do meanwhile, and an untap that was not forced takes no tap of an
\* installed formula.
DoesAsAsked(p) ==
    tapPc[p] # "ok" /\ tapPc'[p] = "ok" =>
       \A t \in AskedSet(p) :
          /\ task[p].op = "tap" => taps'[t] = "whole"
          /\ task[p].op = "untap" => taps'[t] = "none" /\ (task[p].force \/ t \notin sources)
SuccessIsDone == [][\A p \in TapProcs : DoesAsAsked(p)]_tapVars

\* Both promises of the tap commands.
TapsKept == []PartialTold /\ SuccessIsDone
=============================================================================
