------------------------------ MODULE Downloads ------------------------------
(***************************************************************************)
(* One entry of the download cache: the file under its final name, the     *)
(* .incomplete it is downloaded into, the alias, and the clients that      *)
(* fetch it (fetch_bottle and fetch_artifact_with_options of               *)
(* zapbrew-net/src/download.rs, publish of cache.rs).  Names and inodes    *)
(* are apart: a client keeps writing to the file it opened, whatever       *)
(* becomes of its name.  No lock protects the entry; `cleanup' removes     *)
(* names it has listed; a client may be killed anywhere, and the next      *)
(* fetch resumes from what it finds.                                       *)
(***************************************************************************)
EXTENDS Naturals, Sequences, SequencesExt

CONSTANTS
    Clients,
    Bodies,      \* what a server may have under the URL: a sequence of versions
    Size,        \* chunks of a body
    Requests,    \* [kind, want, force, origins]
    Unchecked,   \* the `want' of a no_check artifact
    Inodes, NoInode,
    MaxAttempts, \* MAX_ATTEMPTS
    MaxRuns, MaxFaults, MaxCleanups     \* bounds

Releases == ToSet(Bodies)

\* Two origins at most: the mirror's and the catalog's.
ASSUME FetchAssumption ==
    /\ Bodies \in Seq(Releases) /\ Bodies # <<>> /\ Unchecked \notin Releases
    /\ Size \in Nat \ {0} /\ MaxAttempts \in Nat /\ MaxAttempts >= 2
    /\ Requests \subseteq [kind : {"bottle", "artifact"}, want : Releases \cup {Unchecked},
                           force : BOOLEAN, origins : 1 .. 2]
    /\ {1, 2} \subseteq Inodes /\ NoInode \notin Inodes
    /\ MaxRuns \in Nat /\ MaxFaults \in Nat /\ MaxCleanups \in Nat

VARIABLES
    entry,      \* the inodes that `incomplete' and `final' name
    file,       \* what each inode holds: a sequence of chunks
    alias,
    served,     \* the version each origin serves
    job,        \* what each client does
    sweep,      \* names a running cleanup has listed
    runs, faults, cleanups

fetchVars == <<entry, file, alias, served, job, sweep, runs, faults, cleanups>>

Names == {"incomplete", "final"}
Whole(b) == [k \in 1 .. Size |-> <<b, k>>]
Exists(n) == entry[n] # NoInode
Holds(n) == IF Exists(n) THEN file[entry[n]] ELSE <<>>
Origins == 1 .. 2

\* No file open, nothing of a body received.
Quiet(j) == [j EXCEPT !.existing = 0, !.body = Unchecked, !.next = 1, !.append = FALSE,
                      !.fd = NoInode, !.pos = 0]
NoRequest == [kind |-> "bottle", want |-> Unchecked, force |-> FALSE, origins |-> 1]
NoFetch == [pc |-> "idle", request |-> NoRequest, attempt |-> 0, origin |-> 1,
            used |-> <<>>, healthy |-> TRUE, start |-> [incomplete |-> <<>>, final |-> <<>>],
            existing |-> 0, body |-> Unchecked, next |-> 1, append |-> FALSE,
            fd |-> NoInode, pos |-> 0]

\* An entry this program can have left: a complete file or none, and a part of a
\* download (a full one if it was killed before it could publish), perhaps
\* resumed after the server had changed.  An alias that is not there is one of
\* another file, removed.
FetchInit ==
    /\ \E final \in {NoInode, 1}, part \in {NoInode, 2} :
          entry = [incomplete |-> part, final |-> final]
    /\ \E b \in Releases, n \in 1 .. Size : \E c \in [1 .. n -> Releases] :
          file = [i \in Inodes |->
                    IF i = entry["final"] THEN Whole(b)
                    ELSE IF i = entry["incomplete"] THEN [k \in 1 .. n |-> <<c[k], k>>]
                    ELSE <<>>]
    /\ alias \in {"other", "ours"}
    /\ served \in [Origins -> Releases]
    /\ job = [p \in Clients |-> NoFetch]
    /\ sweep = {} /\ runs = 0 /\ faults = 0 /\ cleanups = 0

-----------------------------------------------------------------------------
Is(p, label) == job[p].pc = label
Fetching(p) == job[p].pc \notin {"idle", "ok", "failed", "killed"}
Request(p) == job[p].request
Checked(p) == Request(p).want # Unchecked

FetchBecomes(p, j) == job' = [job EXCEPT ![p] = j]
Entering(j, label) == [j EXCEPT !.pc = label]
FetchGoto(p, label) == FetchBecomes(p, Entering(job[p], label))

NoFault == UNCHANGED faults

\* A call that fails in a way the program must expect.
FaultBy(p, j) ==
    /\ faults < MaxFaults /\ faults' = faults + 1
    /\ FetchBecomes(p, [j EXCEPT !.healthy = FALSE])

FetchFailed(p) == Entering(job[p], "failed")

\* What follows an attempt that did not succeed.
Retry(p) ==
    LET j == Quiet(job[p])
    IN  IF j.attempt + 1 < MaxAttempts THEN [j EXCEPT !.pc = "size", !.attempt = @ + 1]
        ELSE Entering(j, IF j.origin < j.request.origins THEN "origin" ELSE "failed")

diskVars == <<entry, file, alias>>
restVars == <<served, sweep, runs, cleanups>>

BeginFetch(p) ==
    /\ ~Fetching(p) /\ runs < MaxRuns
    /\ \E r \in Requests :
          FetchBecomes(p, [NoFetch EXCEPT !.pc = "reuse", !.request = r,
                                     !.start = [incomplete |-> Holds("incomplete"),
                                                final |-> Holds("final")]])
    /\ runs' = runs + 1
    /\ UNCHANGED <<diskVars, served, sweep, faults, cleanups>>

\* The two files are only looked at if there is a checksum and no transfer is
\* forced (a request for the same URL without a checksum forces one).  One
\* that cannot be read counts as a miss; an artifact's that cannot be examined
\* ends the fetch.
MayReuse(p) == ~Request(p).force /\ Checked(p)
Unreadable(p, label) ==
    MayReuse(p) /\ \/ FaultBy(p, Entering(job[p], label))
                   \/ Request(p).kind = "artifact" /\ FaultBy(p, FetchFailed(p))

\* A final file with the right checksum is used as it is; for an artifact its
\* alias is repaired first.
Reuse(p) ==
    /\ Is(p, "reuse")
    /\ \/ /\ NoFault
          /\ FetchGoto(p, IF ~(MayReuse(p) /\ Holds("final") = Whole(Request(p).want))
                          THEN "complete"
                          ELSE IF Request(p).kind = "bottle" THEN "use" ELSE "alias")
       \/ Exists("final") /\ Unreadable(p, "complete")
    /\ UNCHANGED <<diskVars, restVars>>

\* try_publish_complete.
Complete(p) ==
    /\ Is(p, "complete")
    /\ \/ /\ NoFault
          /\ FetchGoto(p, IF MayReuse(p) /\ Holds("incomplete") = Whole(Request(p).want)
                     THEN "publish" ELSE "size")
       \/ Exists("incomplete") /\ Unreadable(p, "size")
    /\ UNCHANGED <<diskVars, restVars>>

-----------------------------------------------------------------------------
(* One attempt: attempt_download, attempt_artifact_download.               *)

Measure(p) ==
    /\ Is(p, "size")
    /\ FetchBecomes(p, [job[p] EXCEPT !.pc = "send", !.existing = Len(Holds("incomplete"))])
    /\ UNCHANGED <<diskVars, restVars, faults>>

\* The answer to the GET, with a Range header if there is something to resume.
\* A server may ignore the header; one that does not refuses a start at the end
\* (416), and its 206 continues whatever version it has now.
Respond(p) ==
    LET existing == job[p].existing
        From(start) == [job[p] EXCEPT !.pc = "recheck", !.body = served[job[p].origin],
                                      !.next = start, !.append = start > 1]
    IN  /\ Is(p, "send")
        /\ \/ FetchBecomes(p, From(1)) /\ NoFault
           \/ existing \in 1 .. Size - 1 /\ FetchBecomes(p, From(existing + 1)) /\ NoFault
           \/ existing >= Size /\ FetchBecomes(p, Retry(p)) /\ NoFault
           \/ FaultBy(p, Retry(p))
        /\ UNCHANGED <<diskVars, restVars>>

Recheck(p) ==
    /\ Is(p, "recheck")
    /\ IF job[p].append /\ Len(Holds("incomplete")) # job[p].existing
       THEN FetchBecomes(p, Retry(p)) ELSE FetchGoto(p, "open")
    /\ UNCHANGED <<diskVars, restVars, faults>>

\* An inode with no name that no client has open.
Unused == {i \in Inodes : /\ \A n \in Names : entry[n] # i
                          /\ \A p \in Clients : job[p].fd # i}

Open(p) ==
    /\ Is(p, "open")
    /\ \/ /\ NoFault /\ (Exists("incomplete") \/ Unused # {})
          /\ LET i == IF Exists("incomplete") THEN entry["incomplete"]
                      ELSE CHOOSE j \in Unused : TRUE
             IN  /\ entry' = [entry EXCEPT !["incomplete"] = i]
                 /\ file' = (IF job[p].append /\ Exists("incomplete") THEN file
                             ELSE [file EXCEPT ![i] = <<>>])
                 /\ FetchBecomes(p, [job[p] EXCEPT !.pc = "stream", !.fd = i, !.pos = 0])
       \/ FaultBy(p, Retry(p)) /\ UNCHANGED <<entry, file>>
    /\ UNCHANGED <<alias, restVars>>

\* write_all of one chunk: at the end of the file, or at the offset of the
\* descriptor, where another client's truncation leaves a hole before it.
Receive(p) ==
    /\ Is(p, "stream") /\ job[p].next <= Size
    /\ LET i == job[p].fd
           chunk == <<job[p].body, job[p].next>>
           at == IF job[p].append THEN Len(file[i]) + 1 ELSE job[p].pos + 1
           grown == file[i] \o [k \in 1 .. at |-> <<Unchecked, 0>>]
       IN  /\ file' = [file EXCEPT ![i] =
                         [k \in 1 .. (IF at > Len(@) THEN at ELSE Len(@)) |->
                            IF k = at THEN chunk ELSE grown[k]]]
           /\ FetchBecomes(p, [job[p] EXCEPT !.next = @ + 1, !.pos = @ + 1])
    /\ UNCHANGED <<entry, alias, restVars, faults>>

\* The connection or a write breaks; the file is kept.
Break(p) ==
    /\ Is(p, "stream") /\ FaultBy(p, Retry(p))
    /\ UNCHANGED <<diskVars, restVars>>

\* The end of the body, or what looks like it.
EndOfBody(p) ==
    /\ Is(p, "stream")
    /\ \/ job[p].next > Size /\ FetchBecomes(p, Entering(Quiet(job[p]), "verify")) /\ NoFault
       \/ job[p].next <= Size /\ FaultBy(p, Entering(Quiet(job[p]), "verify"))
    /\ UNCHANGED <<diskVars, restVars>>

-----------------------------------------------------------------------------
(* After the attempt.                                                      *)

\* The name becomes free, or another inode's.  What nobody can reach is forgotten.
Rebind(n, i) ==
    /\ entry' = IF i = NoInode THEN [entry EXCEPT ![n] = i]
                ELSE [incomplete |-> NoInode, final |-> i]
    /\ file' = [j \in Inodes |->
                   IF j = entry[n] /\ j # i /\ \A p \in Clients : job[p].fd # j
                   THEN <<>> ELSE file[j]]
Unlink(n) == Rebind(n, NoInode)

\* Mutant: only the length is looked at.
VerifyLength(p) ==
    /\ Is(p, "verify") /\ NoFault
    /\ FetchGoto(p, IF Len(Holds("incomplete")) = Size THEN "publish" ELSE "discard")
    /\ UNCHANGED <<diskVars, restVars>>

\* The checksum of what the name refers to now.  An artifact whose file is gone,
\* and a no_check one that cannot be read, end the fetch without a retry.
VerifyFile(p) ==
    /\ Is(p, "verify")
    /\ \/ /\ ~Exists("incomplete") /\ NoFault
          /\ FetchGoto(p, IF Request(p).kind = "bottle" THEN "discard" ELSE "failed")
       \/ /\ Exists("incomplete") /\ NoFault
          /\ FetchGoto(p, IF Checked(p) /\ Holds("incomplete") # Whole(Request(p).want)
                     THEN "discard" ELSE "publish")
       \/ /\ Exists("incomplete")
          /\ FaultBy(p, Entering(job[p], IF Checked(p) THEN "discard" ELSE "failed"))
    /\ UNCHANGED <<diskVars, restVars>>

\* Mutant: the file that failed verification is kept to be resumed.
DiscardNothing(p) ==
    /\ Is(p, "discard") /\ FetchBecomes(p, Retry(p)) /\ NoFault
    /\ UNCHANGED <<diskVars, restVars>>

\* Mutant: the file of an earlier fetch goes with it.
DiscardFinal(p) ==
    /\ Is(p, "discard") /\ NoFault
    /\ Unlink("final") /\ FetchBecomes(p, Retry(p)) /\ UNCHANGED <<alias, restVars>>

\* remove_file, its error ignored.
Discard(p) ==
    /\ Is(p, "discard")
    /\ \/ Unlink("incomplete") /\ FetchBecomes(p, Retry(p)) /\ NoFault
       \/ Exists("incomplete") /\ FaultBy(p, Retry(p)) /\ UNCHANGED <<entry, file>>
    /\ UNCHANGED <<alias, restVars>>

\* The next origin starts from nothing.
NextOrigin(p) ==
    LET next == [job[p] EXCEPT !.pc = "size", !.attempt = 0, !.origin = @ + 1]
    IN  /\ Is(p, "origin")
        /\ \/ Unlink("incomplete") /\ FetchBecomes(p, next) /\ NoFault
           \/ Exists("incomplete") /\ FaultBy(p, next) /\ UNCHANGED <<entry, file>>
        /\ UNCHANGED <<alias, restVars>>

\* open and sync, then rename over the final name.
PublishFile(p) ==
    /\ Is(p, "publish")
    /\ \/ /\ Exists("incomplete") /\ NoFault
          /\ Rebind("final", entry["incomplete"]) /\ FetchGoto(p, "alias")
       \/ /\ ~Exists("incomplete") /\ NoFault
          /\ FetchBecomes(p, FetchFailed(p)) /\ UNCHANGED <<entry, file>>
       \/ FaultBy(p, FetchFailed(p)) /\ UNCHANGED <<entry, file>>
    /\ UNCHANGED <<alias, restVars>>

\* ensure_alias: what is there is looked at, removed if it is something else ...
InspectAlias(p) ==
    /\ Is(p, "alias")
    /\ \/ alias = "ours" /\ FetchGoto(p, "use") /\ NoFault /\ UNCHANGED alias
       \/ alias # "ours" /\ FetchGoto(p, "symlink") /\ NoFault /\ alias' = "none"
       \/ alias = "other" /\ FaultBy(p, FetchFailed(p)) /\ UNCHANGED alias
    /\ UNCHANGED <<entry, file, restVars>>

\* ... and symlink(2) wants the name free.  The directory may not sync.
MakeAlias(p) ==
    /\ Is(p, "symlink")
    /\ \/ alias = "none" /\ alias' = "ours" /\ FetchGoto(p, "use") /\ NoFault
       \/ alias # "none" /\ FetchBecomes(p, FetchFailed(p)) /\ NoFault /\ UNCHANGED alias
       \/ FaultBy(p, FetchFailed(p)) /\ alias' \in {alias, "ours"}
    /\ UNCHANGED <<entry, file, restVars>>

\* The caller opens the path it was given.
Use(p) ==
    /\ Is(p, "use")
    /\ FetchBecomes(p, [job[p] EXCEPT !.pc = "ok", !.used = Holds("final")])
    /\ UNCHANGED <<diskVars, restVars, faults>>

-----------------------------------------------------------------------------
(* The rest of the world.                                                  *)

KillFetch(p) ==
    /\ Fetching(p)
    /\ FetchBecomes(p, Entering(Quiet(job[p]), "killed"))
    /\ UNCHANGED <<diskVars, restVars, faults>>

\* What happens to the entry or its source besides one client's own doing.
Disturb == job' = [p \in Clients |-> [job[p] EXCEPT !.healthy = FALSE]]

\* A newer version is put under the URL of a fetch under way.
NewRelease(o) ==
    /\ \E p \in Clients : Fetching(p) /\ o <= Request(p).origins
    /\ \E i \in 1 .. Len(Bodies) - 1 :
          served[o] = Bodies[i] /\ served' = [served EXCEPT ![o] = Bodies[i + 1]]
    /\ Disturb /\ UNCHANGED <<diskVars, sweep, runs, faults, cleanups>>

\* `cleanup' lists unfinished downloads and dangling aliases; with --prune=all
\* (or when nothing refers to it) the final file too.  One that is over before a
\* fetch begins leaves what FetchInit has.
ListCache ==
    /\ \E p \in Clients : Fetching(p)
    /\ sweep = {} /\ cleanups < MaxCleanups /\ cleanups' = cleanups + 1
    /\ \E all \in BOOLEAN :
          sweep' = {n \in Names : Exists(n) /\ (n = "final" => all)}
                   \cup (IF alias = "ours" /\ ~Exists("final") THEN {"alias"} ELSE {})
    /\ sweep' # {}
    /\ UNCHANGED <<diskVars, served, job, runs, faults>>

RemoveListed(n) ==
    /\ n \in sweep /\ sweep' = sweep \ {n}
    /\ \/ n = "alias" /\ alias' = "none" /\ UNCHANGED <<entry, file>>
       \/ n \in Names /\ Unlink(n) /\ UNCHANGED alias
    /\ Disturb /\ UNCHANGED <<served, runs, faults, cleanups>>

FetchStep(p) ==
    \/ Reuse(p) \/ Complete(p) \/ Measure(p) \/ Respond(p) \/ Recheck(p) \/ Open(p)
    \/ Receive(p) \/ Break(p) \/ EndOfBody(p) \/ VerifyFile(p) \/ Discard(p) \/ NextOrigin(p)
    \/ PublishFile(p) \/ InspectAlias(p) \/ MakeAlias(p) \/ Use(p)

FetchNext ==
    \/ \E p \in Clients : BeginFetch(p) \/ FetchStep(p) \/ KillFetch(p)
    \/ \E o \in Origins : NewRelease(o)
    \/ ListCache \/ \E n \in Names \cup {"alias"} : RemoveListed(n)

FetchSpec == FetchInit /\ [][FetchNext]_fetchVars

-----------------------------------------------------------------------------
(* Properties                                                              *)

FetchLabels == {"idle", "reuse", "complete", "size", "send", "recheck", "open", "stream", "verify",
           "discard", "origin", "publish", "alias", "symlink", "use", "ok", "failed", "killed"}
Chunks == (Releases \cup {Unchecked}) \X Nat
Jobs == [pc : FetchLabels, request : Requests \cup {NoRequest}, attempt : 0 .. MaxAttempts - 1,
         origin : Origins, used : Seq(Chunks), healthy : BOOLEAN,
         start : [incomplete : Seq(Chunks), final : Seq(Chunks)],
         existing : Nat, body : Releases \cup {Unchecked}, next : 1 .. Size + 1,
         append : BOOLEAN, fd : Inodes \cup {NoInode}, pos : Nat]

FetchTypeOK ==
    /\ entry \in [Names -> Inodes \cup {NoInode}]
    /\ file \in [Inodes -> Seq(Chunks)]
    /\ alias \in {"none", "other", "ours"}
    /\ served \in [Origins -> Releases]
    /\ job \in [Clients -> Jobs]
    /\ \A p \in Clients : Is(p, "origin") => job[p].origin < Request(p).origins
    /\ sweep \subseteq Names \cup {"alias"}
    /\ runs \in Nat /\ faults \in Nat /\ cleanups \in Nat

\* how-it-works.md, "every artifact is checked against the catalog's checksum
\* before use": what a client uses is the version asked for, whole, whatever it
\* resumed from and whatever the server did meanwhile; or the file is gone by then,
\* removed by a cleanup.  An artifact's alias leads to it.
UsedVerified ==
    \A p \in Clients : job[p].pc = "ok" /\ Checked(p) =>
        \/ /\ job[p].used = Whole(Request(p).want)
           /\ Request(p).kind = "artifact" => alias = "ours"
        \/ cleanups > 0 /\ job[p].used \in {<<>>, Whole(Request(p).want)}

\* "on mismatch only the .incomplete file is removed and any previous final/alias
\* is preserved": the final file of a fetch that fails, or is still under way, is the
\* one it found or the whole version asked for.  (The alias changes only once a
\* fetch has published; UsedVerified says where it leads.)
FinalKept ==
    \A p \in Clients : job[p].pc \notin {"idle", "ok"} /\ Checked(p) /\ cleanups = 0 =>
        \/ Holds("final") = job[p].start.final
        \/ Holds("final") = Whole(Request(p).want)

\* With a server that has the version asked for and no fault, a fetch succeeds in
\* spite of whatever an earlier one left, but for one case: a full-length wrong
\* .incomplete, which is resumed at its end and refused for ever.
HealthySucceeds ==
    \A p \in Clients :
        /\ job[p].pc = "failed" /\ Checked(p) /\ job[p].healthy
        /\ \A o \in 1 .. Request(p).origins : served[o] = Request(p).want
        =>
            /\ Request(p).origins = 1
            /\ Len(job[p].start.incomplete) >= Size
            /\ job[p].start.incomplete # Whole(Request(p).want) \/ Request(p).force

=============================================================================
