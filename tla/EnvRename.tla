----------------------------- MODULE EnvRename ------------------------------
(***************************************************************************)
(* Renaming an environment in a checkout (src/internal/cli/envrename.go,   *)
(* envrename/journal.go, keystore/rename.go).  The module has no state: a  *)
(* checkout is a record, and each operator is one step of the command that *)
(* survives a crash or not.                                                *)
(*                                                                         *)
(* A file is the set of paths that name its content.  Each step of Apply   *)
(* is one link or unlink; the marker, esec.toml, is replaced in one write. *)
(* Left out: guarded keys, seals (renamed like files, with new content),   *)
(* and people who edit a file meanwhile, on which Apply stops.             *)
(***************************************************************************)
EXTENDS Naturals

CONSTANTS
    NFiles,        \* how many files the plan names
    NoJournal      \* no interrupted rename

ASSUME FilesAssumption == NFiles \in Nat

Files == 1..NFiles

\* A checkout that was never renamed.  run tells of the running command: it
\* asks the vault, or has its consent and is about to change this checkout.
\* A crash leaves all the rest.
Fresh == [journal |-> NoJournal, files |-> [f \in Files |-> {"old"}],
          marker |-> "old", run |-> "none"]

\* The plan is saved before anything is changed anywhere; the vault is next.
Plan(c, journal) == [c EXCEPT !.journal = journal, !.run = "vault"]

Running(c, where) == [journal |-> c.journal, files |-> c.files, marker |-> c.marker, run |-> where]

Confirmed(c) == Running(c, "here")

Stopped(c) == Running(c, "none")

\* The named entry of the keyring moves; ok says whether it may.  A rerun
\* finds it moved already, and both names taken is a conflict.
KeyringAllows(cur, j, none) ==
    /\ cur[j.old] = none \/ (cur[j.old] = j.key /\ cur[j.new] = none)
    /\ cur[j.new] \in {none, j.key}

RenameEntry(cur, j, none) ==
    IF cur[j.old] = none THEN cur ELSE [cur EXCEPT ![j.new] = cur[j.old], ![j.old] = none]

Moved(c) == \A f \in Files : c.files[f] = {"new"}

\* The first file of the plan that is not at its new path alone.
FirstLeft(c) == CHOOSE f \in Files :
    /\ c.files[f] # {"new"}
    /\ \A g \in Files : c.files[g] # {"new"} => f <= g

\* Mutant: the old path goes before the new one is there.
UnlinkFirst(c) ==
    LET f == FirstLeft(c)
    IN  [c EXCEPT !.files[f] = IF "old" \in @ THEN {} ELSE {"new"}]

\* One link or one unlink, whichever is next; the link never overwrites.
PublishStep(c) ==
    LET f == FirstLeft(c)
    IN  [c EXCEPT !.files[f] = IF "new" \in @ THEN {"new"} ELSE {"old", "new"}]

WriteMarker(c) == [c EXCEPT !.marker = "new"]

\* The journal goes last.
Finish(c) == [c EXCEPT !.journal = NoJournal, !.run = "none"]

\* Apply, then the removal of the journal: its next write.
ApplyStep(c) ==
    IF ~Moved(c) THEN PublishStep(c)
    ELSE IF c.marker = "old" THEN WriteMarker(c)
    ELSE Finish(c)

\* At most two writes for each file, the marker and the journal.
MaxWrites == 2 * NFiles + 2

\* The checkout after each number of writes.  Nobody else reads it, so a run
\* to the end, or to where it is stopped, is one step.
After(c) ==
    LET w[k \in 0..MaxWrites] ==
            IF k = 0 THEN c
            ELSE IF w[k - 1].journal = NoJournal THEN w[k - 1] ELSE ApplyStep(w[k - 1])
    IN  w
=============================================================================
