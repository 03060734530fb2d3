----------------------------- MODULE TmpRename -----------------------------
(***************************************************************************)
(* How the wizard and its CLI replace a file under /shared:                *)
(*                                                                         *)
(*     tmp = path.with_suffix(".tmp"); tmp.write_text(...); tmp.chmod(...) *)
(*     tmp.replace(path)                                                   *)
(*                                                                         *)
(* The temporary name is the same for every writer.  Alone, a writer       *)
(* changes the file in one step.  Two at once write one inode, and the     *)
(* first to rename it moves what the other is still writing.               *)
(***************************************************************************)
CONSTANTS Absent,   \* no such file
          Empty,    \* just created or truncated
          Garbage,  \* the end of one text after a whole other one
          Ragged    \* may two texts differ in length?

Unreadable == {Absent, Empty, Garbage}   \* what a reader takes for "no data"

\* live: what the name holds; tmp: what the temporary name holds; at[w]: which
\* of them is the file writer w has open ("gone": neither, its name was reused).
File(Writers, Contents) ==
    [live : Unreadable \cup Contents,
     tmp : Unreadable \cup Contents,
     at : [Writers -> {"closed", "tmp", "live", "gone"}]]

NoFile(Writers) == [live |-> Absent, tmp |-> Absent, at |-> [w \in Writers |-> "closed"]]

\* open(tmp, "w")
Opened(f, w) == [live |-> f.live, tmp |-> Empty, at |-> [f.at EXCEPT ![w] = "tmp"]]

\* Text written from the start of a file that others have written too.
Over(old, text) == IF old = Empty \/ ~Ragged THEN {text} ELSE {text, Garbage}

\* write and close: the files that may result.
Filled(f, w, text) ==
    LET at == [f.at EXCEPT ![w] = "closed"]
    IN CASE f.at[w] = "tmp" -> {[live |-> f.live, tmp |-> t, at |-> at] : t \in Over(f.tmp, text)}
         [] f.at[w] = "live" -> {[live |-> t, tmp |-> f.tmp, at |-> at] : t \in Over(f.live, text)}
         [] OTHER -> {[live |-> f.live, tmp |-> f.tmp, at |-> at]}

\* The writers die, or their write fails: the file is closed as it is.
Closed(f, Dead) ==
    [live |-> f.live, tmp |-> f.tmp,
     at |-> [w \in DOMAIN f.at |-> IF w \in Dead THEN "closed" ELSE f.at[w]]]

\* replace(tmp, path), when there is a tmp: open files keep their inode.
Replaced(f) ==
    [live |-> f.tmp, tmp |-> Absent,
     at |-> [w \in DOMAIN f.at |->
               CASE f.at[w] = "tmp" -> "live"
                 [] f.at[w] = "live" -> "gone"
                 [] OTHER -> f.at[w]]]

\* unlink(path), when there is one.
Unlinked(f) ==
    [live |-> Absent, tmp |-> f.tmp,
     at |-> [w \in DOMAIN f.at |-> IF f.at[w] = "live" THEN "gone" ELSE f.at[w]]]
=============================================================================
