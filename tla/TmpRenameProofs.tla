-------------------------- MODULE TmpRenameProofs --------------------------
(***************************************************************************)
(* What the operations of TmpRename keep, whoever interleaves them.        *)
(***************************************************************************)
EXTENDS TmpRename, TLAPS

\* Every operation on a file leaves a file: its types are those of File.
LEMMA FileTyping ==
    ASSUME NEW Writers, NEW Contents,
           NEW f \in File(Writers, Contents), NEW w \in Writers
    PROVE  /\ Opened(f, w) \in File(Writers, Contents)
           /\ \A text \in Contents : Filled(f, w, text) \subseteq File(Writers, Contents)
           /\ \A Dead : Closed(f, Dead) \in File(Writers, Contents)
           /\ Replaced(f) \in File(Writers, Contents)
  <1>1. Opened(f, w) \in File(Writers, Contents)
    BY DEF Opened, File, Unreadable
  <1>2. ASSUME NEW text \in Contents
        PROVE  Filled(f, w, text) \subseteq File(Writers, Contents)
    <2>1. \A old : Over(old, text) \subseteq Unreadable \cup Contents
      BY DEF Over, Unreadable
    <2>2. [f.at EXCEPT ![w] = "closed"] \in [Writers -> {"closed", "tmp", "live", "gone"}]
      BY DEF File
    <2>3. f.live \in Unreadable \cup Contents /\ f.tmp \in Unreadable \cup Contents
      BY DEF File
    <2>4. CASE f.at[w] = "tmp"
      BY <2>1, <2>2, <2>3, <2>4 DEF Filled, File
    <2>5. CASE f.at[w] = "live"
      BY <2>1, <2>2, <2>3, <2>5 DEF Filled, File
    <2>6. CASE f.at[w] \notin {"tmp", "live"}
      BY <2>2, <2>3, <2>6 DEF Filled, File
    <2>7. QED
      BY <2>4, <2>5, <2>6
  <1>3. \A Dead : Closed(f, Dead) \in File(Writers, Contents)
    BY DEF Closed, File
  <1>4. Replaced(f) \in File(Writers, Contents)
    BY DEF Replaced, File, Unreadable
  <1>5. QED
    BY <1>1, <1>2, <1>3, <1>4

\* A property of the texts that readers see (what Unreadable stands for included)
\* survives every operation that only writes texts with that property.
LEMMA TextsKept ==
    ASSUME NEW Writers, NEW Contents, NEW Good,
           NEW f \in File(Writers, Contents), NEW w \in Writers,
           f.live \in Good, f.tmp \in Good, Unreadable \subseteq Good
    PROVE  /\ Opened(f, w).live \in Good /\ Opened(f, w).tmp \in Good
           /\ \A text \in Good : \A g \in Filled(f, w, text) : g.live \in Good /\ g.tmp \in Good
           /\ \A Dead : Closed(f, Dead).live \in Good /\ Closed(f, Dead).tmp \in Good
           /\ Replaced(f).live \in Good /\ Replaced(f).tmp \in Good
  <1>1. Opened(f, w).live \in Good /\ Opened(f, w).tmp \in Good
    BY DEF Opened, Unreadable
  <1>2. \A text \in Good : \A g \in Filled(f, w, text) : g.live \in Good /\ g.tmp \in Good
    BY DEF Filled, Over, Unreadable
  <1>3. \A Dead : Closed(f, Dead).live \in Good /\ Closed(f, Dead).tmp \in Good
    BY DEF Closed
  <1>4. Replaced(f).live \in Good /\ Replaced(f).tmp \in Good
    BY DEF Replaced, Unreadable
  <1>5. QED
    BY <1>1, <1>2, <1>3, <1>4
=============================================================================
