---------------------------- MODULE EmacsBuffers ----------------------------
(***************************************************************************)
(* The part of a running Emacs that the operator's transactions are about: *)
(* buffers, the files they visit, and the two hooks the bridge hangs on    *)
(* them.  The human, other programs and the agent all change it.           *)
(*                                                                         *)
(* A buffer's text is a function from regions (Segs) to words, so that two *)
(* edits can touch the same place or different places, and a narrowing is  *)
(* the set of regions it leaves accessible.  The digest of a file          *)
(* (emacs-operator--file-sha256) is the file's contents themselves.        *)
(***************************************************************************)
EXTENDS Integers

CONSTANTS
    Buffers,    \* buffer ids: handed out once and never reused
    Files,      \* file names
    NoFile,     \* buffer-file-name of a buffer that visits no file
    Segs,       \* regions of a buffer
    Words,      \* what a region can hold
    Blank,      \* what a deleted or empty region holds
    InitTexts,  \* the contents the files may have to begin with
    MaxTick     \* bound: the human and the agent stop editing a buffer here

Text == [Segs -> Words]

ASSUME BuffersAssumption ==
    /\ NoFile \notin Files
    /\ Blank \in Words
    /\ InitTexts \subseteq Text
    /\ MaxTick \in Nat

VARIABLES
    buf,        \* buffer id -> what Emacs keeps about the buffer
    disk,       \* file name -> contents of the file
    enabled,    \* emacs-operator-mode is on: hooks installed, bridge listening
    author      \* history: who last changed each region, "human" or "rpc"

emacsVars == <<buf, disk, enabled, author>>

Sources == {"human", "rpc"}     \* emacs-operator--command-source

Buffer == [life     : {"unborn", "live", "killed"},
           text     : Text,
           visible  : SUBSET Segs,          \* the accessible portion
           modified : BOOLEAN,              \* buffer-modified-p
           file     : Files \cup {NoFile},  \* buffer-file-name
           tick     : Nat,                  \* buffer-chars-modified-tick
           humanSeq : Nat,                  \* emacs-operator--human-change-seq
           tracked  : BOOLEAN]              \* after-change hook is installed

BuffersTypeOK ==
    /\ buf \in [Buffers -> Buffer]
    /\ disk \in [Files -> Text]
    /\ enabled \in BOOLEAN
    /\ author \in [Buffers -> [Segs -> Sources]]

Live(b) == buf[b].life = "live"
Visits(b) == buf[b].file # NoFile
Empty == [s \in Segs |-> Blank]

NewBuffer(t, f, hooked) ==
    [life |-> "live", text |-> t, visible |-> Segs, modified |-> FALSE,
     file |-> f, tick |-> 1, humanSeq |-> 0, tracked |-> hooked]

Unborn == [NewBuffer(Empty, NoFile, FALSE) EXCEPT !.life = "unborn"]

(* The mode is on; state-start has hooked the buffers that existed.        *)
BuffersInit ==
    /\ disk \in [Files -> InitTexts]
    /\ buf \in [Buffers -> {Unborn, NewBuffer(Empty, NoFile, TRUE)} \cup
                           {NewBuffer(disk[f], f, TRUE) : f \in Files}]
    /\ enabled = TRUE
    /\ author = [b \in Buffers |-> [s \in Segs |-> "human"]]

(***************************************************************************)
(* One text change made under command source src: the tick moves, and the  *)
(* after-change hook counts the change when the source is the human and    *)
(* the hook is installed in this buffer.                                   *)
(***************************************************************************)
SeqAfter(b, src) ==
    IF src = "human" /\ buf[b].tracked THEN buf[b].humanSeq + 1
                                       ELSE buf[b].humanSeq

Changed(b, t, src) ==
    [buf[b] EXCEPT !.text = t, !.modified = TRUE, !.tick = @ + 1,
                   !.humanSeq = SeqAfter(b, src)]

Attribute(b, t, src) ==
    author' = [author EXCEPT ![b] = [s \in Segs |->
                  IF t[s] = buf[b].text[s] THEN author[b][s] ELSE src]]

WriteRegion(b, s, w, src) ==
    LET t == [buf[b].text EXCEPT ![s] = w] IN
    /\ Live(b)
    /\ buf[b].tick < MaxTick
    /\ s \in buf[b].visible
    /\ w # buf[b].text[s]
    /\ buf' = [buf EXCEPT ![b] = Changed(b, t, src)]
    /\ Attribute(b, t, src)
    /\ UNCHANGED <<disk, enabled>>

HumanEdit(b, s, w) == WriteRegion(b, s, w, "human")

(* narrow-to-region and widen: no change hook, no tick.                    *)
Narrow(b, region) ==
    /\ Live(b)
    /\ region # {} /\ region # buf[b].visible
    /\ buf' = [buf EXCEPT ![b].visible = region]
    /\ UNCHANGED <<disk, enabled, author>>

(* Writing buffer b to file f, narrowed or not: the whole text goes out.   *)
WrittenTo(b, f) ==
    /\ disk' = [disk EXCEPT ![f] = buf[b].text]
    /\ buf' = [buf EXCEPT ![b] = [@ EXCEPT !.modified = FALSE, !.file = f]]
    /\ UNCHANGED <<enabled, author>>

(* save-buffer, from the keyboard or through emacs_command.                *)
Save(b) == Live(b) /\ Visits(b) /\ buf[b].modified /\ WrittenTo(b, buf[b].file)

(* write-file under a new name.                                            *)
WriteFile(b, f) == Live(b) /\ buf[b].file # f /\ WrittenTo(b, f)

(* revert-buffer: the file's text replaces the buffer's under the hooks.   *)
Revert(b) ==
    LET t == disk[buf[b].file] IN
    /\ Live(b) /\ Visits(b) /\ buf[b].text # t
    /\ buf[b].tick < MaxTick
    /\ buf' = [buf EXCEPT ![b] = [Changed(b, t, "human") EXCEPT
                                    !.visible = Segs, !.modified = FALSE]]
    /\ Attribute(b, t, "human")
    /\ UNCHANGED <<disk, enabled>>

(* Another program rewrites a file.                                        *)
ExternalWrite(f, t) ==
    /\ t # disk[f]
    /\ disk' = [disk EXCEPT ![f] = t]
    /\ UNCHANGED <<buf, enabled, author>>

(* A killed buffer's id answers to nothing any more.                       *)
Kill(b) ==
    /\ Live(b)
    /\ buf' = [buf EXCEPT ![b] = [Unborn EXCEPT !.life = "killed"]]
    /\ UNCHANGED <<disk, enabled, author>>

(* find-file runs a major mode, whose hook installs after-change; a buffer *)
(* that Lisp makes with get-buffer-create and leaves without a mode call   *)
(* never gets it.                                                          *)
FindFile(b, f) ==
    /\ buf[b].life = "unborn"
    /\ \A x \in Buffers : Live(x) => buf[x].file # f
    /\ buf' = [buf EXCEPT ![b] = NewBuffer(disk[f], f, enabled)]
    /\ UNCHANGED <<disk, enabled, author>>

GetBufferCreate(b) ==
    /\ buf[b].life = "unborn"
    /\ buf' = [buf EXCEPT ![b] = NewBuffer(Empty, NoFile, FALSE)]
    /\ UNCHANGED <<disk, enabled, author>>

(* A major mode is set: after-change-major-mode-hook hooks the buffer.     *)
SetMajorMode(b) ==
    /\ Live(b) /\ enabled /\ ~buf[b].tracked
    /\ buf' = [buf EXCEPT ![b].tracked = TRUE]
    /\ UNCHANGED <<disk, enabled, author>>

HumanStep ==
    \E b \in Buffers :
        \/ \E s \in Segs, w \in Words : HumanEdit(b, s, w)
        \/ \E region \in SUBSET Segs : Narrow(b, region)
        \/ Save(b)
        \/ \E f \in Files : WriteFile(b, f)
        \/ Revert(b)
        \/ Kill(b)
        \/ \E f \in Files : FindFile(b, f)
        \/ GetBufferCreate(b)
        \/ SetMajorMode(b)

ForeignStep == \E f \in Files, t \in InitTexts : ExternalWrite(f, t)

=============================================================================
