----------------------------- MODULE StartupProofs -----------------------------
(***************************************************************************)
(* Proofs about ConfFile and Startup, for any number of processes: the     *)
(* invariant, and that no text is lost unseen, no credentials are open and *)
(* no failure is silent.                                                   *)
(***************************************************************************)
EXTENDS Startup, TLAPS

-----------------------------------------------------------------------------
(***************************************************************************)
(* Texts.                                                                  *)
(***************************************************************************)
\* The example and the texts made of another are texts.
LEMMA TextsMade ==
  /\ Example \in Texts /\ Legacy \in Texts
  /\ [Example EXCEPT !.form = "blank"] \in Texts
  /\ \A t \in Texts, p \in Procs :
       /\ Spliced(t, p) \in Texts
       /\ Spliced(t, p).creds = p /\ Spliced(t, p).plain = "no"
       /\ Edited(t, p) \subseteq Texts
       /\ \A u \in Edited(t, p) : u.creds \in {t.creds, None} /\ u.plain \in {t.plain, "no", "typed"}
<1>1. Example \in Texts /\ Legacy \in Texts /\ [Example EXCEPT !.form = "blank"] \in Texts
  BY DEF Example, Legacy, Texts
<1>2. ASSUME NEW t \in Texts, NEW p \in Procs
      PROVE  /\ Spliced(t, p) \in Texts
             /\ Spliced(t, p).creds = p /\ Spliced(t, p).plain = "no"
  BY DEF Spliced, Texts
<1>3. ASSUME NEW t \in Texts, NEW p \in Procs, NEW u \in Edited(t, p)
      PROVE  /\ u \in Texts
             /\ u.creds \in {t.creds, None} /\ u.plain \in {t.plain, "no", "typed"}
  BY <1>3 DEF Edited, Texts
<1> QED
  BY <1>1, <1>2, <1>3

\* A file with another text is a file.
LEMMA FilesMade ==
  ASSUME NEW f \in Files, NEW t \in Texts, NEW o \in Procs \cup {None}
  PROVE  /\ [f EXCEPT !.text = t] \in Files
         /\ [f EXCEPT !.text = t].text = t
         /\ [f EXCEPT !.text = t].private = f.private
         /\ [f EXCEPT !.text = t, !.open = o] \in Files
         /\ [f EXCEPT !.text = t, !.open = o].text = t
         /\ [f EXCEPT !.text = t, !.open = o].private = f.private
BY DEF Files

\* A text that the example was laid over is one, without credentials.
LEMMA Laying ==
  ASSUME ConfTypeOK, conf # None, NEW forms \in SUBSET {"blank", "broken", "invalid", "short", "whole"}
  PROVE  /\ Laid(forms) \subseteq Texts
         /\ \A t \in Laid(forms) : t.creds = None
<1>1. conf.text.plain \in {"no", "legacy", "typed"}
  BY DEF ConfTypeOK, Files, Texts
<1> QED
  BY <1>1 DEF Laid, Texts

-----------------------------------------------------------------------------
(***************************************************************************)
(* The file.                                                               *)
(***************************************************************************)
\* What a step does to its process and to no other.
LEMMA Frame ==
  ASSUME ConfTypeOK, NEW p \in Procs, NEW l \in Labels, NEW r \in Texts \cup {None},
         pc' = [pc EXCEPT ![p] = l], raw' = [raw EXCEPT ![p] = r]
  PROVE  /\ pc' \in [Procs -> Labels] /\ raw' \in [Procs -> Texts \cup {None}]
         /\ pc'[p] = l /\ raw'[p] = r
         /\ \A q \in Procs \ {p} : pc'[q] = pc[q] /\ raw'[q] = raw[q]
BY DEF ConfTypeOK

Works == {"edit", "probe", "read", "confirm", "prompt", "persist"}
Holds == {"confirm", "prompt", "persist"}

\* A step that leaves the file alone, and forgets what was read or keeps it.
LEMMA Quiet ==
  ASSUME ConfInv, NEW p \in Procs, NEW l \in Labels,
         pc' = [pc EXCEPT ![p] = l],
         raw' = raw \/ raw' = [raw EXCEPT ![p] = None],
         command' \in [Procs -> Commands],
         UNCHANGED <<conf, example, meant, crossed>>,
         l \in Works => conf # None,
         l \in Holds => raw'[p] # None
  PROVE  ConfInv'
<1>1. raw' = [raw EXCEPT ![p] = raw'[p]] /\ raw'[p] \in {raw[p], None}
  BY DEF ConfInv, ConfTypeOK
<1>2. raw'[p] \in Texts \cup {None}
  BY <1>1 DEF ConfInv, ConfTypeOK
<1>3. /\ pc' \in [Procs -> Labels] /\ raw' \in [Procs -> Texts \cup {None}]
      /\ pc'[p] = l
      /\ \A q \in Procs \ {p} : pc'[q] = pc[q] /\ raw'[q] = raw[q]
  BY <1>1, <1>2, Frame DEF ConfInv
<1>4. ConfTypeOK'
  BY <1>3 DEF ConfInv, ConfTypeOK
<1>5. NothingLost' /\ SecretsArePrivate'
  BY DEF ConfInv, NothingLost, SecretsArePrivate
<1>6. HasFile'
  BY <1>3 DEF ConfInv, HasFile, Works, Holds
<1>7. RawIsPrivate'
  BY <1>1, <1>3 DEF ConfInv, RawIsPrivate
<1> QED
  BY <1>4, <1>5, <1>6, <1>7 DEF ConfInv

\* A process reads the file.
LEMMA Reads ==
  ASSUME ConfInv, NEW p \in Procs, NEW l \in Labels, conf # None,
         pc' = [pc EXCEPT ![p] = l],
         raw' = [raw EXCEPT ![p] = conf.text],
         UNCHANGED <<conf, example, command, meant, crossed>>
  PROVE  ConfInv'
<1>1. conf.text \in Texts /\ conf.text # None
  BY ConfAssumption DEF ConfInv, ConfTypeOK, Files
<1>2. /\ pc' \in [Procs -> Labels] /\ raw' \in [Procs -> Texts \cup {None}]
      /\ pc'[p] = l /\ raw'[p] = conf.text
      /\ \A q \in Procs \ {p} : pc'[q] = pc[q] /\ raw'[q] = raw[q]
  BY <1>1, Frame DEF ConfInv
<1>3. ConfTypeOK'
  BY <1>2 DEF ConfInv, ConfTypeOK
<1>4. NothingLost' /\ SecretsArePrivate'
  BY DEF ConfInv, NothingLost, SecretsArePrivate
<1>5. HasFile'
  BY <1>1, <1>2 DEF ConfInv, HasFile
<1>6. RawIsPrivate'
  BY <1>2 DEF ConfInv, RawIsPrivate, SecretsArePrivate
<1> QED
  BY <1>3, <1>4, <1>5, <1>6 DEF ConfInv

\* The file has another text, or is another; it is as private as it was, or
\* more, if it had been read with credentials.
LEMMA Changes ==
  ASSUME ConfInv, NEW p \in Procs, NEW l \in Labels, NEW r \in Texts \cup {None},
         pc' = [pc EXCEPT ![p] = l], raw' = [raw EXCEPT ![p] = r],
         conf' \in Files, UNCHANGED <<example, command>>,
         meant' \in Texts \cup {None}, crossed' \in BOOLEAN,
         conf # None /\ conf.private => conf'.private,
         conf'.text.creds # None => conf'.private /\ conf'.text.plain # "legacy",
         l \in Holds => r # None,
         r # None /\ r.creds # None => conf'.private /\ r.plain # "legacy",
         NothingLost'
  PROVE  ConfInv'
<1>1. /\ pc' \in [Procs -> Labels] /\ raw' \in [Procs -> Texts \cup {None}]
      /\ pc'[p] = l /\ raw'[p] = r
      /\ \A q \in Procs \ {p} : pc'[q] = pc[q] /\ raw'[q] = raw[q]
  BY Frame DEF ConfInv
<1>2. conf' # None
  BY ConfAssumption
<1>3. ConfTypeOK'
  BY <1>1 DEF ConfInv, ConfTypeOK
<1>4. SecretsArePrivate'
  BY DEF SecretsArePrivate
<1>5. HasFile'
  BY <1>1, <1>2 DEF ConfInv, HasFile, Holds
<1>6. RawIsPrivate'
  <2> SUFFICES ASSUME NEW q \in Procs, raw'[q] # None, raw'[q].creds # None
               PROVE  conf'.private /\ raw'[q].plain # "legacy"
    BY <1>2 DEF RawIsPrivate
  <2>1. CASE q = p
    BY <2>1, <1>1
  <2>2. CASE q # p
    BY <2>2, <1>1 DEF ConfInv, RawIsPrivate
  <2> QED
    BY <2>1, <2>2
<1> QED
  BY <1>3, <1>4, <1>5, <1>6 DEF ConfInv

-----------------------------------------------------------------------------
(***************************************************************************)
(* The steps that write the file.                                          *)
(***************************************************************************)
\* A creation finds no file, so nothing is meant yet.
LEMMA CreateKeeps ==
  ASSUME ConfInv, NEW p \in Procs, Create(p)
  PROVE  ConfInv'
<1> DEFINE t == [Example EXCEPT !.form = "blank"]
<1>1. t \in Texts /\ t.creds = None
  BY TextsMade DEF Example
<1>2. conf' = [text |-> t, private |-> FALSE, open |-> p] /\ conf = None
  BY DEF Create, Free
<1> HIDE DEF t
<1>3. conf' \in Files /\ conf'.text = t
  BY <1>1, <1>2 DEF Files
<1>4. raw[p] \in Texts \cup {None} /\ raw' = [raw EXCEPT ![p] = raw[p]]
  BY DEF Create, ConfInv, ConfTypeOK
<1>5. ~crossed => meant = None
  BY <1>2 DEF ConfInv, NothingLost
<1>6. NothingLost'
  BY <1>5 DEF NothingLost, Create
<1>7. ~(raw[p] # None /\ raw[p].creds # None)
  BY <1>2 DEF ConfInv, RawIsPrivate
<1>8. "write" \in Labels /\ "write" \notin Holds
  BY DEF Labels, Holds
<1> QED
  BY <1>1, <1>2, <1>3, <1>4, <1>6, <1>7, <1>8, Changes
     DEF Create, Goes, ConfInv, ConfTypeOK

\* What a creating process leaves in the file it has open.
LEMMA LeavesKeeps ==
  ASSUME ConfInv, NEW p \in Procs, NEW l \in {"recheck", "failed", "off"},
         NEW S \in SUBSET Texts, \A t \in S : t.creds = None \/ t = conf.text,
         Leaves(p, S), Goes(p, l),
         UNCHANGED <<example, command>>, Forgets(p) \/ raw' = raw,
         meant' \in Texts \cup {None}, crossed' \in BOOLEAN, NothingLost'
  PROVE  ConfInv'
<1>1. l \in Labels /\ l \notin Holds /\ l \notin Works
  BY DEF Labels, Holds, Works
<1>2. PICK r \in {raw[p], None} : raw' = [raw EXCEPT ![p] = r]
  BY DEF Forgets, ConfInv, ConfTypeOK
<1>3. r \in Texts \cup {None} /\ (r # None /\ r.creds # None =>
        conf # None /\ conf.private /\ r.plain # "legacy")
  BY <1>2 DEF ConfInv, ConfTypeOK, RawIsPrivate
<1>4. conf # None => conf \in Files
  BY DEF ConfInv, ConfTypeOK
<1>5. CASE InPlace(p)
  <2>1. PICK t \in S : conf' = [conf EXCEPT !.text = t, !.open = None]
    BY <1>5 DEF Leaves
  <2>2. conf # None
    BY <1>5 DEF InPlace
  <2>3. conf' \in Files /\ conf'.text = t /\ conf'.private = conf.private
    <3>1. conf \in Files /\ t \in Texts /\ None \in Procs \cup {None}
      BY <2>2, <1>4
    <3> QED
      BY <2>1, <3>1 DEF Files
  <2>4. conf'.text.creds # None => conf'.private /\ conf'.text.plain # "legacy"
    BY <2>2, <2>3 DEF ConfInv, SecretsArePrivate
  <2> QED
    BY <1>1, <1>2, <1>3, <2>2, <2>3, <2>4, Changes DEF Goes
<1>6. CASE ~InPlace(p)
  <2>1. conf' = conf
    BY <1>6 DEF Leaves
  <2>2. CASE conf = None
    <3>1. /\ pc' \in [Procs -> Labels] /\ raw' \in [Procs -> Texts \cup {None}]
          /\ pc'[p] = l /\ raw'[p] = r
          /\ \A q \in Procs \ {p} : pc'[q] = pc[q] /\ raw'[q] = raw[q]
      BY <1>1, <1>2, <1>3, Frame DEF Goes, ConfInv
    <3>2. ConfTypeOK'
      BY <2>1, <3>1 DEF ConfInv, ConfTypeOK
    <3>3. SecretsArePrivate' /\ RawIsPrivate'
      BY <1>3, <2>1, <2>2, <3>1 DEF ConfInv, SecretsArePrivate, RawIsPrivate
    <3>4. HasFile'
      BY <2>1, <3>1, <1>1 DEF ConfInv, HasFile, Holds, Works
    <3> QED
      BY <3>2, <3>3, <3>4 DEF ConfInv
  <2>3. CASE conf # None
    <3>1. conf' \in Files
      BY <2>1, <2>3, <1>4
    <3>2. conf'.text.creds # None => conf'.private /\ conf'.text.plain # "legacy"
      BY <2>1, <2>3 DEF ConfInv, SecretsArePrivate
    <3> QED
      BY <1>1, <1>2, <1>3, <2>1, <2>3, <3>1, <3>2, Changes DEF Goes
  <2> QED
    BY <2>2, <2>3
<1> QED
  BY <1>5, <1>6

\* The example is whole once it is written, unless somebody has come between.
LEMMA WriteKeeps ==
  ASSUME ConfInv, NEW p \in Procs, Write(p)
  PROVE  ConfInv'
<1> DEFINE S == IF Untouched THEN {Example} ELSE Laid({"broken", "invalid", "whole"})
<1>1. CASE InPlace(p)
  <2>1. conf # None
    BY <1>1 DEF InPlace
  <2>2. S \in SUBSET Texts /\ \A t \in S : t.creds = None
    <3>1. /\ Laid({"broken", "invalid", "whole"}) \subseteq Texts
          /\ \A t \in Laid({"broken", "invalid", "whole"}) : t.creds = None
      BY <2>1, Laying DEF ConfInv
    <3>2. Example \in Texts /\ Example.creds = None
      BY TextsMade DEF Example
    <3> QED
      BY <3>1, <3>2
  <2>3. meant' \in Texts \cup {None} /\ crossed' \in BOOLEAN
    BY TextsMade DEF Write, ConfInv, ConfTypeOK
  <2>4. NothingLost'
    <3> SUFFICES ASSUME ~crossed', meant' # None
                 PROVE  conf' # None /\ conf'.text = meant'
      BY DEF NothingLost
    <3>1. Untouched /\ meant' = Example
      BY DEF Write
    <3>2. conf' = [conf EXCEPT !.text = Example, !.open = None]
      BY <1>1, <3>1 DEF Write, Leaves
    <3>3. conf \in Files
      BY <2>1 DEF ConfInv, ConfTypeOK
    <3>4. conf' \in Files /\ conf'.text = Example
      BY <3>2, <3>3, TextsMade DEF Files
    <3> QED
      BY <3>1, <3>4, ConfAssumption
  <2>5. Leaves(p, S) /\ Goes(p, "recheck") /\ UNCHANGED <<example, command, raw>>
    BY DEF Write
  <2> HIDE DEF S
  <2> QED
    BY <2>2, <2>3, <2>4, <2>5, LeavesKeeps
<1>2. CASE ~InPlace(p)
  <2>1. Leaves(p, {})
    BY <1>2 DEF Write, Leaves
  <2>2. crossed' = TRUE /\ meant' = None
    BY <1>2 DEF Write
  <2>3. NothingLost'
    BY <2>2 DEF NothingLost
  <2> QED
    BY <2>1, <2>2, <2>3, LeavesKeeps DEF Write
<1> QED
  BY <1>1, <1>2

\* A creation cut short means nothing.
LEMMA CutKeeps ==
  ASSUME ConfInv, NEW p \in Procs, NEW l \in {"failed", "off"}, Cut(p, l)
  PROVE  ConfInv'
<1> DEFINE S == {conf.text} \cup Laid({"broken", "invalid", "short"})
<1>1. meant' = None /\ crossed' \in BOOLEAN
  BY DEF Cut, ConfInv, ConfTypeOK
<1>2. NothingLost'
  BY <1>1 DEF NothingLost
<1>3. CASE InPlace(p)
  <2>1. conf # None
    BY <1>3 DEF InPlace
  <2>2. conf.text \in Texts
    BY <2>1 DEF ConfInv, ConfTypeOK, Files
  <2>3. S \in SUBSET Texts /\ \A t \in S : t.creds = None \/ t = conf.text
    BY <2>1, <2>2, Laying DEF ConfInv
  <2>4. Leaves(p, S) /\ Goes(p, l) /\ Forgets(p) /\ UNCHANGED <<example, command>>
    BY DEF Cut
  <2> HIDE DEF S
  <2> QED
    BY <1>1, <1>2, <2>3, <2>4, LeavesKeeps
<1>4. CASE ~InPlace(p)
  <2>1. Leaves(p, {})
    BY <1>4 DEF Cut, Leaves
  <2> QED
    BY <1>1, <1>2, <2>1, LeavesKeeps DEF Cut
<1> QED
  BY <1>3, <1>4

\* An operator who saves has seen the text, or crosses another.
LEMMA SaveKeeps ==
  ASSUME ConfInv, NEW p \in Procs, Save(p)
  PROVE  ConfInv'
<1>1. PICK t \in Edited(raw[p], p) :
        /\ conf' = [conf EXCEPT !.text = t]
        /\ raw' = [raw EXCEPT ![p] = t]
        /\ crossed' = (crossed \/ conf.text # raw[p])
        /\ meant' = IF crossed' THEN None ELSE t
  BY DEF Save
<1>2. raw[p] \in Texts /\ pc[p] = "edit"
  BY DEF Save, ConfInv, ConfTypeOK
<1>3. t \in Texts /\ t.creds \in {raw[p].creds, None} /\ t.plain \in {raw[p].plain, "no", "typed"}
  BY <1>1, <1>2, TextsMade
<1>4. conf # None /\ conf \in Files
  BY <1>2 DEF ConfInv, ConfTypeOK, HasFile
<1>5. conf' \in Files /\ conf'.text = t /\ conf'.private = conf.private
  BY <1>1, <1>3, <1>4, FilesMade
<1>6. t.creds # None => conf.private /\ t.plain # "legacy"
  BY <1>2, <1>3, ConfAssumption DEF Save, ConfInv, RawIsPrivate
<1>7. meant' \in Texts \cup {None} /\ crossed' \in BOOLEAN
  BY <1>1, <1>3 DEF ConfInv, ConfTypeOK
<1>8. NothingLost'
  BY <1>1, <1>5, ConfAssumption DEF NothingLost
<1>9. pc' = [pc EXCEPT ![p] = "edit"] /\ "edit" \in Labels /\ "edit" \notin Holds
  BY <1>2 DEF Save, ConfInv, ConfTypeOK, Labels, Holds
<1>10. UNCHANGED <<example, command>>
  BY DEF Save
<1> QED
  BY <1>1, <1>3, <1>5, <1>6, <1>7, <1>8, <1>9, <1>10, Changes

\* Credentials go into a file of their own mode, with the rest of the text.
LEMMA PersistKeeps ==
  ASSUME ConfInv, NEW p \in Procs, Persist(p)
  PROVE  ConfInv'
<1> DEFINE t == Spliced(raw[p], p)
<1>1. raw[p] \in Texts /\ conf # None
  BY DEF Persist, ConfInv, ConfTypeOK, HasFile
<1>2. conf.text \in Texts
  BY <1>1 DEF ConfInv, ConfTypeOK, Files
<1>3. t \in Texts /\ t.creds = p /\ t.plain = "no"
  BY <1>1, TextsMade
<1>4. conf' = [text |-> t, private |-> TRUE, open |-> None]
  BY DEF Persist, Mode
<1>5. meant' \in Texts \cup {None} /\ crossed' \in BOOLEAN
  BY <1>2, TextsMade DEF Persist, ConfInv, ConfTypeOK
<1>6. ~crossed' => meant' = t
  BY DEF Persist, ConfInv, NothingLost
<1> HIDE DEF t
<1>7. conf' \in Files /\ conf'.text = t /\ conf'.private = TRUE
  BY <1>3, <1>4 DEF Files
<1>8. NothingLost'
  BY <1>6, <1>7, ConfAssumption DEF NothingLost
<1>9. "ok" \in Labels /\ "ok" \notin Holds
  BY DEF Labels, Holds
<1>10. pc' = [pc EXCEPT ![p] = "ok"] /\ raw' = [raw EXCEPT ![p] = None] /\ UNCHANGED <<example, command>>
  BY DEF Persist, Goes, Forgets
<1> QED
  BY <1>3, <1>5, <1>7, <1>8, <1>9, <1>10, Changes

-----------------------------------------------------------------------------
(***************************************************************************)
(* Every step.                                                             *)
(***************************************************************************)
\* A process goes on to another label and does nothing else.
LEMMA StepsKeep ==
  ASSUME ConfInv, NEW p \in Procs, NEW l \in Labels, Steps(p, l),
         l \in Works => conf # None,
         l \in Holds => raw[p] # None
  PROVE  ConfInv'
BY Quiet DEF Steps, Goes, ConfInv, ConfTypeOK

\* A process goes on to a label where it holds nothing.
LEMMA ForgetsKeeps ==
  ASSUME ConfInv, NEW p \in Procs, NEW l \in {"ok", "failed", "off"},
         Goes(p, l), Forgets(p) \/ raw' = raw,
         UNCHANGED <<conf, example, command, meant, crossed>>
  PROVE  ConfInv'
<1>1. l \in Labels /\ l \notin Works /\ l \notin Holds
  BY DEF Labels, Works, Holds
<1> QED
  BY <1>1, Quiet DEF Goes, Forgets, ConfInv, ConfTypeOK

\* A process is given a command.
LEMMA EnterKeeps ==
  ASSUME ConfInv, NEW p \in Procs, NEW c \in Commands, Enter(p, c)
  PROVE  ConfInv'
<1>1. PICK l \in {"print", "load", "ensure"} : Goes(p, l)
  BY DEF Enter
<1>2. l \in Labels /\ l \notin Works /\ l \notin Holds
  BY DEF Labels, Works, Holds
<1>3. command' \in [Procs -> Commands]
  BY DEF Enter, ConfInv, ConfTypeOK
<1> QED
  BY <1>1, <1>2, <1>3, Quiet DEF Enter, Goes

\* No step of a command breaks what holds of the file.
LEMMA ConfStepKeeps ==
  ASSUME ConfInv, NEW p \in Procs, ConfStep(p)
  PROVE  ConfInv'
<1>1. CASE Ensure(p)
  BY <1>1, StepsKeep DEF Ensure, Labels, Works, Holds
<1>2. CASE Agree(p)
  BY <1>2, StepsKeep DEF Agree, Labels, Works, Holds
<1>3. CASE Decline(p)
  BY <1>3, StepsKeep DEF Decline, Labels, Works, Holds
<1>4. CASE Recheck(p)
  <2>1. First(command[p]) \in {"print", "edit", "probe"}
    BY DEF First
  <2>2. command[p] = "show" => First(command[p]) = "print"
    BY DEF First
  <2> QED
    BY <1>4, <2>1, <2>2, StepsKeep DEF Recheck, Labels, Works, Holds
<1>5. CASE Create(p)
  BY <1>5, CreateKeeps
<1>6. CASE Write(p)
  BY <1>6, WriteKeeps
<1>7. CASE Cut(p, "failed")
  BY <1>7, CutKeeps
<1>8. CASE PrintText(p)
  BY <1>8, StepsKeep DEF PrintText, Labels, Works, Holds
<1>9. CASE OpenEditor(p)
  <2>1. conf # None /\ pc' = [pc EXCEPT ![p] = "edit"] /\ "edit" \in Labels
    BY <1>9 DEF OpenEditor, ConfInv, ConfTypeOK, HasFile, Labels
  <2> QED
    BY <1>9, <2>1, Reads DEF OpenEditor
<1>10. CASE Save(p)
  BY <1>10, SaveKeeps
<1>11. CASE CloseEditor(p)
  BY <1>11, ForgetsKeeps DEF CloseEditor
<1>12. CASE Probe(p)
  <2>1. conf # None
    BY <1>12 DEF Probe, ConfInv, HasFile
  <2> QED
    BY <1>12, <2>1, StepsKeep DEF Probe, Labels, Works, Holds
<1>13. CASE ReadRaw(p)
  <2>1. conf # None
    BY <1>13 DEF ReadRaw, ConfInv, HasFile
  <2>2. PICK l \in {"confirm", "prompt"} : Goes(p, l)
    BY <1>13 DEF ReadRaw
  <2>3. l \in Labels
    BY DEF Labels
  <2> QED
    BY <1>13, <2>1, <2>2, <2>3, Reads DEF ReadRaw, Goes
<1>14. CASE Unparsed(p)
  BY <1>14, StepsKeep DEF Unparsed, Labels, Works, Holds
<1>15. CASE Overwrite(p)
  <2>1. conf # None /\ raw[p] # None
    BY <1>15 DEF Overwrite, ConfInv, HasFile
  <2> QED
    BY <1>15, <2>1, StepsKeep DEF Overwrite, Labels, Works, Holds
<1>16. CASE LeaveUnchanged(p)
  BY <1>16, ForgetsKeeps DEF LeaveUnchanged
<1>17. CASE Encrypt(p)
  <2>1. conf # None /\ raw[p] # None
    BY <1>17 DEF Encrypt, ConfInv, HasFile
  <2> QED
    BY <1>17, <2>1, StepsKeep DEF Encrypt, Labels, Works, Holds
<1>18. CASE Persist(p)
  BY <1>18, PersistKeeps
<1>19. CASE Load(p)
  <2>1. conf # None /\ "loaded" \in Labels
    BY <1>19 DEF Load, Labels
  <2> QED
    BY <1>19, <2>1, Reads DEF Load, Goes
<1>20. CASE Refuse(p)
  BY <1>20, StepsKeep DEF Refuse, Labels, Works, Holds
<1>21. CASE Work(p)
  BY <1>21, ForgetsKeeps DEF Work
<1>22. CASE Fail(p)
  BY <1>22, ForgetsKeeps DEF Fail
<1> QED
  BY <1>1, <1>2, <1>3, <1>4, <1>5, <1>6, <1>7, <1>8, <1>9, <1>10, <1>11, <1>12,
     <1>13, <1>14, <1>15, <1>16, <1>17, <1>18, <1>19, <1>20, <1>21, <1>22 DEF ConfStep

\* A process killed forgets what it read; what it was creating may be cut.
LEMMA KilledKeeps ==
  ASSUME ConfInv, NEW p \in Procs, Killed(p)
  PROVE  ConfInv'
<1>1. CASE Cut(p, "off")
  BY <1>1, CutKeeps
<1>2. CASE ~Cut(p, "off")
  BY <1>2, ForgetsKeeps DEF Killed
<1> QED
  BY <1>1, <1>2

\* Where a step of a command takes its process, and that it moves no other.
LEMMA ConfStepMoves ==
  ASSUME ConfTypeOK, NEW p \in Procs, ConfStep(p)
  PROVE  /\ pc'[p] # "off" /\ pc[p] # "failed"
         /\ pc[p] = "load" => pc'[p] \in {"loaded", "failed"}
         /\ \A q \in Procs \ {p} : pc'[q] = pc[q] /\ raw'[q] = raw[q]
<1>1. CASE Ensure(p) \/ Agree(p) \/ Decline(p) \/ PrintText(p) \/ Probe(p) \/ Unparsed(p)
           \/ Overwrite(p) \/ Encrypt(p) \/ Refuse(p)
  BY <1>1 DEF Ensure, Agree, Decline, PrintText, Probe, Unparsed, Overwrite, Encrypt, Refuse,
              Steps, Goes, ConfTypeOK
<1>2. CASE Recheck(p)
  BY <1>2 DEF Recheck, First, Steps, Goes, ConfTypeOK
<1>3. CASE Create(p) \/ Write(p) \/ Cut(p, "failed") \/ Persist(p)
  BY <1>3 DEF Create, Write, Cut, Persist, Goes, Forgets, ConfTypeOK
<1>4. CASE OpenEditor(p) \/ Save(p)
  <2>1. pc' = pc /\ pc[p] = "edit"
    BY <1>4 DEF OpenEditor, Save
  <2>2. \E r : raw' = [raw EXCEPT ![p] = r]
    BY <1>4 DEF OpenEditor, Save
  <2> QED
    BY <2>1, <2>2 DEF ConfTypeOK
<1>5. CASE CloseEditor(p) \/ ReadRaw(p) \/ LeaveUnchanged(p) \/ Load(p) \/ Work(p)
  BY <1>5 DEF CloseEditor, ReadRaw, LeaveUnchanged, Load, Work, Goes, Forgets, ConfTypeOK
<1>6. CASE Fail(p)
  BY <1>6 DEF Fail, Fallible, Goes, Forgets, ConfTypeOK
<1> QED
  BY <1>1, <1>2, <1>3, <1>4, <1>5, <1>6 DEF ConfStep

-----------------------------------------------------------------------------
(***************************************************************************)
(* The process.                                                            *)
(***************************************************************************)
\* What is to be shown of one process for it to be told of failures.
ToldOK(p) ==
  /\ exit[p] \in {"runtime error", "usage error"} => told[p] # "nothing"
  /\ exit[p] = "success" => told[p] = "nothing"

At(p) == <<pc[p], raw[p], stage[p], logger[p], told[p], exit[p]>>

\* A step of one process leaves the others as they are.
LEMMA OneMoves ==
  ASSUME IInv, ConfInv', StartupTypeOK', NEW p \in Procs,
         \A q \in Procs \ {p} : At(q)' = At(q),
         Staged(p)', ToldOK(p)'
  PROVE  IInv'
<1>1. StageInv'
  <2> SUFFICES ASSUME NEW q \in Procs  PROVE Staged(q)'
    BY DEF StageInv
  <2>1. CASE q = p
    BY <2>1
  <2>2. CASE q # p
    <3>1. /\ pc'[q] = pc[q] /\ raw'[q] = raw[q] /\ stage'[q] = stage[q]
          /\ logger'[q] = logger[q] /\ told'[q] = told[q] /\ exit'[q] = exit[q]
      BY <2>2 DEF At
    <3>2. Staged(q)
      BY DEF IInv, StageInv
    <3> QED
      BY <3>1, <3>2 DEF Staged
  <2> QED
    BY <2>1, <2>2
<1>2. FailureIsTold'
  <2> SUFFICES ASSUME NEW q \in Procs  PROVE ToldOK(q)'
    BY DEF FailureIsTold, ToldOK
  <2>1. CASE q = p
    BY <2>1
  <2>2. CASE q # p
    <3>1. told'[q] = told[q] /\ exit'[q] = exit[q]
      BY <2>2 DEF At
    <3> QED
      BY <3>1 DEF ToldOK, IInv, FailureIsTold
  <2> QED
    BY <2>1, <2>2
<1> QED
  BY <1>1, <1>2 DEF IInv

\* The steps of main that leave the file and the command alone.
LEMMA MainKeeps ==
  ASSUME IInv, NEW p \in Procs,
         Invoke(p) \/ HelpOrVersion(p) \/ ParseFails(p) \/ Rejected(p) \/ HelpFails(p)
           \/ InstallLogger(p) \/ Funnel(p) \/ Ended(p)
  PROVE  IInv'
<1> USE DEF Exits, Reaches, Tells, Gone
<1>1. UNCHANGED confvars
  BY DEF Invoke, HelpOrVersion, ParseFails, Rejected, HelpFails, InstallLogger, Funnel, Ended
<1>2. ConfInv'
  BY <1>1 DEF IInv, ConfInv, ConfTypeOK, NothingLost, SecretsArePrivate, HasFile, RawIsPrivate, confvars
<1>3. StartupTypeOK /\ Staged(p) /\ None \notin Procs
  BY ConfAssumption DEF IInv, StageInv
<1>4. pc'[p] = pc[p] /\ raw'[p] = raw[p]
  BY <1>1 DEF confvars
<1>5. CASE Invoke(p)
  <2>1. StartupTypeOK' /\ \A q \in Procs \ {p} : At(q)' = At(q)
    BY <1>1, <1>3, <1>5 DEF Invoke, StartupTypeOK, Stages, Statuses, At, confvars
  <2>2. Staged(p)' /\ ToldOK(p)'
    BY <1>3, <1>4, <1>5, StatusAssumption
       DEF Invoke, Staged, ToldOK, StartupTypeOK, Stages, Statuses
  <2> QED
    BY <1>2, <2>1, <2>2, OneMoves
<1>6. CASE HelpOrVersion(p)
  <2>1. StartupTypeOK' /\ \A q \in Procs \ {p} : At(q)' = At(q)
    BY <1>1, <1>3, <1>6 DEF HelpOrVersion, StartupTypeOK, Stages, Statuses, At, confvars
  <2>2. Staged(p)' /\ ToldOK(p)'
    BY <1>3, <1>4, <1>6, StatusAssumption
       DEF HelpOrVersion, Staged, ToldOK, StartupTypeOK, Stages, Statuses
  <2> QED
    BY <1>2, <2>1, <2>2, OneMoves
<1>7. CASE ParseFails(p)
  <2>1. StartupTypeOK' /\ \A q \in Procs \ {p} : At(q)' = At(q)
    BY <1>1, <1>3, <1>7 DEF ParseFails, StartupTypeOK, Stages, Statuses, At, confvars
  <2>2. Staged(p)' /\ ToldOK(p)'
    BY <1>3, <1>4, <1>7, StatusAssumption
       DEF ParseFails, Staged, ToldOK, StartupTypeOK, Stages, Statuses
  <2> QED
    BY <1>2, <2>1, <2>2, OneMoves
<1>8. CASE Rejected(p)
  <2>1. StartupTypeOK' /\ \A q \in Procs \ {p} : At(q)' = At(q)
    BY <1>1, <1>3, <1>8 DEF Rejected, StartupTypeOK, Stages, Statuses, At, confvars
  <2>2. Staged(p)' /\ ToldOK(p)'
    BY <1>3, <1>4, <1>8, StatusAssumption
       DEF Rejected, Staged, ToldOK, StartupTypeOK, Stages, Statuses
  <2> QED
    BY <1>2, <2>1, <2>2, OneMoves
<1>9. CASE HelpFails(p)
  <2>1. StartupTypeOK' /\ \A q \in Procs \ {p} : At(q)' = At(q)
    BY <1>1, <1>3, <1>9 DEF HelpFails, StartupTypeOK, Stages, Statuses, At, confvars
  <2>2. Staged(p)' /\ ToldOK(p)'
    BY <1>3, <1>4, <1>9, StatusAssumption
       DEF HelpFails, Staged, ToldOK, StartupTypeOK, Stages, Statuses
  <2> QED
    BY <1>2, <2>1, <2>2, OneMoves
<1>10. CASE InstallLogger(p)
  <2>1. StartupTypeOK' /\ \A q \in Procs \ {p} : At(q)' = At(q)
    BY <1>1, <1>3, <1>10 DEF InstallLogger, StartupTypeOK, Stages, Statuses, At, confvars
  <2>2. Staged(p)' /\ ToldOK(p)'
    BY <1>3, <1>4, <1>10, StatusAssumption
       DEF InstallLogger, Awaits, Staged, ToldOK, StartupTypeOK, Stages, Statuses
  <2> QED
    BY <1>2, <2>1, <2>2, OneMoves
<1>11. CASE Funnel(p)
  <2>1. StartupTypeOK' /\ \A q \in Procs \ {p} : At(q)' = At(q)
    BY <1>1, <1>3, <1>11 DEF Funnel, StartupTypeOK, Stages, Statuses, At, confvars
  <2>2. Staged(p)' /\ ToldOK(p)'
    BY <1>3, <1>4, <1>11, StatusAssumption
       DEF Funnel, Staged, ToldOK, StartupTypeOK, Stages, Statuses
  <2> QED
    BY <1>2, <2>1, <2>2, OneMoves
<1>12. CASE Ended(p)
  <2>1. StartupTypeOK' /\ \A q \in Procs \ {p} : At(q)' = At(q)
    BY <1>1, <1>3, <1>12 DEF Ended, StartupTypeOK, Stages, Statuses, At, confvars
  <2>2. Staged(p)' /\ ToldOK(p)'
    BY <1>3, <1>4, <1>12, StatusAssumption
       DEF Ended, Staged, ToldOK, StartupTypeOK, Stages, Statuses
  <2> QED
    BY <1>2, <2>1, <2>2, OneMoves
<1> QED
  BY <1>5, <1>6, <1>7, <1>8, <1>9, <1>10, <1>11, <1>12

\* A command begins, after its logger or before.
LEMMA DispatchKeeps ==
  ASSUME IInv, NEW p \in Procs, NEW c \in Commands, Dispatch(p, c)
  PROVE  IInv'
<1> USE DEF Reaches
<1>1. ConfInv'
  BY EnterKeeps DEF IInv, Dispatch
<1>2. StartupTypeOK /\ ConfTypeOK /\ Staged(p)
  BY DEF IInv, ConfInv, StageInv
<1>3. pc' \in {[pc EXCEPT ![p] = l] : l \in {"print", "load", "ensure"}} /\ raw' = raw
  BY DEF Dispatch, Enter, Goes
<1>4. c = "work" => pc' = [pc EXCEPT ![p] = "load"]
  BY DEF Dispatch, Enter, Goes
<1>5. StartupTypeOK' /\ \A q \in Procs \ {p} : At(q)' = At(q)
  BY <1>2, <1>3 DEF Dispatch, StartupTypeOK, ConfTypeOK, Stages, Statuses, At
<1>6. pc'[p] \in {"print", "load", "ensure"} /\ (c = "work" => pc'[p] = "load")
  BY <1>2, <1>3, <1>4 DEF ConfTypeOK
<1>7. Staged(p)' /\ ToldOK(p)'
  BY <1>2, <1>6, StatusAssumption DEF Dispatch, Staged, ToldOK, StartupTypeOK, Stages, Statuses
<1> QED
  BY <1>1, <1>5, <1>7, OneMoves

\* A step of a command moves it on; a load goes no further without a logger.
LEMMA RunsKeeps ==
  ASSUME IInv, NEW p \in Procs, Runs(p)
  PROVE  IInv'
<1>1. ConfInv'
  BY ConfStepKeeps DEF IInv, Runs
<1>2. StartupTypeOK /\ Staged(p) /\ ToldOK(p)
  BY DEF IInv, StageInv, FailureIsTold, ToldOK
<1>3. /\ pc'[p] # "off" /\ pc[p] # "failed"
      /\ pc[p] = "load" => pc'[p] \in {"loaded", "failed"}
      /\ \A q \in Procs \ {p} : pc'[q] = pc[q] /\ raw'[q] = raw[q]
  BY ConfStepMoves DEF IInv, ConfInv, Runs
<1>4. StartupTypeOK' /\ \A q \in Procs \ {p} : At(q)' = At(q)
  BY <1>2, <1>3 DEF Runs, StartupTypeOK, At, procvars
<1>5. Staged(p)' /\ ToldOK(p)'
  BY <1>2, <1>3 DEF Runs, procvars, Staged, ToldOK
<1> QED
  BY <1>1, <1>4, <1>5, OneMoves

\* A process leaves its command, well or not, or is killed in it.
LEMMA LeavingKeeps ==
  ASSUME IInv, NEW p \in Procs,
         LoggerFails(p) \/ Succeeds(p) \/ Fails(p) \/ Dies(p)
  PROVE  IInv'
<1> USE DEF Exits, Reaches, Tells, Gone
<1>1. StartupTypeOK /\ ConfTypeOK /\ Staged(p) /\ ToldOK(p)
  BY DEF IInv, ConfInv, StageInv, FailureIsTold, ToldOK
<1>2. pc' = [pc EXCEPT ![p] = "off"] /\ raw' = [raw EXCEPT ![p] = None]
  BY DEF LoggerFails, Succeeds, Fails, Dies, Killed, Cut, Goes, Forgets
<1>3. /\ pc'[p] = "off" /\ raw'[p] = None
      /\ \A q \in Procs \ {p} : pc'[q] = pc[q] /\ raw'[q] = raw[q]
  BY <1>1, <1>2 DEF ConfTypeOK
<1>4. ConfInv'
  <2>1. CASE Dies(p)
    BY <2>1, KilledKeeps DEF IInv, Dies
  <2>2. CASE LoggerFails(p) \/ Succeeds(p) \/ Fails(p)
    <3>1. Goes(p, "off") /\ Forgets(p) /\ UNCHANGED <<conf, example, command, meant, crossed>>
      BY <2>2 DEF LoggerFails, Succeeds, Fails
    <3> QED
      BY <3>1, ForgetsKeeps DEF IInv
  <2> QED
    BY <2>1, <2>2
<1>5. CASE LoggerFails(p)
  <2>1. StartupTypeOK' /\ \A q \in Procs \ {p} : At(q)' = At(q)
    BY <1>1, <1>3, <1>5 DEF LoggerFails, StartupTypeOK, Stages, Statuses, At
  <2>2. Staged(p)' /\ ToldOK(p)'
    BY <1>1, <1>3, <1>5, StatusAssumption DEF LoggerFails, Staged, ToldOK, StartupTypeOK, Stages, Statuses
  <2> QED
    BY <1>4, <2>1, <2>2, OneMoves
<1>6. CASE Succeeds(p)
  <2>1. StartupTypeOK' /\ \A q \in Procs \ {p} : At(q)' = At(q)
    BY <1>1, <1>3, <1>6 DEF Succeeds, StartupTypeOK, Stages, Statuses, At
  <2>2. Staged(p)' /\ ToldOK(p)'
    BY <1>1, <1>3, <1>6, StatusAssumption DEF Succeeds, Staged, ToldOK, StartupTypeOK, Stages, Statuses
  <2> QED
    BY <1>4, <2>1, <2>2, OneMoves
<1>7. CASE Fails(p)
  <2>1. StartupTypeOK' /\ \A q \in Procs \ {p} : At(q)' = At(q)
    BY <1>1, <1>3, <1>7 DEF Fails, StartupTypeOK, Stages, Statuses, At
  <2>2. Staged(p)' /\ ToldOK(p)'
    BY <1>1, <1>3, <1>7 DEF Fails, Awaits, Staged, ToldOK, StartupTypeOK, Stages, Statuses
  <2> QED
    BY <1>4, <2>1, <2>2, OneMoves
<1>8. CASE Dies(p)
  <2>1. StartupTypeOK' /\ \A q \in Procs \ {p} : At(q)' = At(q)
    BY <1>1, <1>3, <1>8 DEF Dies, StartupTypeOK, Stages, Statuses, At
  <2>2. Staged(p)' /\ ToldOK(p)'
    BY <1>1, <1>3, <1>8, StatusAssumption DEF Dies, Staged, ToldOK, StartupTypeOK, Stages, Statuses
  <2> QED
    BY <1>4, <2>1, <2>2, OneMoves
<1> QED
  BY <1>5, <1>6, <1>7, <1>8

-----------------------------------------------------------------------------
(***************************************************************************)
(* The theorems.                                                           *)
(***************************************************************************)
\* The invariant holds at the start.
LEMMA Initially == Init => IInv
<1> SUFFICES ASSUME Init PROVE IInv
  OBVIOUS
<1>1. ConfTypeOK /\ NothingLost /\ SecretsArePrivate
  <2>1. /\ example \in BOOLEAN /\ command \in [Procs -> Commands] /\ pc \in [Procs -> Labels]
        /\ raw \in [Procs -> Texts \cup {None}] /\ crossed \in BOOLEAN
    BY DEF Init, ConfInit, Commands, Labels
  <2>2. CASE conf = None /\ meant = None
    BY <2>1, <2>2 DEF ConfTypeOK, NothingLost, SecretsArePrivate
  <2>3. ASSUME NEW t \in {Example, Legacy},
               conf = [text |-> t, private |-> FALSE, open |-> None], meant = t
        PROVE  ConfTypeOK /\ NothingLost /\ SecretsArePrivate
    <3>1. t \in Texts
      BY TextsMade
    <3>2. t.creds = None
      BY DEF Example, Legacy
    <3>3. conf \in Files /\ conf.text = t
      BY <3>1, <2>3 DEF Files
    <3> QED
      BY <2>1, <2>3, <3>1, <3>2, <3>3, ConfAssumption
         DEF ConfTypeOK, NothingLost, SecretsArePrivate
  <2> QED
    BY <2>2, <2>3 DEF Init, ConfInit
<1>2. HasFile /\ RawIsPrivate
  BY DEF Init, ConfInit, HasFile, RawIsPrivate
<1>3. StartupTypeOK /\ StageInv /\ FailureIsTold
  BY StatusAssumption
     DEF Init, ConfInit, StartupTypeOK, Stages, Statuses, StageInv, Staged, FailureIsTold
<1> QED
  BY <1>1, <1>2, <1>3 DEF IInv, ConfInv

\* Every step keeps it.
LEMMA Inductive == IInv /\ [Next]_vars => IInv'
<1> SUFFICES ASSUME IInv, [Next]_vars PROVE IInv'
  OBVIOUS
<1>1. CASE UNCHANGED vars
  BY <1>1 DEF IInv, ConfInv, ConfTypeOK, NothingLost, SecretsArePrivate, HasFile, RawIsPrivate,
              StartupTypeOK, StageInv, Staged, FailureIsTold, vars, confvars, procvars
<1>2. ASSUME NEW p \in Procs, NEW c \in Commands, Dispatch(p, c)
      PROVE  IInv'
  BY <1>2, DispatchKeeps
<1>3. ASSUME NEW p \in Procs, Runs(p)
      PROVE  IInv'
  BY <1>3, RunsKeeps
<1>4. ASSUME NEW p \in Procs,
             Invoke(p) \/ HelpOrVersion(p) \/ ParseFails(p) \/ Rejected(p) \/ HelpFails(p)
               \/ InstallLogger(p) \/ Funnel(p) \/ Ended(p)
      PROVE  IInv'
  BY <1>4, MainKeeps
<1>5. ASSUME NEW p \in Procs, LoggerFails(p) \/ Succeeds(p) \/ Fails(p) \/ Dies(p)
      PROVE  IInv'
  BY <1>5, LeavingKeeps
<1> QED
  BY <1>1, <1>2, <1>3, <1>4, <1>5 DEF Next

\* The invariant of the configuration file and the processes around it, for
\* any number of them.
THEOREM Invariance == Spec => []IInv
<1> QED
  BY Initially, Inductive, PTL DEF Spec

\* Whatever fails or is killed, the file is what the operations completed have
\* made of it, until one writes over a change it has not seen.
THEOREM NoTextIsLost == Spec => []NothingLost
<1>1. IInv => NothingLost
  BY DEF IInv, ConfInv
<1> QED
  BY <1>1, Invariance, PTL

\* Encrypted credentials are never in a file others may read, nor beside the
\* plaintext of an earlier version.
THEOREM SecretsStayPrivate == Spec => []SecretsArePrivate
<1>1. IInv => SecretsArePrivate
  BY DEF IInv, ConfInv
<1> QED
  BY <1>1, Invariance, PTL

\* Whichever step of a process fails, it has said so when it ends.
THEOREM NoFailureIsSilent == Spec => []FailureIsTold
<1>1. IInv => FailureIsTold
  BY DEF IInv
<1> QED
  BY <1>1, Invariance, PTL
=============================================================================
