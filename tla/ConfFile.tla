------------------------------- MODULE ConfFile -------------------------------
(***************************************************************************)
(* The configuration file, and what the processes of the program do with   *)
(* it: the conf command creates it from the example, shows it, has it      *)
(* edited and puts encrypted credentials into it, and every other command  *)
(* loads it.  Startup models the process around these operations.          *)
(*                                                                         *)
(* The editor is another program; it keeps the file's mode.                *)
(***************************************************************************)

CONSTANTS Procs, None

(***************************************************************************)
(* A text is blank, not TOML, not a configuration, one that lacks what may *)
(* be lacking (short), or whole.  It may hold credentials in plaintext,    *)
(* from a version that had no others or typed in; and encrypted ones, and  *)
(* the rest of it, are somebody's.  Plaintext is in a standard table,      *)
(* [maxmind], as in the example and the versions before; an inline table,  *)
(* from which splice_credentials removes nothing, is left out.             *)
(***************************************************************************)
Texts ==
  [form  : {"blank", "broken", "invalid", "short", "whole"},
   plain : {"no", "legacy", "typed"},
   creds : Procs \cup {None},
   rest  : Procs \cup {None}]

Example == [form |-> "whole", plain |-> "no", creds |-> None, rest |-> None]
Legacy  == [Example EXCEPT !.plain = "legacy"]

\* A file has a mode (0600 or 0644), and the process that creates it still
\* has it open.
Files == [text : Texts, private : BOOLEAN, open : Procs \cup {None}]

ASSUME ConfAssumption == None \notin Procs \cup Texts \cup Files

VARIABLES
  conf,     \* the file
  example,  \* the example is installed
  command,  \* what each process was asked to do
  pc,
  raw,      \* the text it has read, or has in the editor
  meant,    \* the text as of the last operation completed; None before any,
  crossed   \* or when one has undone what it had not seen

confvars == <<conf, example, command, pc, raw, meant, crossed>>

Commands == {"default", "show", "edit", "set credentials", "work"}

Labels == {"off", "ensure", "asked", "create", "write", "recheck", "print", "edit",
           "probe", "read", "confirm", "prompt", "persist", "load", "loaded", "ok", "failed"}

ConfTypeOK ==
  /\ conf \in Files \cup {None}
  /\ example \in BOOLEAN
  /\ command \in [Procs -> Commands]
  /\ pc \in [Procs -> Labels]
  /\ raw \in [Procs -> Texts \cup {None}]
  /\ meant \in Texts \cup {None}
  /\ crossed \in BOOLEAN

ConfInit ==
  /\ \/ conf = None /\ meant = None
     \/ \E t \in {Example, Legacy} :
          conf = [text |-> t, private |-> FALSE, open |-> None] /\ meant = t
  /\ example \in BOOLEAN
  /\ command = [p \in Procs |-> "work"]
  /\ pc = [p \in Procs |-> "off"]
  /\ raw = [p \in Procs |-> None]
  /\ crossed = FALSE

Goes(p, l) == pc' = [pc EXCEPT ![p] = l]

\* The process ends, or has no more use for what it has read.
Forgets(p) == raw' = [raw EXCEPT ![p] = None]

Steps(p, l) == Goes(p, l) /\ UNCHANGED <<conf, example, command, raw, meant, crossed>>

Enter(p, c) ==
  /\ pc[p] = "off"
  /\ command' = [command EXCEPT ![p] = c]
  /\ Goes(p, IF c = "default" THEN "print" ELSE IF c = "work" THEN "load" ELSE "ensure")
  /\ UNCHANGED <<conf, example, raw, meant, crossed>>

\* What a command goes on to when it has a file, or does without.
First(c) == IF c = "show" THEN "print" ELSE IF c = "edit" THEN "edit" ELSE "probe"

(***************************************************************************)
(* Creating the file from the example.                                     *)
(***************************************************************************)
Ensure(p) ==
  /\ pc[p] = "ensure"
  /\ Steps(p, IF conf # None THEN "recheck" ELSE "asked")

Agree(p) == pc[p] = "asked" /\ Steps(p, "create")

Decline(p) == pc[p] = "asked" /\ Steps(p, "recheck")

\* Editing and setting credentials take a file that is there, whoever made it.
Recheck(p) ==
  /\ pc[p] = "recheck"
  /\ Steps(p, IF conf # None \/ command[p] = "show" THEN First(command[p]) ELSE "failed")

\* Faulty: what is there is truncated.
FreeNever == TRUE

\* create_new: nothing has appeared since the test.
Free == conf = None

Create(p) ==
  /\ pc[p] = "create"
  /\ example /\ Free
  /\ conf' = [text |-> [Example EXCEPT !.form = "blank"], private |-> FALSE, open |-> p]
  /\ Goes(p, "write")
  /\ UNCHANGED <<example, command, raw, meant, crossed>>

\* The file p has open is still the one in place.
InPlace(p) == conf # None /\ conf.open = p

\* A file that is still as it was created; else somebody's words are lost.
Untouched == conf.text = [Example EXCEPT !.form = "blank"]

\* The example laid over a text, the end of which may stick out.
Laid(forms) ==
  [form : forms, plain : {"no", conf.text.plain}, creds : {None}, rest : {None}]

\* What a process writes goes into the file it has open, in place or not.
Leaves(p, texts) ==
  IF InPlace(p)
  THEN \E t \in texts : conf' = [conf EXCEPT !.text = t, !.open = None]
  ELSE UNCHANGED conf

Write(p) ==
  /\ pc[p] = "write"
  /\ Leaves(p, IF Untouched THEN {Example} ELSE Laid({"broken", "invalid", "whole"}))
  /\ crossed' = (crossed \/ ~(InPlace(p) /\ Untouched))
  /\ meant' = IF crossed' THEN None ELSE Example
  /\ Goes(p, "recheck")
  /\ UNCHANGED <<example, command, raw>>

\* The write fails, or the process is killed, part way; what is there by then
\* may pass for a configuration.
Cut(p, l) ==
  /\ pc[p] = "write"
  /\ Leaves(p, {conf.text} \cup Laid({"broken", "invalid", "short"}))
  /\ crossed' = (crossed \/ ~(InPlace(p) /\ Untouched))
  /\ meant' = None
  /\ Goes(p, l) /\ Forgets(p)
  /\ UNCHANGED <<example, command>>

(***************************************************************************)
(* Showing and editing.                                                    *)
(***************************************************************************)
PrintText(p) ==
  /\ pc[p] = "print"
  /\ command[p] = "default" => example
  /\ Steps(p, "ok")

OpenEditor(p) ==
  /\ pc[p] = "edit" /\ raw[p] = None
  /\ raw' = [raw EXCEPT ![p] = conf.text]
  /\ UNCHANGED <<conf, example, command, pc, meant, crossed>>

\* What the operator makes of a text.
Edited(t, p) ==
  [form : {"broken", "invalid", "whole"}, plain : {t.plain, "no", "typed"},
   creds : {t.creds, None}, rest : {p}]

Save(p) ==
  /\ pc[p] = "edit" /\ raw[p] # None
  /\ \E t \in Edited(raw[p], p) :
       /\ conf' = [conf EXCEPT !.text = t]
       /\ raw' = [raw EXCEPT ![p] = t]
       /\ crossed' = (crossed \/ conf.text # raw[p])
       /\ meant' = IF crossed' THEN None ELSE t
  /\ UNCHANGED <<example, command, pc>>

CloseEditor(p) ==
  /\ pc[p] = "edit" /\ raw[p] # None
  /\ Goes(p, "ok") /\ Forgets(p)
  /\ UNCHANGED <<conf, example, command, meant, crossed>>

(***************************************************************************)
(* Setting credentials.                                                    *)
(***************************************************************************)
\* A terminal, and a directory that takes a file.
Probe(p) == pc[p] = "probe" /\ Steps(p, "read")

\* A text that parses, as TOML, is worked on, a blank one too.
ReadRaw(p) ==
  /\ pc[p] = "read"
  /\ conf.text.form # "broken"
  /\ raw' = [raw EXCEPT ![p] = conf.text]
  /\ Goes(p, IF conf.text.creds # None THEN "confirm" ELSE "prompt")
  /\ UNCHANGED <<conf, example, command, meant, crossed>>

Unparsed(p) ==
  /\ pc[p] = "read"
  /\ conf.text.form = "broken"
  /\ Steps(p, "failed")

Overwrite(p) == pc[p] = "confirm" /\ Steps(p, "prompt")

LeaveUnchanged(p) ==
  /\ pc[p] = "confirm"
  /\ Goes(p, "ok") /\ Forgets(p)
  /\ UNCHANGED <<conf, example, command, meant, crossed>>

\* Account, key and a passphrase typed twice alike.
Encrypt(p) == pc[p] = "prompt" /\ Steps(p, "persist")

\* Faulty: the plaintext stays beside what replaces it.
SplicedBeside(t, p) ==
  [t EXCEPT !.creds = p, !.form = IF t.form = "blank" THEN "invalid" ELSE @]

\* splice_credentials: the table takes the place of another, and of the
\* plaintext; alone in a file it makes no configuration.
Spliced(t, p) ==
  [t EXCEPT !.creds = p, !.plain = "no", !.form = IF t.form = "blank" THEN "invalid" ELSE @]

\* Faulty: the mode of the file replaced.
ModeKept == conf.private

\* The mode of the file that is renamed into place.
Mode == TRUE

Persist(p) ==
  /\ pc[p] = "persist"
  /\ conf' = [text |-> Spliced(raw[p], p), private |-> Mode, open |-> None]
  /\ crossed' = (crossed \/ conf.text # raw[p])
  /\ meant' = IF crossed' THEN None ELSE Spliced(IF meant = None THEN conf.text ELSE meant, p)
  /\ Goes(p, "ok") /\ Forgets(p)
  /\ UNCHANGED <<example, command>>

(***************************************************************************)
(* Loading it.                                                             *)
(***************************************************************************)
\* The tables that must be there are, and say what they must.
Valid(t) == t.form \in {"short", "whole"}

\* Credentials in plaintext, of an earlier version or typed in.
HoldsPlaintext(t) == t.plain # "no"

\* Plaintext credentials are fields that are not known.
Accepted(t) == Valid(t) /\ ~HoldsPlaintext(t)

Load(p) ==
  /\ pc[p] = "load"
  /\ conf # None /\ Accepted(conf.text)
  /\ raw' = [raw EXCEPT ![p] = conf.text]
  /\ Goes(p, "loaded")
  /\ UNCHANGED <<conf, example, command, meant, crossed>>

Refuse(p) ==
  /\ pc[p] = "load"
  /\ ~(conf # None /\ Accepted(conf.text))
  /\ Steps(p, "failed")

\* A fetch decrypts the credentials it has loaded; what else there is to do
\* is in Pipeline.
Work(p) ==
  /\ pc[p] = "loaded"
  /\ Goes(p, "ok") /\ Forgets(p)
  /\ UNCHANGED <<conf, example, command, meant, crossed>>

(***************************************************************************)
(* Failures, and the end.                                                  *)
(***************************************************************************)
\* Whatever reads, asks, probes or writes beside the file may fail: there is no
\* terminal, no permission, no example, no answer, no space, no editor.
Fallible == {"asked", "create", "print", "edit", "probe", "read", "confirm",
             "prompt", "persist", "load", "loaded"}

Fail(p) ==
  /\ pc[p] \in Fallible
  /\ Goes(p, "failed") /\ Forgets(p)
  /\ UNCHANGED <<conf, example, command, meant, crossed>>

\* Any step but the write of a new file is done or not done.
Killed(p) ==
  \/ /\ pc[p] \notin {"off", "write"}
     /\ Goes(p, "off") /\ Forgets(p)
     /\ UNCHANGED <<conf, example, command, meant, crossed>>
  \/ Cut(p, "off")

ConfStep(p) ==
  \/ Ensure(p) \/ Agree(p) \/ Decline(p) \/ Recheck(p)
  \/ Create(p) \/ Write(p) \/ Cut(p, "failed")
  \/ PrintText(p) \/ OpenEditor(p) \/ Save(p) \/ CloseEditor(p)
  \/ Probe(p) \/ ReadRaw(p) \/ Unparsed(p) \/ Overwrite(p) \/ LeaveUnchanged(p)
  \/ Encrypt(p) \/ Persist(p)
  \/ Load(p) \/ Refuse(p) \/ Work(p)
  \/ Fail(p)

-----------------------------------------------------------------------------
(***************************************************************************)
(* Properties.                                                             *)
(***************************************************************************)
\* The file is what the operations completed on it have made of it, one after
\* the other: a creation keeps what is there, credentials set keep the rest, no
\* failure or kill leaves half a text for a whole one; until an operation, here
\* or in an editor, writes back a text that another has changed since it was
\* read (set_credentials, create_new_file).
NothingLost == ~crossed /\ meant # None => conf # None /\ conf.text = meant

\* Encrypted credentials are in a file that only its owner reads, and not
\* beside the plaintext they were to replace (credentials_temp_file,
\* splice_credentials).
SecretsArePrivate ==
  conf # None /\ conf.text.creds # None => conf.private /\ conf.text.plain # "legacy"

(***************************************************************************)
(* What the argument rests on.                                             *)
(***************************************************************************)
\* Who works on the file has seen that it is there; nothing removes it.
HasFile ==
  \A p \in Procs :
    /\ pc[p] \in {"edit", "probe", "read", "confirm", "prompt", "persist"} => conf # None
    /\ pc[p] \in {"confirm", "prompt", "persist"} => raw[p] # None

\* A text read with credentials in it was in a file that is private, and stays
\* so; nor had it the plaintext of an earlier version.
RawIsPrivate ==
  \A p \in Procs :
    raw[p] # None /\ raw[p].creds # None =>
      conf # None /\ conf.private /\ raw[p].plain # "legacy"

ConfInv == ConfTypeOK /\ NothingLost /\ SecretsArePrivate /\ HasFile /\ RawIsPrivate
=============================================================================
