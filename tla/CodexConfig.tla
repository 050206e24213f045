----------------------------- MODULE CodexConfig -----------------------------
(***************************************************************************)
(* Triss's registration in ~/.codex/config.toml (src/src/mcp/install.js):  *)
(* install, uninstall, status and the timeout migration that every start   *)
(* of the server runs, beside each other and beside the user's editor.     *)
(* The text is a sequence of lines of the kinds the scanner tells apart;   *)
(* the last line is what follows the last newline, so a file that ends in  *)
(* a newline ends in a blank line.                                         *)
(***************************************************************************)
EXTENDS Naturals, Sequences, SequencesExt

CONSTANTS Registrar,        \* processes of triss that touch the file
          NoConfig,
          Drafts,      \* texts the file may hold at the start
          Saves,       \* texts the editor saves meanwhile
          MaxSaves

\* "quoted" and "array" spellings name the same table as the bare one.
Root == {"root", "quoted root"}
Section == {"section", "quoted section"}
Header == Root \cup Section \cup {"array root", "other"}
\* "quotes" opens or closes a multi-line string; [ and ] an array over lines.
Line == Header \cup {"key", "pin", "legacy timeout", "timeout", "own timeout",
                     "quotes", "[", "]", "blank", "broken"}
TimeoutKey == {"legacy timeout", "timeout", "own timeout"}
Toml == Seq(Line) \ {<<>>}
ConfigFile == [entry : Nat, inode : Nat, link : BOOLEAN, text : Toml]

ASSUME CodexAssumption ==
  /\ Drafts \subseteq Toml /\ Saves \subseteq Toml
  /\ NoConfig \notin ConfigFile /\ MaxSaves \in Nat

Job == {"install", "install with env", "uninstall", "status", "migrate"}
Outcome == {"none", "added", "updated", "removed", "absent", "present", "conflict", "malformed",
            "ambiguous", "custom", "current", "refused"}

VARIABLES
  config,    \* the entry, the file behind it and its text; or NoConfig
  entries,   \* how many entries and files were made
  registrar,      \* process -> what it does and where it is
  saves,     \* saves so far
  lateSave, lostSave   \* history: tools that another write overtook after their last check

codexVars == <<config, entries, registrar, saves, lateSave, lostSave>>

-----------------------------------------------------------------------------
(* scanToml                                                                *)

\* What is open after a line; "broken" stays open to the end.
Lexed(open, line) ==
  IF open # <<>> /\ Last(open) = "broken" THEN open
  ELSE IF open # <<>> /\ Last(open) = "quotes"
       THEN IF line = "quotes" THEN Front(open) ELSE open
  ELSE CASE line \in {"quotes", "["} -> Append(open, line)
         [] line = "]" -> IF open = <<>> THEN <<"broken">> ELSE Front(open)
         [] line = "broken" -> <<"broken">>
         [] OTHER -> open

OpenAfter(lines) ==
  LET open[k \in 0..Len(lines)] == IF k = 0 THEN <<>> ELSE Lexed(open[k - 1], lines[k]) IN open

Malformed(lines) == OpenAfter(lines)[Len(lines)] # <<>>
IsStatement(lines, k) == OpenAfter(lines)[k - 1] = <<>>
HeadersIn(lines, kinds) == {k \in DOMAIN lines : lines[k] \in kinds /\ IsStatement(lines, k)}

Roots(lines) == HeadersIn(lines, Root)
ArrayRoots(lines) == HeadersIn(lines, {"array root"})
LeastOf(S) == CHOOSE k \in S : \A j \in S : k <= j

\* trissBlockAt: from the root to a header of another table, less the blanks before it.
BlockEnd(lines, start) ==
  LET ends == {k \in HeadersIn(lines, Header \ Section) : k > start} \cup {Len(lines) + 1}
      full == {k \in start..(LeastOf(ends) - 1) : k = start \/ lines[k] # "blank"}
  IN CHOOSE k \in full : \A j \in full : j <= k

HasBlock(lines) == Roots(lines) # {}
BlockStart(lines) == LeastOf(Roots(lines))
Pinned(lines) ==
  HasBlock(lines) /\ \E k \in BlockStart(lines)..BlockEnd(lines, BlockStart(lines)) :
                       lines[k] = "pin" /\ IsStatement(lines, k)

\* singleSemanticTrissBlock throws
Refused(lines) == ArrayRoots(lines) # {} \/ \E j, k \in Roots(lines) : j # k

-----------------------------------------------------------------------------
(* renderTrissToml, stripTrissBlock, installCodex                          *)

Blank == <<"blank">>
NoLeadingBlanks(lines) == LET full == {k \in DOMAIN lines : lines[k] # "blank"}
                          IN IF full = {} THEN Blank ELSE SubSeq(lines, LeastOf(full), Len(lines))
IsBlank(lines) == \A k \in DOMAIN lines : lines[k] = "blank"
Unended(lines) == IF Last(lines) = "blank" THEN Front(lines) ELSE lines

Rendered(env) == <<"root", "key", "timeout">> \o (IF env THEN <<"blank", "section", "key">> ELSE <<>>) \o Blank

Stripped(lines) ==
  IF ~HasBlock(lines) THEN lines
  ELSE LET start == BlockStart(lines)
           from == IF start > 1 /\ lines[start - 1] = "blank" THEN start - 1 ELSE start
           before == SubSeq(lines, 1, from - 1)
           after == SubSeq(lines, BlockEnd(lines, start) + 1, Len(lines))
       IN IF before \in {<<>>, Blank} THEN NoLeadingBlanks(after)
          ELSE IF IsBlank(after) THEN Unended(before) \o Blank
          ELSE Unended(before) \o (IF after[1] = "blank" THEN Blank ELSE <<>>) \o NoLeadingBlanks(after)

\* A bug: the old block stays where it was.
AppendedOnly(lines, env) ==
  IF IsBlank(lines) THEN Rendered(env) ELSE Unended(lines) \o Blank \o Rendered(env)

WithBlock(lines, env) ==
  LET rest == Stripped(lines)
      body == Unended(rest)
  IN IF IsBlank(rest) THEN Rendered(env)
     ELSE body \o (IF Last(body) = "blank" THEN <<>> ELSE Blank) \o Rendered(env)

-----------------------------------------------------------------------------
(* migrateCodexToolTimeout                                                 *)

\* Direct keys of the root table alone: the scan stops at the next header of any kind.
TimeoutsOf(lines) ==
  LET start == BlockStart(lines)
      ends == {k \in HeadersIn(lines, Header) : k > start} \cup {Len(lines) + 1}
  IN {k \in start..(LeastOf(ends) - 1) : lines[k] \in TimeoutKey /\ IsStatement(lines, k)}

MigrationVerdict(lines) ==
  IF Malformed(lines) THEN "malformed"
  ELSE IF ArrayRoots(lines) # {} THEN IF HasBlock(lines) THEN "ambiguous" ELSE "absent"
  ELSE IF Refused(lines) THEN "ambiguous"
  ELSE IF ~HasBlock(lines) \/ lines[BlockStart(lines)] = "quoted root" THEN "absent"
  ELSE IF \E j, k \in TimeoutsOf(lines) : j # k THEN "ambiguous"
  ELSE IF TimeoutsOf(lines) = {} THEN "absent"
  ELSE CASE lines[LeastOf(TimeoutsOf(lines))] = "timeout" -> "current"
         [] lines[LeastOf(TimeoutsOf(lines))] = "own timeout" -> "custom"
         [] OTHER -> "updated"

Migrated(lines) == [lines EXCEPT ![LeastOf(TimeoutsOf(lines))] = "timeout"]

-----------------------------------------------------------------------------
(* What a process makes of the text it read: an outcome, and the text it   *)
(* wants to write when that is another.                                    *)

Verdict(job, lines) ==
  IF job = "migrate" THEN MigrationVerdict(lines)
  ELSE IF Malformed(lines) \/ Refused(lines) THEN "refused"
  ELSE CASE job \in {"install", "install with env"} -> IF HasBlock(lines) THEN "updated" ELSE "added"
         [] job = "uninstall" -> IF HasBlock(lines) THEN "removed" ELSE "absent"
         [] job = "status" -> IF HasBlock(lines) THEN "present" ELSE "absent"

Applied(job, lines) ==
  CASE job \in {"install", "install with env"} -> WithBlock(lines, job = "install with env")
    [] job = "uninstall" -> Stripped(lines)
    [] job = "migrate" -> Migrated(lines)

Writes(outcome) == outcome \in {"added", "updated", "removed"}

-----------------------------------------------------------------------------

ToolAt == {"ready", "reading", "re-read", "again", "temp", "recheck", "identity", "rename", "done", "dead"}
CodexTypeOK ==
  /\ config \in ConfigFile \cup {NoConfig}
  /\ \A t \in Registrar : registrar[t].job \in Job /\ registrar[t].at \in ToolAt /\ registrar[t].says \in Outcome
  /\ lateSave \subseteq Registrar /\ lostSave \subseteq Registrar

\* A regular file is its own entry; behind a symbolic link the two differ.
AFile(text) == [entry |-> 0, inode |-> 0, link |-> FALSE, text |-> text]
ALink(text) == [entry |-> 0, inode |-> 1, link |-> TRUE, text |-> text]
CodexInit ==
  /\ config \in {NoConfig} \cup {AFile(text) : text \in Drafts} \cup {ALink(text) : text \in Saves}
  /\ entries = 1 /\ saves = 0
  /\ registrar \in [Registrar -> [job : Job, at : {"ready"}, saw : {NoConfig}, says : {"none"}]]
  /\ lateSave = {} /\ lostSave = {}

At(t, place) == registrar[t].at = place
Goes(t, place) == registrar' = [registrar EXCEPT ![t].at = place]
Ends(t, outcome) == registrar' = [registrar EXCEPT ![t].at = "done", ![t].says = outcome]
ConfigStays == UNCHANGED <<config, entries, saves, lateSave, lostSave>>
SameConfigFile(a, b) ==
  a = b \/ (a # NoConfig /\ b # NoConfig /\ a.entry = b.entry /\ a.inode = b.inode)

\* snapshotCodexConfig captures the identity, then reads; a missing entry ends all but an install.
Capture(t) ==
  /\ At(t, "ready")
  /\ IF config = NoConfig /\ registrar[t].job \notin {"install", "install with env"}
     THEN Ends(t, "absent")
     ELSE registrar' = [registrar EXCEPT ![t].saw = config, ![t].at = IF config = NoConfig THEN "temp" ELSE "reading"]
  /\ ConfigStays

\* Through the resolved target, so what is read is what is there now.
ReadText(t) ==
  /\ At(t, "reading")
  /\ IF config = NoConfig
     THEN IF registrar[t].job \in {"install", "install with env"}
          THEN registrar' = [registrar EXCEPT ![t].saw = NoConfig, ![t].at = "temp"]
          ELSE Ends(t, "absent")
     ELSE registrar' = [registrar EXCEPT ![t].saw.text = config.text, ![t].at = "re-read"]
  /\ ConfigStays

\* The identity again: bytes of another file are never analysed.
Analyse(t) ==
  /\ At(t, "re-read")
  /\ LET outcome == Verdict(registrar[t].job, registrar[t].saw.text)
     IN IF ~SameConfigFile(config, registrar[t].saw)
        THEN Ends(t, IF registrar[t].job = "migrate" THEN "conflict" ELSE "refused")
        ELSE IF ~Writes(outcome) THEN Ends(t, outcome)
        ELSE Goes(t, IF registrar[t].job = "migrate" THEN "again" ELSE "temp")
  /\ ConfigStays

\* The migration's optimistic second snapshot.
ReadAgain(t) ==
  /\ At(t, "again")
  /\ IF config = registrar[t].saw THEN Goes(t, "temp") ELSE Ends(t, "conflict")
  /\ ConfigStays

\* mkdir, the temporary file and its fsync.
WriteTempConfig(t) ==
  /\ At(t, "temp")
  /\ Goes(t, "recheck") \/ Ends(t, "refused")
  /\ ConfigStays

\* A bug: the precondition is taken afresh when the temporary file is there.
RecheckAfresh(t) ==
  /\ At(t, "recheck")
  /\ IF (config = NoConfig) = (registrar[t].saw = NoConfig) THEN Goes(t, "identity") ELSE Ends(t, "refused")
  /\ ConfigStays

RecheckConfig(t) ==
  /\ At(t, "recheck")
  /\ IF config = registrar[t].saw THEN Goes(t, "identity") ELSE Ends(t, "refused")
  /\ ConfigStays

CheckConfigIdentity(t) ==
  /\ At(t, "identity")
  /\ IF SameConfigFile(config, registrar[t].saw) THEN Goes(t, "rename") ELSE Ends(t, "refused")
  /\ ConfigStays

TextToWrite(t) == IF registrar[t].saw = NoConfig THEN Rendered(registrar[t].job = "install with env")
                  ELSE Applied(registrar[t].job, registrar[t].saw.text)

\* rename onto the resolved target, so that a link stays; a new file is linked in, or not at all.
Overtake(t) == lateSave' = lateSave \cup {u \in Registrar \ {t} : registrar[u].at \in {"identity", "rename"}}
RenameConfig(t) ==
  /\ At(t, "rename")
  /\ IF registrar[t].saw = NoConfig /\ config # NoConfig
     THEN Ends(t, "refused") /\ ConfigStays
     ELSE /\ config' = IF config # NoConfig /\ config.link
                       THEN [config EXCEPT !.inode = entries + 1, !.text = TextToWrite(t)]
                       ELSE [entry |-> entries + 1, inode |-> entries + 1, link |-> FALSE,
                             text |-> TextToWrite(t)]
          /\ entries' = entries + 1
          /\ lostSave' = IF config = registrar[t].saw THEN lostSave ELSE lostSave \cup {t}
          /\ Ends(t, IF registrar[t].saw = NoConfig THEN "added" ELSE Verdict(registrar[t].job, registrar[t].saw.text))
          /\ Overtake(t)
          /\ UNCHANGED saves

CodexToolDies(t) ==
  /\ registrar[t].at \in {"temp", "recheck", "rename"}
  /\ Goes(t, "dead") /\ ConfigStays

\* The user saves in place, replaces the file or the link, points the link elsewhere, or deletes.
UserSaves ==
  /\ saves < MaxSaves
  /\ saves' = saves + 1
  /\ \E text \in Saves :
       \/ config # NoConfig /\ config' = [config EXCEPT !.text = text] /\ UNCHANGED entries
       \/ /\ config' = [entry |-> entries + 1, inode |-> entries + 1, link |-> FALSE, text |-> text]
          /\ entries' = entries + 1
       \/ /\ config' = [entry |-> entries + 1, inode |-> entries + 2, link |-> TRUE, text |-> text]
          /\ entries' = entries + 2
       \/ config # NoConfig /\ config' = NoConfig /\ UNCHANGED entries
  /\ lateSave' = lateSave \cup {t \in Registrar : registrar[t].at \in {"identity", "rename"}}
  /\ UNCHANGED <<registrar, lostSave>>

CodexStep(t) ==
  \/ Capture(t) \/ ReadText(t) \/ Analyse(t) \/ ReadAgain(t) \/ WriteTempConfig(t)
  \/ RecheckConfig(t) \/ CheckConfigIdentity(t) \/ RenameConfig(t) \/ CodexToolDies(t)

CodexNext == UserSaves \/ \E t \in Registrar : CodexStep(t)
CodexSpec == CodexInit /\ [][CodexNext]_codexVars

-----------------------------------------------------------------------------
(* Another write is overwritten only when it came after the last check of  *)
(* the text, in the window no portable file operation closes.              *)
OnlyALateSaveIsLost == lostSave \subseteq lateSave

(* What a table holds is told by the last header before it.                *)
Tables(lines) == HeadersIn(lines, Header)
IsForeign(lines, k) ==
  /\ lines[k] # "blank"
  /\ ~\E h \in HeadersIn(lines, Root \cup Section) : h <= k /\ \A j \in Tables(lines) : j <= k => j <= h

(* The lines at the places in K, in their order.                           *)
Picked(lines, K) ==
  LET keep[k \in 0..Len(lines)] ==
        IF k = 0 THEN <<>> ELSE IF k \in K THEN Append(keep[k - 1], lines[k]) ELSE keep[k - 1]
  IN keep[Len(lines)]
Foreign(lines) == Picked(lines, {k \in DOMAIN lines : IsForeign(lines, k)})
Inked(lines) == Picked(lines, {k \in DOMAIN lines : lines[k] # "blank"})

(* Of a file it agrees to rewrite, a process keeps every line of another   *)
(* table in its order, and leaves a file the scanner accepts: with one     *)
(* table of its own after an install, that a second install would leave as *)
(* it is up to blanks, and with none after an uninstall.                   *)
RewriteKeepsTheRest ==
  \A t \in Registrar : At(t, "temp") /\ registrar[t].saw # NoConfig =>
    LET old == registrar[t].saw.text
        new == TextToWrite(t)
    IN /\ ~Malformed(new) /\ ~Refused(new)
       /\ Foreign(new) = Foreign(old)
       /\ registrar[t].job \in {"install", "install with env"} =>
            /\ HasBlock(new) /\ ~Pinned(new)
            /\ MigrationVerdict(new) = "current"
            /\ Inked(Applied(registrar[t].job, new)) = Inked(new)
       /\ registrar[t].job = "uninstall" => ~HasBlock(new)
       /\ registrar[t].job = "migrate" => MigrationVerdict(new) = "current"

CodexInv ==
  /\ CodexTypeOK /\ OnlyALateSaveIsLost /\ RewriteKeepsTheRest
=============================================================================
