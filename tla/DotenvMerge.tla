----------------------------- MODULE DotenvMerge -----------------------------
(***************************************************************************)
(* Selecting and merging dotenv documents: crates/core/src/local/dotenv.rs.*)
(*                                                                         *)
(* A document is a sequence of lines.  A line has the key declaration_key  *)
(* reads off it (None for a comment, a blank line or a text without "="),  *)
(* the text after it, and whether it holds an unmatched quote.  A value    *)
(* whose quote is not closed on its line goes on to the line with the next *)
(* unmatched quote.  Escaping a value puts all of it, line breaks          *)
(* included, on one line that reads back as the same value.                *)
(***************************************************************************)
EXTENDS Naturals, Sequences, FiniteSets, SequencesExt

CONSTANTS
  Keys, Texts, None,
  Existing,      \* the documents that may be at the destination
  Received,      \* the documents that may be received
  MaxLines       \* MAX_PAYLOAD_BYTES, in lines

Line(key, text, quote) == [key |-> key, text |-> text, quote |-> quote]
Comment == Line(None, <<>>, FALSE)

VARIABLES existing, received, mode, step, result

vars == <<existing, received, mode, step, result>>
-----------------------------------------------------------------------------
\* An environment is a set of <<key, value>>, one for each key.
KeysOf(env) == {e[1] : e \in env}
insert(env, key, value) == {e \in env : e[1] # key} \cup {<<key, value>>}

\* External: dotenvy's reader, line by line.
ReadLine(s, line) ==
  CASE s.open = None /\ line = Comment -> s
    [] s.open = None /\ line # Comment /\ line.key = None ->
         [s EXCEPT !.bad = TRUE]
    [] s.open = None /\ line.key # None /\ ~line.quote ->
         [s EXCEPT !.env = insert(@, line.key, line.text)]
    [] s.open = None /\ line.key # None /\ line.quote ->
         [s EXCEPT !.open = line.key, !.value = line.text]
    [] s.open # None /\ ~line.quote ->
         [s EXCEPT !.value = @ \o <<line.key>> \o line.text]
    [] s.open # None /\ line.quote ->
         [s EXCEPT !.env = insert(@, s.open, s.value \o <<line.key>> \o line.text),
                   !.open = None]

\* ParsedEnvironment::parse: the last declaration of a key wins.
parse(document) ==
  FoldLeft(ReadLine, [env |-> {}, open |-> None, value |-> <<>>, bad |-> FALSE],
           document)

malformed(document) == parse(document).bad \/ parse(document).open # None
variables(document) == parse(document).env

normalized_declaration(e) == Line(e[1], e[2], FALSE)
Normalized(env) == LET s == SetToSeq(env)
                   IN [i \in DOMAIN s |-> normalized_declaration(s[i])]

Failed == [ok |-> FALSE, lines |-> <<>>]
Bounded(lines) == IF Len(lines) > MaxLines THEN Failed
                  ELSE [ok |-> TRUE, lines |-> lines]

\* select_dotenv for a list of distinct requested keys.
select_dotenv(document, keys, allow_missing) ==
  IF \/ malformed(document)
     \/ ~allow_missing /\ ~(keys \subseteq KeysOf(variables(document)))
    THEN Failed
    ELSE Bounded(Normalized({e \in variables(document) : e[1] \in keys}))
-----------------------------------------------------------------------------
\* final_declarations: the last line that looks like a declaration of key.
Declares(lines, key) == {i \in DOMAIN lines : lines[i].key = key}
final_declaration_first(lines, key) == Min(Declares(lines, key))
final_declaration(lines, key) == Max(Declares(lines, key))

Updates(old, new, replace) ==
  IF replace THEN {e \in new : e[1] \in KeysOf(old)} ELSE {}

Additions(old, new) == {e \in new : e[1] \notin KeysOf(old)}

\* merge_dotenv: rewrites the final declaration of each key both have, when
\* asked to, and appends the keys the document lacks.
merge_dotenv(document, payload, replace) ==
  LET old == variables(document)
      new == variables(payload)
      changed == Updates(old, new, replace)
      lines == [i \in DOMAIN document |->
                  LET here == {e \in changed :
                                 i = final_declaration(document, e[1])}
                  IN IF here = {} THEN document[i]
                     ELSE normalized_declaration(CHOOSE e \in here : TRUE)]
  IN IF malformed(document) \/ malformed(payload) THEN Failed
     ELSE Bounded(lines \o Normalized(Additions(old, new)))
-----------------------------------------------------------------------------
Init ==
  /\ existing \in Existing /\ received = <<>>
  /\ mode \in {"ReplaceExisting", "KeepExisting"}
  /\ step = "send" /\ result = Failed

\* The sender shares a document, or the keys of it that were asked for.
Send ==
  /\ step = "send"
  /\ \E document \in Received, keys \in SUBSET Keys, allow \in BOOLEAN :
       LET payload == select_dotenv(document, keys, allow)
       IN \/ received' = document
          \/ keys # {} /\ payload.ok /\ received' = payload.lines
  /\ step' = "receive"
  /\ UNCHANGED <<existing, mode, result>>

\* The receiver merges what it received.
Merge ==
  /\ step = "receive"
  /\ result' = merge_dotenv(existing, received, mode = "ReplaceExisting")
  /\ step' = "merged"
  /\ UNCHANGED <<existing, received, mode>>

Next == Send \/ Merge

Spec == Init /\ [][Next]_vars
-----------------------------------------------------------------------------
\* What the merged document means: "Add new keys and update matching keys",
\* or "Add missing keys without changing existing values"
\* (docs/reference/envshare.md).
Meaning(old, new, replace) ==
  IF replace THEN new \cup {e \in old : e[1] \notin KeysOf(new)}
  ELSE old \cup {e \in new : e[1] \notin KeysOf(old)}

\* A merge that succeeds leaves a document that reads back as the two
\* environments combined: the line merge_dotenv rewrites is the one whose
\* value counts, and nothing else changes its value.
MergeIsEffective ==
  step = "merged" /\ result.ok =>
    /\ ~malformed(result.lines)
    /\ variables(result.lines) = Meaning(variables(existing),
                                         variables(received),
                                         mode = "ReplaceExisting")
=============================================================================
