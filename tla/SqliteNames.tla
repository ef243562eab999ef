----------------------------- MODULE SqliteNames -----------------------------
(***************************************************************************)
(* Where SqlxSqliteStore::migrate creates its expiry index                 *)
(* (index_target in sqlx_store.rs).  SQLite wants the schema in front of   *)
(* the index and not of the table, so the store splits the table name it   *)
(* was given, which is SQL text: schema and table are bare or quoted       *)
(* identifiers, and a quoted one may contain dots, brackets and, doubled,  *)
(* the quotes themselves.                                                  *)
(***************************************************************************)
EXTENDS Naturals, Sequences
LOCAL INSTANCE SequencesExt

CONSTANTS
    Quotes,     \* quotes that delimit on both sides: ", ' and `
    Others,     \* characters without meaning to SQL
    MaxContent  \* bound: characters of a quoted identifier before doubling

ASSUME CharactersAssumption ==
    /\ ({"[", "]", "."} \cup Quotes) \cap Others = {}
    /\ {"[", "]", "."} \cap Quotes = {}

Characters == Quotes \cup Others \cup {"[", "]", "."}
Contents == UNION {[1..n -> Characters] : n \in 0..MaxContent}

\* A quoted identifier doubles its own quote; brackets have no such escape.
Escaped(content, q) == FlattenSeq([i \in DOMAIN content |->
    IF content[i] = q THEN <<q, q>> ELSE <<content[i]>>])
Quoted(content, q) == <<q>> \o Escaped(content, q) \o <<q>>
Bracketed(content) == <<"[">> \o content \o <<"]">>

Identifiers ==
    {<<c>> : c \in Others}
    \cup {Quoted(content, q) : content \in Contents, q \in Quotes}
    \cup {Bracketed(content) : content \in {s \in Contents : ~Contains(s, "]")}}

\* What a name means, <<table>> or <<schema, table>>, and how it is written.
Names == {<<t>> : t \in Identifiers} \cup (Identifiers \X Identifiers)
Written(name) == IF Len(name) = 1 THEN name[1] ELSE name[1] \o <<".">> \o name[2]

\* The index takes the schema, which is empty if there is none.
Split(schema, rest) == [schema |-> schema, table |-> rest]

-----------------------------------------------------------------------------

NoQuote == "no quote"

\* The state of the scan: the quotes it is in, whether the next character is
\* the second of a doubled quote, and the dot that splits the name.
Outside == [quote |-> NoQuote, doubled |-> FALSE, dot |-> 0]

\* The bug of brackets that end like quotes.
SameAgain(c) == c

\* What ends the quotes that c opens.
Delimiter(c) == IF c = "[" THEN "]" ELSE c

\* A quote that stands for itself: the next character is the same again.
Doubled(table, quote, p) == quote # "]" /\ p < Len(table) /\ table[p + 1] = quote

\* Inside quotes only the delimiter counts, and closes unless it is doubled.
InsideQuotes(table, scan, p) ==
    IF table[p] # scan.quote THEN scan
    ELSE IF Doubled(table, scan.quote, p) THEN [scan EXCEPT !.doubled = TRUE]
    ELSE [scan EXCEPT !.quote = NoQuote]

\* Outside, a character may open quotes, or split the name.
OutsideQuotes(table, scan, p) ==
    CASE table[p] \in Quotes \cup {"["} -> [scan EXCEPT !.quote = Delimiter(table[p])]
      [] table[p] = "." -> [scan EXCEPT !.dot = p]
      [] OTHER -> scan

\* One character; the scan ends at the dot.
Read(table, scan, p) ==
    CASE scan.dot # 0 -> scan
      [] scan.dot = 0 /\ scan.doubled -> [scan EXCEPT !.doubled = FALSE]
      [] scan.dot = 0 /\ ~scan.doubled /\ scan.quote # NoQuote -> InsideQuotes(table, scan, p)
      [] OTHER -> OutsideQuotes(table, scan, p)

\* Without a dot outside quotes the table is one of the main schema.
IndexTarget(table) ==
    LET dot == FoldLeftDomain(LAMBDA scan, p : Read(table, scan, p), Outside, table).dot
    IN  IF dot = 0 THEN Split(<<>>, table)
        ELSE Split(SubSeq(table, 1, dot - 1), SubSeq(table, dot + 1, Len(table)))

-----------------------------------------------------------------------------

\* The names whose index would not be in the schema of the table, or not on
\* the table itself.
Misplaced ==
    {name \in Names : IndexTarget(Written(name)) #
         (IF Len(name) = 1 THEN Split(<<>>, name[1]) ELSE Split(name[1], name[2]))}
=============================================================================
