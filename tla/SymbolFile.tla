----------------------------- MODULE SymbolFile -----------------------------
(***************************************************************************)
(* The reader of compiled Mesa files (src/bcdFile).  A file is a BCD, with  *)
(* its tables, and a symbol segment, with its own.  A table is a block of   *)
(* records, each known by where in the block it starts.  The reader finds   *)
(* that out only by reading: a record begins where the one before ended.    *)
(*                                                                          *)
(* Records name each other by Index objects.  Each registers itself, in a   *)
(* set for its kind; once all tables are read, setValue gives those that    *)
(* name a record of the table its address, and forgets them all.            *)
(*                                                                          *)
(* The files come from the Mesa compiler, which is not in the repository.   *)
(***************************************************************************)
EXTENDS Integers, Sequences, FiniteSets

CONSTANT Files   \* the files: of each, its path, headers, blocks, names, and where its symbols are

VARIABLES
  file,      \* the file
  part,      \* what is read of it: "bcd" or "symbol"
  phase,     \* how far that is
  todo,      \* the tables still to read, or to give values for
  pos,       \* the position in the first of them: in words, in ss in bytes
  tables,    \* what was read: the record of each index
  live,      \* indexSet of each kind: the indices that are registered
  valued     \* the indices that have a value

rvars == <<part, phase, todo, pos, tables, live, valued>>

TablesOf == [bcd    |-> <<"ss", "ft", "sg", "en", "mt">>,
             symbol |-> <<"body", "ctx", "ext", "ht", "lit", "md", "se", "tree">>]
Table == {TablesOf["bcd"][k] : k \in 1 .. 5} \cup {TablesOf["symbol"][k] : k \in 1 .. 8}

-----------------------------------------------------------------------------
(* The fields of records that are Index objects, and the kind of each. *)
BcdIndices    == [sourceFile |-> "ft", unpackagedFile |-> "ft"]
FileIndices   == [name |-> "ss"]
SegIndices    == [file |-> "ft"]
ModuleIndices == [name |-> "ss", file |-> "ft", sgi |-> "sg", sseg |-> "sg", entries |-> "en"]
SymbolIndices == [directoryCtx |-> "ctx", importCtx |-> "ctx", outerCtx |-> "ctx"]
BodyIndices   == [link |-> "body", firstSon |-> "body", type |-> "se", localCtx |-> "ctx",
                  bodyTree |-> "tree", thread |-> "tree", id |-> "se", ioType |-> "se"]
CtxIndices    == [seList |-> "se", ctxNew |-> "ctx", chain |-> "ctx", module |-> "md",
                  map |-> "ctx", includeIndex |-> "ctx"]
ExtIndices    == [sei |-> "se"]
HashIndices   == [link |-> "ht"]
MdIndices     == [moduleId |-> "ht", fileId |-> "ht", ctx |-> "ctx", defaultImport |-> "ctx"]
IdIndices     == [idCtx |-> "ctx", idType |-> "se", hash |-> "ht", link |-> "se"]
ConsIndices   == [valueCtx |-> "ctx", fieldCtx |-> "ctx", linkType |-> "se", refType |-> "se",
                  indexType |-> "se", componentType |-> "se", describedType |-> "se",
                  typeIn |-> "se", typeOut |-> "se", defCtx |-> "ctx", caseCtx |-> "ctx",
                  tagSei |-> "se", baseType |-> "se", offsetType |-> "se", resultType |-> "se",
                  rangeType |-> "se", opaqueId |-> "se"]

NoIndices == [f \in {} |-> "none"]
IndicesOf ==
  [bcd |-> BcdIndices, ss |-> NoIndices, ft |-> FileIndices, sg |-> SegIndices, en |-> NoIndices,
   mt |-> ModuleIndices, symbol |-> SymbolIndices, body |-> BodyIndices, ctx |-> CtxIndices,
   ext |-> ExtIndices, ht |-> HashIndices, lit |-> NoIndices, md |-> MdIndices,
   se |-> [f \in DOMAIN IdIndices \cup DOMAIN ConsIndices |->
             IF f \in DOMAIN IdIndices THEN IdIndices[f] ELSE ConsIndices[f]],
   tree |-> NoIndices]

(* A link of a tree: to a subtree, a name, a symbol, a literal word, or a    *)
(* literal string, which is not an Index.                                   *)
TreeLinkKind == [SUBTREE |-> "tree", HASH |-> "ht", SYMBOL |-> "se", WORD |-> "lit"]
LinkRefs(links) ==
  {<<TreeLinkKind[links[k].tag], links[k].index>> :
     k \in {j \in DOMAIN links : links[j].tag # "STRING"}}

(* What the Index objects of a record name: kind and index. *)
Refs(t, r) ==
  {<<IndicesOf[t][f], r[f]>> : f \in DOMAIN r \cap DOMAIN IndicesOf[t]}
  \cup (IF t = "tree" THEN LinkRefs(r.son) ELSE {})
  \cup (IF t = "ext" THEN LinkRefs(<<r.tree>>) ELSE {})

-----------------------------------------------------------------------------
(* How many words the read functions take, by the tags they find. *)

(* Three words, and the closure: its tag is one bit of the two it has, so    *)
(* that an Inner is taken for an Outer and a Catch for an Inner; these have  *)
(* the sizes of those.                                                      *)
NestingRead == [Outer |-> "OUTER", Inner |-> "OUTER", Catch |-> "INNER"]
CallableWords(r) == 3 + (IF NestingRead[r.nesting] = "OUTER" THEN 0 ELSE 1)
BodyWords(r) == 1 + 1 + 1 + 1 + 1 + 3 + 1 + (IF r.kind = "Callable" THEN CallableWords(r) ELSE 0)

CtxWords(r) == IF r.ctxType = "INCLUDED" THEN 2 + 2 ELSE 2

LitWords(r) == IF r.tag = "SHORT" THEN 2 ELSE 3 + Len(r.value)

IdWords(r) == IF r.ctxLink = "LINKED" THEN 5 + 1 ELSE 5

(* The type classes as the compiler orders them. *)
WordsToTransfer ==
  [MODE |-> 1, BASIC |-> 2, ENUMERATED |-> 3, RECORD |-> 3, REF |-> 2, ARRAY |-> 3,
   ARRAYDESC |-> 2, TRANSFER |-> 3]
WordsFromDefinition(tag) ==   \* of the two words of its length BITS reads one
  CASE tag \in {"ZONE", "ANY", "NIL"} -> 1
    [] tag \in {"DEFINITION", "LONG", "REAL", "BITS"} -> 2
    [] tag \in {"UNION", "SEQUENCE", "OPAQUE"} -> 3
    [] tag \in {"RELATIVE", "SUBRANGE"} -> 4
ConsWords(r) ==
  IF r.tag \in DOMAIN WordsToTransfer
  THEN WordsToTransfer[r.tag] + (IF "linkType" \in DOMAIN r THEN 1 ELSE 0)
  ELSE WordsFromDefinition(r.tag)
SEWords(r) == IF r.tag = "ID" THEN IdWords(r) ELSE ConsWords(r)

TreeWords(r) == 2 + Len(r.son)

FTWords == 1 + 3
SGWords == 3
ENWords(r) == 1 + r.nEntries
MTWords == 1 + 1 + 1 + 3 + 1 + 1 + 1 + 1 + 1 + 1
HTWords == 2
MDWords == 3 + 1 + 1 + 1 + 1 + 1
EXTWords == 2

ReadWords(t, r) ==
  CASE t = "ss" -> 1 + r.length [] t = "ft" -> FTWords [] t = "sg" -> SGWords
    [] t = "en" -> ENWords(r) [] t = "mt" -> MTWords [] t = "body" -> BodyWords(r)
    [] t = "ctx" -> CtxWords(r) [] t = "ext" -> EXTWords [] t = "ht" -> HTWords
    [] t = "lit" -> LitWords(r) [] t = "md" -> MDWords [] t = "se" -> SEWords(r)
    [] t = "tree" -> TreeWords(r)

(* The code of a basic type is not taken from the record: it is always 1.   *)
BasicRead(r) == [r EXCEPT !.code = 1]
Record(t, r) == IF t = "se" /\ r.tag = "BASIC" THEN BasicRead(r) ELSE r

-----------------------------------------------------------------------------
(* Reading a record registers the indices it has. *)
Register(t, r) ==
  LET refs == Refs(t, r)
  IN  live' = [k \in Table |-> live[k] \cup {ref[2] : ref \in {x \in refs : x[1] = k}}]

(* readTable; a name's record is the next piece of the string of all names, *)
(* and hash indices count records.  phase is "error" when the reader takes   *)
(* words for a record that are none, or a file for what it is not: the code  *)
(* then ends in ERROR or has records nobody wrote.                          *)
Start(t) == IF t = "ss" THEN 3 ELSE 0
WordPos(t) == IF t = "ss" THEN (pos + 1) \div 2 ELSE pos
Index(t) == CASE t = "ss" -> pos - 3 [] t = "ht" -> Cardinality(DOMAIN tables.ht) [] OTHER -> pos
HTValue(r, last) == SubSeq(file.names, last + 1, r.ssIndex)

Block(t) == file.block[t]
WithHash(r) ==
  LET n == Cardinality(DOMAIN tables.ht)
      last == IF n = 0 THEN 0 ELSE tables.ht[n - 1].ssIndex
  IN  [link |-> r.link, ssIndex |-> r.ssIndex, value |-> HTValue(r, last)]

ReadRecord ==
  /\ phase = "tables" /\ todo # << >>
  /\ LET t == Head(todo)
     IN  /\ WordPos(t) < Block(t).size
         /\ IF pos \in DOMAIN Block(t).at
               /\ pos + ReadWords(t, Block(t).at[pos]) <= Block(t).size * (IF t = "ss" THEN 2 ELSE 1)
            THEN LET r == Record(t, Block(t).at[pos])
                     read == IF t = "ht" THEN WithHash(r) ELSE r
                 IN  /\ tables' = [tables EXCEPT ![t] =
                           [i \in DOMAIN @ \cup {Index(t)} |-> IF i = Index(t) THEN read ELSE @[i]]]
                     /\ Register(t, r)
                     /\ pos' = pos + ReadWords(t, r)
                     /\ UNCHANGED phase
            ELSE phase' = "error" /\ UNCHANGED <<tables, live, pos>>
  /\ UNCHANGED <<file, part, todo, valued>>

(* After the last word of a block.  A symbol table, but not ht, must end     *)
(* exactly there.                                                           *)
EndTable ==
  /\ phase = "tables" /\ todo # << >>
  /\ LET t == Head(todo)
     IN  /\ WordPos(t) >= Block(t).size
         /\ IF part = "symbol" /\ t # "ht" /\ pos # Block(t).size
            THEN phase' = "error" /\ UNCHANGED <<todo, pos>>
            ELSE IF Tail(todo) = << >>
            THEN phase' = "values" /\ todo' = TablesOf[part] /\ pos' = 0
            ELSE todo' = Tail(todo) /\ pos' = Start(Head(todo')) /\ UNCHANGED phase
  /\ UNCHANGED <<file, part, tables, live, valued>>

(* Mutant: there is one set for the indices of all kinds. *)
SetValueShared ==
  /\ phase = "values"
  /\ LET t == Head(todo)
     IN  /\ valued' = [valued EXCEPT ![t] = @ \cup (live[t] \cap DOMAIN tables[t])]
         /\ live' = [k \in Table |-> {}]
         /\ phase' = IF Tail(todo) # << >> THEN phase ELSE IF part = "bcd" THEN "ranges" ELSE "open"
  /\ todo' = Tail(todo)
  /\ UNCHANGED <<file, part, pos, tables>>

SetValue ==
  /\ phase = "values"
  /\ LET t == Head(todo)
     IN  /\ valued' = [valued EXCEPT ![t] = @ \cup (live[t] \cap DOMAIN tables[t])]
         /\ live' = [live EXCEPT ![t] = {}]
         /\ phase' = IF Tail(todo) # << >> THEN phase ELSE IF part = "bcd" THEN "ranges" ELSE "open"
  /\ todo' = Tail(todo)
  /\ UNCHANGED <<file, part, pos, tables>>

-----------------------------------------------------------------------------
(* The headers, with the Index objects they have. *)
ReadHeader ==
  /\ phase = "header" /\ phase' = "tables"
  /\ Register(part, file[part])
  /\ todo' = TablesOf[part] /\ pos' = Start(Head(todo'))
  /\ UNCHANGED <<file, part, tables, valued>>

(* The symbols are in the file's own symbol segments; without any segment,  *)
(* all but the first page is one.                                           *)
ALTO_BIAS == 1
FT_SELF == -2
SymbolRange ==
  IF DOMAIN tables.sg = {} THEN {<<"whole", ALTO_BIAS>>}
  ELSE {<<i, tables.sg[i].base - ALTO_BIAS>> :
          i \in {j \in DOMAIN tables.sg : tables.sg[j].file = FT_SELF
                                          /\ tables.sg[j].segClass = "SYMBOLS"}}

(* One segment, that begins with the version of symbol segments. *)
Ranges ==
  /\ phase = "ranges"
  /\ IF Cardinality(SymbolRange) = 1 /\ \A range \in SymbolRange : range[2] = file.segment
     THEN part' = "symbol" /\ phase' = "header"
     ELSE phase' = "error" /\ UNCHANGED part
  /\ UNCHANGED <<file, todo, pos, tables, live, valued>>

(* Null indices that are variables of the program register before any file. *)
BT_NULL == -1
ReadInit ==
  /\ file \in Files
  /\ part = "bcd" /\ phase = "header" /\ todo = << >> /\ pos = 0
  /\ tables = [t \in Table |-> << >>]
  /\ live = [t \in Table |-> CASE t \in {"se", "ht"} -> {0} [] t = "body" -> {BT_NULL} [] OTHER -> {}]
  /\ valued = [t \in Table |-> {}]

Read == ReadHeader \/ ReadRecord \/ EndTable \/ SetValue \/ Ranges

-----------------------------------------------------------------------------
(* A file of the compiler is read without an error, except one with a record *)
(* of a BITS type, whose third word (SERecord.h:140) is taken for the next   *)
(* record.  Every table has just the records that were written, at their     *)
(* indices, though the reader knows no record's length before it has read    *)
(* its tags; and once the values are set, every Index that names a record    *)
(* has it as its value, in whichever order tables refer to each other, and   *)
(* no Index is left registered.                                             *)
Keys(t) == {CASE t = "ss" -> p - 3 [] t = "ht" -> p \div HTWords [] OTHER -> p :
              p \in DOMAIN Block(t).at}
AfterBits == Head(todo) = "se" /\ pos - 2 \in DOMAIN tables.se /\ tables.se[pos - 2].tag = "BITS"
TablesExact ==
  /\ phase = "error" => part = "symbol" /\ todo # << >> /\ AfterBits
  /\ \A t \in Table : DOMAIN tables[t] \subseteq Keys(t)
  /\ phase \in {"open", "print", "done"} =>
       /\ \A t \in Table : DOMAIN tables[t] = Keys(t) /\ live[t] = {}
       /\ \A t \in Table : \A i \in DOMAIN tables[t] :
            \A ref \in Refs(t, tables[t][i]) :
              ref[2] \in valued[ref[1]] <=> ref[2] \in Keys(ref[1])
=============================================================================
