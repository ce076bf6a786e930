----------------------------- MODULE MCShowType -----------------------------
(***************************************************************************)
(* Files for ShowType.  A source is a few declarations; Compile lays it out  *)
(* as the Mesa compiler does, by the declarations of its records that the    *)
(* comments of src/bcdFile quote, and Text is how it reads.                  *)
(***************************************************************************)
EXTENDS ShowType

(* Words of a record, by its Mesa declaration. *)
DeclaredSE ==
  [NIL |-> 1, MODE |-> 1, ANY |-> 1, ZONE |-> 1, BASIC |-> 2, REF |-> 2, ARRAYDESC |-> 2,
   LONG |-> 2, REAL |-> 2, DEFINITION |-> 2, ENUMERATED |-> 3, RECORD |-> 3, ARRAY |-> 3,
   TRANSFER |-> 3, SEQUENCE |-> 3, OPAQUE |-> 3, BITS |-> 3, RELATIVE |-> 4, SUBRANGE |-> 4, ID |-> 5]
Declared(t, r) ==
  CASE t = "ss" -> 1 + r.length [] t = "ft" -> 4 [] t = "sg" -> 3 [] t = "en" -> 1 + r.nEntries
    [] t = "mt" -> 12 [] t = "ctx" -> IF r.ctxType = "INCLUDED" THEN 4 ELSE 2
    [] t = "ext" -> 2 [] t = "ht" -> 2 [] t = "md" -> 8 [] t = "tree" -> 2 + Len(r.son)
    [] t = "lit" -> IF r.tag = "SHORT" THEN 2 ELSE 3 + Len(r.value)
    [] t = "body" -> IF r.kind = "Other" THEN 9 ELSE IF r.nesting = "Catch" THEN 13 ELSE 12
    [] t = "se" -> IF r.tag = "UNION" THEN 3
                   ELSE DeclaredSE[r.tag] + (IF r.tag = "RECORD" /\ "linkType" \in DOMAIN r THEN 1 ELSE 0)
                                          + (IF r.tag = "ID" /\ r.ctxLink = "LINKED" THEN 1 ELSE 0)

-----------------------------------------------------------------------------
(* Types, fields and expressions of a source. *)
N(name) == [k |-> "named", name |-> name]
Bound(adjectives, name) == [k |-> "bound", adjectives |-> adjectives, name |-> name]
Enum(dep, values) == [k |-> "enum", machineDep |-> dep, values |-> values]
Record3(adjective, private, fields) ==
  [k |-> "record", adjective |-> adjective, private |-> private, fields |-> fields]
Rec(fields) == Record3("none", FALSE, fields)
Ref(adjective, to) == [k |-> "ref", adjective |-> adjective, to |-> to]
Arr(packed, index, of) == [k |-> "array", packed |-> packed, index |-> index, of |-> of]
Desc(readOnly, of) == [k |-> "desc", readOnly |-> readOnly, of |-> of]
Transfer(mode, in, results) == [k |-> "transfer", mode |-> mode, in |-> in, out |-> results]
Select(form, tag, cases) == [k |-> "union", form |-> form, tagField |-> tag, cases |-> cases]
Seqn(packed, tag, of) == [k |-> "sequence", packed |-> packed, tagField |-> tag, of |-> of]
Rel(base, offset) == [k |-> "relative", base |-> base, of |-> offset]
Sub(of, lo, n) == [k |-> "subrange", of |-> of, lo |-> lo, n |-> n]
Lng(of) == [k |-> "long", of |-> of]
Other(text) == [k |-> "other", text |-> text]
Frame(proc) == [k |-> "frame", proc |-> proc]

None == [k |-> "none"]
Word(v) == [k |-> "word", value |-> <<v>>]
Words(value) == [k |-> "word", value |-> value]
Sym(name) == [k |-> "symbol", name |-> name]
Op(name, sons) == [k |-> "op", name |-> name, sons |-> sons]
Field(name, type, at, size, default) ==
  [name |-> name, type |-> type, at |-> at, size |-> size, default |-> default]
Arg(name, type) == Field(name, type, 0, 0, None)
None1 == <<Arg("none", None)>>   \* no arguments at all, as against an empty list

-----------------------------------------------------------------------------
(* x, computed first, and then what is made of it; and a fold of such steps. *)
With(x, Rest(_)) == IF DOMAIN x = {} THEN x ELSE Rest(x)
Steps(step(_, _), base, seq) ==
  LET RECURSIVE From(_, _)
      From(s, k) == IF k > Len(seq) THEN s
                    ELSE With(step(s, seq[k]), LAMBDA next : From(next, k + 1))
  IN  From(base, 1)
Indices(seq) == [k \in DOMAIN seq |-> k]

(* Compile.  s.it is the index of what was put last, s.env where names are. *)
Put(s, t, r) ==
  [s EXCEPT !.at[t] = @ @@ (s.size[t] :> r), !.size[t] = @ + Declared(t, r), !.it = s.size[t]]
Intern(s, name) == IF name = << >> \/ Contains(s.names, name) THEN s
                   ELSE [s EXCEPT !.names = Append(@, name)]
HashOf(s, name) == IF name = << >> THEN 0 ELSE CHOOSE k \in DOMAIN s.names : s.names[k] = name
Piece(name) == IF name = "" THEN << >> ELSE <<name>>

Id(s, name, ctx, type, info, value, link) ==
  [tag |-> "ID", extended |-> FALSE, public |-> TRUE, idCtx |-> ctx, immutable |-> FALSE,
   constant |-> FALSE, idType |-> type, idInfo |-> info, idValue |-> value,
   hash |-> HashOf(s, Piece(name)), ctxLink |-> link]
LinkOf(k, n) == IF k = n THEN "TERMINAL" ELSE "SEQUENTIAL"

Linked(s, tag, i) == [s EXCEPT !.link = [tag |-> tag, index |-> i]]
LinkedTo(s, tag) == Linked(s, tag, s.it)
Literal(value) == IF Len(value) = 1 THEN [tag |-> "SHORT", value |-> value[1]]
                  ELSE [tag |-> "LONG", value |-> value]

RECURSIVE Expr(_, _)
Sons(sons, s) ==
  Steps(LAMBDA acc, son : With(Expr(son, acc.s),
                               LAMBDA p : [s |-> p, links |-> Append(acc.links, p.link)]),
        [s |-> s, links |-> << >>], sons)
Expr(e, s) ==
  CASE e.k = "word" -> LinkedTo(Put(s, "lit", Literal(e.value)), "WORD")
    [] e.k = "symbol" -> Linked(s, "SYMBOL", s.env[e.name])
    [] e.k = "hash" -> With(Intern(s, <<e.name>>), LAMBDA p : Linked(p, "HASH", HashOf(p, <<e.name>>)))
    [] e.k = "string" -> Linked(s, "STRING", e.index)
    [] e.k = "op" ->
         With(Sons(e.sons, s),
              LAMBDA p : LinkedTo(Put(p.s, "tree", [name |-> e.name, son |-> p.links]), "SUBTREE"))
(* The expression e belongs to the identifier at i. *)
Extend(s, e, type, i) ==
  IF e.k = "none" THEN s
  ELSE With(Expr(e, s), LAMBDA p : Put(p, "ext", [type |-> type, sei |-> i, tree |-> p.link]))

RECURSIVE Type(_, _)
RECURSIVE Fields(_, _, _)
CompileAll(types, s) ==
  Steps(LAMBDA acc, ty : With(Type(ty, acc.s), LAMBDA p : [s |-> p, its |-> Append(acc.its, p.it)]),
        [s |-> s, its |-> << >>], types)
InternAll(s, names) == Steps(LAMBDA st, name : Intern(st, Piece(name)), s, names)

NewCtx(s, seList, level) ==
  Put(s, "ctx", [seList |-> seList, level |-> level, ctxType |-> "SIMPLE", ctxNew |-> 0])
(* A context of the identifiers that come next; what Rest puts there; its index. *)
Context(s, level, n, Rest(_)) ==
  With(NewCtx(s, IF n = 0 THEN 0 ELSE s.size["se"], level), LAMBDA c : [Rest(c) EXCEPT !.it = c.it])

(* A context of fields: their types first, then the identifiers, then the    *)
(* default values.                                                          *)
FieldIds(fields, its, c, public) ==
  Steps(LAMBDA st, k :
          Put(st, "se", [Id(st, fields[k].name, c.it, its[k], fields[k].size, fields[k].at,
                            LinkOf(k, Len(fields))) EXCEPT !.public = public]),
        c, Indices(fields))
Defaults(fields, s, first) ==
  Steps(LAMBDA st, k : Extend(st, fields[k].default, "DEFAULT", first + 5 * (k - 1)), s, Indices(fields))
Fields(fields, s, public) ==
  With(CompileAll([k \in DOMAIN fields |-> fields[k].type],
                  InternAll(s, [k \in DOMAIN fields |-> fields[k].name])),
       LAMBDA types : Context(types.s, "LZ", Len(fields),
       LAMBDA c : Defaults(fields, FieldIds(fields, types.its, c, public), c.size["se"])))

RecordCons(ty, ctx) ==
  [tag |-> "RECORD", privateFields |-> ty.private, monitored |-> ty.adjective = "MONITORED",
   machineDep |-> ty.adjective = "MACHINE DEPENDENT", fieldCtx |-> ctx]

Args(fields, s) ==
  CASE fields = None1 -> [s EXCEPT !.it = 0]
    [] fields = << >> -> Put(s, "se", [tag |-> "ANY"])
    [] OTHER -> With(Fields(fields, s, TRUE), LAMBDA f : Put(f, "se", RecordCons(Rec(<< >>), f.it)))

(* The tag of a variant part is an identifier outside every context. *)
TagField(f, s) ==
  With(Type(f.type, Intern(s, Piece(f.name))),
       LAMBDA p : Put(p, "se", Id(p, f.name, 0, p.it, f.size, f.at, "TERMINAL")))

(* The variants of a record: a context of identifiers, of which the first    *)
(* name of a case is a type, and the others are of that type.                *)
VariantIds(cases, names, its, s) ==
  LET CaseOf(name) == CHOOSE k \in DOMAIN cases : Contains(cases[k].names, name)
      Pos(name) == s.size["se"] + 5 * ((CHOOSE k \in DOMAIN names : names[k] = name) - 1)
      Of(name, k) == IF cases[k].names[1] = name THEN its[k] ELSE Pos(cases[k].names[1])
  IN  [Context(s, "LZ", Len(names),
         LAMBDA c : Steps(LAMBDA st, k :
                            Put(st, "se", Id(st, names[k], c.it, 1, Of(names[k], CaseOf(names[k])), 0,
                                             LinkOf(k, Len(names)))),
                          c, Indices(names)))
         EXCEPT !.env = @ @@ [name \in Range(names) |-> Pos(name)]]
Variant(case, s, of) ==
  With(Fields(case.fields, s, TRUE),
       LAMBDA f : Put(f, "se", RecordCons(Rec(<< >>), f.it) @@ [linkType |-> of]))
CasesNamed(cases, names, s, of) ==
  With(Steps(LAMBDA acc, case : With(Variant(case, acc.s, of),
                                     LAMBDA p : [s |-> p, its |-> Append(acc.its, p.it)]),
             [s |-> s, its |-> << >>], cases),
       LAMBDA recs : VariantIds(cases, names, recs.its, InternAll(recs.s, names)))
Cases(cases, s, of) == CasesNamed(cases, FlattenSeq([k \in DOMAIN cases |-> cases[k].names]), s, of)

EnumIds(values, s, type) ==
  Context(s, "LZ", Len(values),
    LAMBDA c : Steps(LAMBDA st, k : Put(st, "se", Id(st, values[k], c.it, type, 0, k - 1,
                                                     LinkOf(k, Len(values)))),
                     c, Indices(values)))
SimpleRecord(text) ==
  CASE text = "REAL" -> [tag |-> "REAL", rangeType |-> 0]
    [] text \in {"ZONE", "MDSZone", "UNCOUNTED ZONE"} ->
         [tag |-> "ZONE", counted |-> text = "ZONE", mds |-> text = "MDSZone"]
    [] text = "bits" -> [tag |-> "BITS", length |-> 16]
    [] text = "opaque" -> [tag |-> "OPAQUE", lengthKnown |-> FALSE, length |-> 0, opaqueId |-> 0]
    [] OTHER -> [tag |-> "OPAQUE", lengthKnown |-> TRUE, length |-> 32, opaqueId |-> 0]

(* What comes before a type's record, left with the indices the record needs; *)
(* then the record, its parts being those two.                               *)
Inner(ty, s) ==
  CASE ty.k = "enum" ->
         With(InternAll(s, ty.values),
              LAMBDA i : EnumIds(ty.values, i, i.size["se"] + 5 * Len(ty.values)))
    [] ty.k = "record" -> Fields(ty.fields, [s EXCEPT !.record = s.decl], ~ ty.private)
    [] ty.k = "frame" -> [s EXCEPT !.it = s.env[ty.proc]]
    [] ty.k = "ref" -> Type(ty.to, s)
    [] ty.k = "array" -> Type(ty.index, s)
    [] ty.k = "transfer" -> Args(ty.in, s)
    [] ty.k \in {"union", "sequence"} -> TagField(ty.tagField, s)
    [] ty.k = "relative" -> Type(ty.base, s)
    [] OTHER -> [s EXCEPT !.it = 0]
Second(ty, s) ==
  CASE ty.k = "transfer" -> Args(ty.out, s)
    [] ty.k = "union" -> Cases(ty.cases, s, s.record)
    [] ty.k \in {"array", "desc", "sequence", "relative", "subrange", "long"} -> Type(ty.of, s)
    [] OTHER -> s
TypeRecord(ty, a, b) ==
  CASE ty.k = "enum" -> [tag |-> "ENUMERATED", machineDep |-> ty.machineDep, valueCtx |-> a]
    [] ty.k = "record" -> RecordCons(ty, a)
    [] ty.k = "frame" -> RecordCons(Rec(<< >>), a)
    [] ty.k = "ref" ->
         [tag |-> "REF", ordered |-> ty.adjective = "ORDERED", basing |-> ty.adjective = "BASE",
          readOnly |-> ty.adjective \in {"READONLY", "READONLY VAR"},
          var |-> ty.adjective \in {"VAR", "READONLY VAR"}, refType |-> a]
    [] ty.k = "array" -> [tag |-> "ARRAY", packed |-> ty.packed, indexType |-> a, componentType |-> b]
    [] ty.k = "desc" -> [tag |-> "ARRAYDESC", readOnly |-> ty.readOnly, describedType |-> b]
    [] ty.k = "transfer" -> [tag |-> "TRANSFER", mode |-> ty.mode, typeIn |-> a, typeOut |-> b]
    [] ty.k = "union" -> [tag |-> "UNION", overlaid |-> ty.form = "OVERLAID",
                          controlled |-> ty.form = "controlled", caseCtx |-> b, tagSei |-> a]
    [] ty.k = "sequence" -> [tag |-> "SEQUENCE", packed |-> ty.packed, controlled |-> TRUE,
                             tagSei |-> a, componentType |-> b]
    [] ty.k = "relative" -> [tag |-> "RELATIVE", baseType |-> a, offsetType |-> b, resultType |-> b]
    [] ty.k = "subrange" -> [tag |-> "SUBRANGE", empty |-> ty.n = 0, rangeType |-> b, origin |-> ty.lo,
                             range |-> IF ty.n = 0 THEN 0 ELSE ty.n - 1]
    [] ty.k = "long" -> [tag |-> "LONG", rangeType |-> b]
    [] ty.k = "other" -> SimpleRecord(ty.text)
Type(ty, s) ==
  CASE ty.k = "named" -> [s EXCEPT !.it = s.env[ty.name]]
    [] ty.k = "bound" -> [s EXCEPT !.it = s.env[ty.adjectives[1]]]
    [] ty.k = "at" -> [s EXCEPT !.it = ty.at]
    [] OTHER -> With(Inner(ty, s),
                     LAMBDA a : With(Second(ty, a), LAMBDA b : Put(b, "se", TypeRecord(ty, a.it, b.it))))

(* The tables before any declaration of the source: SENull, typeTYPE and the *)
(* other basic types, the standard contexts, the standard types, and a type  *)
(* of an included module.                                                   *)
Tables == [t \in {"body", "ctx", "ext", "lit", "md", "se", "tree"} |-> << >>]
Empty == [at |-> Tables, size |-> [t \in DOMAIN Tables |-> 0], names |-> << >>, env |-> << >>,
          it |-> 0, link |-> << >>, record |-> 0, decl |-> 0]
Standard == <<"INTEGER", "CARDINAL", "BOOLEAN", "STRING">>
StandardType == [INTEGER  |-> [k |-> "at", at |-> 4], CARDINAL |-> Sub(N("INTEGER"), 0, 65536),
                 BOOLEAN  |-> Enum(FALSE, <<"FALSE", "TRUE">>), STRING |-> Ref("none", N("CARDINAL"))]

Name(s, name) == [s EXCEPT !.env = @ @@ (name :> s.it)]
DeclareType(s, type, ctx) ==
  With(Type(type.type, s), LAMBDA p : With(Intern(p, <<type.name>>),
       LAMBDA i : Name(Put(i, "se", Id(i, type.name, ctx, 1, i.it, 0, "TERMINAL")), type.name)))
DeclareTypes(s, types, ctx) == Steps(LAMBDA st, type : DeclareType(st, type, ctx), s, types)

Basics == <<[tag |-> "NIL"], [tag |-> "MODE"], [tag |-> "BASIC", code |-> 0, length |-> 16],
            [tag |-> "BASIC", code |-> 1, length |-> 16]>>
Contexts == Steps(LAMBDA s, k : NewCtx(s, 0, "LZ"), Steps(LAMBDA s, r : Put(s, "se", r), Empty, Basics),
                  [k \in 1 .. 7 |-> k])
(* The md record of a module; its context, unless it is the own module.     *)
Md(s, module) ==
  Put(s, "md", [moduleId |-> HashOf(s, <<module.name>>), fileId |-> HashOf(s, <<module.name, ".", "mesa">>),
                stamp |-> module.stamp, ctx |-> 0, defaultImport |-> 0])
Include(s, module) ==
  With(Put(s, "ctx", [seList |-> 0, level |-> "LZ", ctxType |-> "INCLUDED", chain |-> 0,
                      module |-> s.it, map |-> 0]), LAMBDA c : [s |-> c, ctx |-> c.it])
AddModule(s, module) ==
  With(Md(InternAll(Intern(s, <<module.name, ".", "mesa">>), <<module.name>>), module),
       LAMBDA md : IF module.types = << >> THEN [s |-> md, ctx |-> 0, types |-> << >>]
                   ELSE With(Include(md, module), LAMBDA c : c @@ [types |-> module.types]))

(* A body, with a frame of its own, and that of a block in it.              *)
Body(ctx) == [link |-> -1, firstSon |-> -1, type |-> 0, localCtx |-> ctx, bodyTree |-> 0, thread |-> 0]
Bodies(s, proc, ctx) ==
  Put(Put(s, "body", Body(ctx) @@ [kind |-> "Callable", nesting |-> proc.nesting, id |-> s.it, ioType |-> 0]),
      "body", Body(ctx) @@ [kind |-> "Other"])
AddBody(s, proc) ==
  With(NewCtx(InternAll(s, <<proc.name>>), 0, "LL"),
       LAMBDA c : [Bodies(Put(c, "se", Id(c, proc.name, 0, 1, 0, 0, "TERMINAL")), proc, c.it)
                     EXCEPT !.env = @ @@ (proc.name :> c.it)])

(* The standard types, and those of every module.                           *)
StandardTypes == [k \in DOMAIN Standard |-> [name |-> Standard[k], type |-> StandardType[Standard[k]]]]
Environment(modules) ==
  Steps(LAMBDA s, module : With(AddModule(s, module), LAMBDA m : DeclareTypes(m.s, m.types, m.ctx)),
        DeclareTypes(Contexts, StandardTypes, 2), modules)

(* The outer declarations: their identifiers, which types may name before    *)
(* they are declared, then what they are.                                   *)
OuterId(s, d, ctx, link) ==
  [Id(s, d.name, ctx, 1, 0, 0, link) EXCEPT !.immutable = d.form \in {"const", "readonly"},
                                            !.constant = d.form = "const",
                                            !.extended = d.value.k # "none"]
OuterIds(ds, s) ==
  Steps(LAMBDA st, k : Put(st, "se", OuterId(st, ds[k], s.it, LinkOf(k, Len(ds)))), s, Indices(ds))
Forward(ds, s, first) ==
  [s EXCEPT !.env = @ @@ [name \in {ds[k].name : k \in DOMAIN ds} |->
                            first + 5 * ((CHOOSE k \in DOMAIN ds : ds[k].name = name) - 1)]]
Typed(s, d, i) ==
  IF d.form = "type" THEN [s EXCEPT !.at["se"][i].idInfo = s.it]
  ELSE [s EXCEPT !.at["se"][i].idType = s.it, !.at["se"][i].idValue = d.bits]
Define(s, d, i) ==
  Extend(With(Type(d.type, [s EXCEPT !.decl = i]), LAMBDA p : Typed(p, d, i)),
         d.value, IF d.form = "const" THEN "VALUE" ELSE "DEFAULT", i)
Outer(ds, s) ==
  Context(InternAll(s, [k \in DOMAIN ds |-> ds[k].name]), "LG", Len(ds),
    LAMBDA c : Steps(LAMBDA st, k : Define(st, ds[k], c.size["se"] + 5 * (k - 1)),
                     Forward(ds, OuterIds(ds, c), c.size["se"]), Indices(ds)))

Compile(source) ==
  Outer(source.decls, Steps(AddBody, Environment(source.modules), source.procs))

(* The blocks of a file, and the number of a page of its symbols. *)
HashBlock(names) ==
  LET Sum(k) == Len(FlattenSeq(SubSeq(names, 1, k)))
  IN  [at |-> [p \in {2 * k : k \in 0 .. Len(names)} |-> [link |-> 0, ssIndex |-> Sum(p \div 2)]],
       size |-> 2 * (Len(names) + 1)]
BcdBlocks(source) ==
  [ss |-> [at |-> (3 :> [length |-> 4]) @@ (8 :> [length |-> 1]), size |-> 5],
   ft |-> [at |-> (0 :> [name |-> 0, version |-> source.version]) @@ (4 :> [name |-> 5, version |-> "other"]),
           size |-> 8],
   sg |-> IF source.segments
          THEN [at |-> (0 :> [file |-> FT_SELF, base |-> 1, segClass |-> "CODE"])
                       @@ (3 :> [file |-> 4, base |-> 7, segClass |-> "SYMBOLS"])
                       @@ (6 :> [file |-> FT_SELF, base |-> 4, segClass |-> "SYMBOLS"]), size |-> 9]
          ELSE [at |-> << >>, size |-> 0],
   en |-> [at |-> (0 :> [nEntries |-> 2]) @@ (3 :> [nEntries |-> 1]), size |-> 5],
   mt |-> [at |-> 0 :> [name |-> 0, file |-> FT_SELF, sgi |-> 0, sseg |-> 6, entries |-> 3], size |-> 12]]
FileOf(k, source, s) ==
  [bcdPath |-> k,
   bcd |-> [sourceFile |-> 0, unpackagedFile |-> -1],
   symbol |-> [directoryCtx |-> 0, importCtx |-> 0, outerCtx |-> s.it],
   names |-> FlattenSeq(s.names),
   segment |-> IF source.segments THEN 3 ELSE 1,
   block |-> [t \in DOMAIN Tables |-> [at |-> s.at[t], size |-> s.size[t]]]
             @@ ("ht" :> HashBlock(s.names)) @@ BcdBlocks(source)]
File(k, source) == FileOf(k, source, Compile(source))

-----------------------------------------------------------------------------
(* How a source reads. *)
TextOf(default) ==
  LET RECURSIVE Of(_)
      Of(e) ==
        CASE e.k = "word" -> IF Len(e.value) = 1 THEN Number(e.value[1])
                             ELSE Number(e.value[1] + 65536 * e.value[2])
          [] e.k = "symbol" -> <<"Mod", ".", e.name>>
          [] e.k = "hash" -> <<e.name>>
          [] e.k = "string" -> <<"(LONG STRING", ToString(e.index), ")">>
          [] e.name = "DOT" -> <<e.sons[1].name, ".", e.sons[2].name>>
          [] e.name = "NIL" -> <<"NIL">>
          [] e.name = "VOID" -> <<"NULL">>
          [] e.name \in {"ALL", "FIRST", "LAST", "SIZE"} -> <<e.name \o "[">> \o Of(e.sons[1]) \o <<"]">>
          [] e.name = "LONG_TC" -> <<"LONG">> \o Of(e.sons[1])
          [] e.name = "CONSTRUCT" -> <<"[">> \o Of(e.sons[2]) \o <<"]">>
          [] e.name \in {"LIST", "MWCONST"} -> FlattenSeq([k \in DOMAIN e.sons |-> Of(e.sons[k])])
  IN  If(default.k # "none", <<"=">> \o Of(default))

OwnerOf(source, name) ==
  CASE Contains(Standard, name) -> << >>
    [] \E k \in DOMAIN source.decls : source.decls[k].name = name -> <<"Mod", ".">>
    [] OTHER -> <<"Inc", ".">>

BitsOf(f) == <<"(", ToString(f.at \div 16)>>
             \o If(f.size > 0, <<":", ToString(f.at % 16), "..", ToString((f.at % 16) + f.size - 1)>>)
             \o <<")", ":">>

(* The enumerators of a type, none if it is no enumeration. *)
RECURSIVE EnumeratorsOf(_, _)
EnumeratorsOf(source, ty) ==
  LET types == {k \in DOMAIN source.decls : /\ source.decls[k].form = "type"
                                            /\ ty.k = "named" /\ source.decls[k].name = ty.name}
  IN  CASE ty.k = "enum" -> ty.values
        [] ty.k = "subrange" -> EnumeratorsOf(source, ty.of)
        [] types # {} -> EnumeratorsOf(source, source.decls[Min(types)].type)
        [] OTHER -> << >>
TextOfValue(source, ty, n) ==
  LET values == EnumeratorsOf(source, ty) IN <<IF values = << >> THEN ToString(n) ELSE values[n + 1]>>

(* sub is the bounds of a subrange, which come after the first word of a     *)
(* pointer or after a name.                                                 *)
RECURSIVE TextOfType(_, _, _)
TextOfFields(source, fields, bits) ==
  IF fields = << >> THEN <<"[]">>
  ELSE <<"[">> \o FlattenSeq([k \in DOMAIN fields |->
         LET f == fields[k]
         IN  If(k > 1, <<",">>) \o If(f.name # "", <<f.name>> \o (IF bits THEN BitsOf(f) ELSE <<":">>))
             \o TextOfType(source, f.type, << >>) \o TextOf(f.default)]) \o <<"]">>

TextOfType(source, ty, sub) ==
  LET Type0(type) == TextOfType(source, type, << >>)
      Adjective(yes) == If(ty.adjective = yes, <<yes>>)
      Arguments(fields) == IF fields = << >> THEN <<"ANY">> ELSE TextOfFields(source, fields, FALSE)
  IN  CASE ty.k = "named" -> OwnerOf(source, ty.name) \o <<ty.name>> \o sub
        [] ty.k = "bound" -> ty.adjectives \o OwnerOf(source, ty.name) \o <<ty.name>>
        [] ty.k = "enum" ->
             If(ty.machineDep, <<"MACHINE DEPENDENT">>) \o <<"{">>
             \o FlattenSeq([k \in DOMAIN ty.values |->
                              If(k > 1, <<",">>) \o <<ty.values[k], "(", ToString(k - 1), ")">>]) \o <<"}">>
        [] ty.k = "record" ->
             If(ty.private, <<"PRIVATE">>) \o Adjective("MONITORED") \o Adjective("MACHINE DEPENDENT")
             \o <<"RECORD">> \o TextOfFields(source, ty.fields, TRUE)
        [] ty.k = "ref" ->
             IF ty.adjective \in {"VAR", "READONLY VAR"}
             THEN <<IF ty.adjective = "VAR" THEN "VAR" ELSE "READONLY">> \o Type0(ty.to)
             ELSE Adjective("ORDERED") \o Adjective("BASE") \o <<"POINTER">> \o sub \o <<"TO">>
                  \o Adjective("READONLY") \o Type0(ty.to)
        [] ty.k = "array" -> If(ty.packed, <<"PACKED">>) \o <<"ARRAY">> \o Type0(ty.index)
                             \o <<"OF">> \o Type0(ty.of)
        [] ty.k = "desc" -> <<"DESCRIPTOR FOR">> \o If(ty.readOnly, <<"READONLY">>) \o Type0(ty.of)
        [] ty.k = "transfer" ->
             <<ModeName[ty.mode]>> \o If(ty.in # None1, Arguments(ty.in))
             \o If(ty.out # None1, <<"RETURNS">> \o Arguments(ty.out))
        [] ty.k = "union" ->
             <<"SELECT">> \o (IF ty.form = "controlled" THEN <<ty.tagField.name>> \o BitsOf(ty.tagField)
                              ELSE <<ty.form>>)
             \o (IF ty.tagField.type.k = "named" THEN Type0(ty.tagField.type) ELSE <<"*">>) \o <<"FROM">>
             \o FlattenSeq([k \in DOMAIN ty.cases |->
                  FlattenSeq([j \in DOMAIN ty.cases[k].names |-> If(j > 1, <<",">>) \o <<ty.cases[k].names[j]>>])
                  \o <<"=>">> \o TextOfFields(source, ty.cases[k].fields, TRUE) \o <<",">>]) \o <<"ENDCASE">>
        [] ty.k = "sequence" ->
             If(ty.packed, <<"PACKED">>) \o <<"SEQUENCE">> \o <<ty.tagField.name>> \o BitsOf(ty.tagField)
             \o Type0(ty.tagField.type) \o <<"OF">> \o Type0(ty.of)
        [] ty.k = "relative" -> Type0(ty.base) \o <<"RELATIVE">> \o TextOfType(source, ty.of, sub)
        [] ty.k = "subrange" ->
             LET Limit(n) == TextOfValue(source, ty.of, n)
             IN  TextOfType(source, ty.of,
                   <<"[">> \o Limit(ty.lo) \o <<"..">>
                   \o (IF ty.n = 0 THEN Limit(ty.lo) \o <<")">> ELSE Limit(ty.lo + ty.n - 1) \o <<"]">>))
        [] ty.k = "long" -> If(ty.of.k # "ref" \/ ty.of.adjective \notin {"VAR", "READONLY VAR"}, <<"LONG">>)
                            \o Type0(ty.of)
        [] ty.k = "frame" -> <<ty.proc>>
        [] ty.text = "opaque" -> << >>
        [] ty.text = "opaque of 2" -> <<"[", "2", "]">>
        [] OTHER -> <<ty.text>>

TextOfDecl(source, d) ==
  <<d.name, ":">>
  \o (CASE d.form = "type" -> <<"TYPE">> \o If(d.type.k # "other" \/ d.type.text \notin {"opaque", "opaque of 2"}, <<"=">>)
        [] d.form = "readonly" -> <<"READONLY">> [] OTHER -> << >>)
  \o TextOfType(source, d.type, << >>)
  \o (IF d.form = "const" /\ d.value.k = "none" THEN <<"=">> \o d.text ELSE TextOf(d.value)) \o <<";">>

(* The first n declarations, and all. *)
TextTo(source, n) ==
  LET others == Tail(source.modules)
  IN  <<"File", source.version, "Mod", ".", "mesa">>
      \o If(others # << >>, <<"DIRECTORY">>
            \o FlattenSeq([k \in DOMAIN others |-> <<others[k].name, others[k].stamp,
                                                     IF k = Len(others) THEN ";" ELSE ",">>]))
      \o <<source.modules[1].stamp, "Mod", "= BEGIN">>
      \o FlattenSeq([k \in 1 .. n |-> TextOfDecl(source, source.decls[k])])
Text(source) == TextTo(source, Len(source.decls)) \o <<"END.">>

(* A declaration that reads with an enumerator other than the first of its   *)
(* type: as a constant's value or a subrange's bound.                       *)
NamesLaterEnumerator(source, d) ==
  /\ EnumeratorsOf(source, d.type) # << >>
  /\ \/ d.form = "const" /\ d.text # <<EnumeratorsOf(source, d.type)[1]>>
     \/ d.type.k = "subrange" /\ d.type.lo + d.type.n > 1

-----------------------------------------------------------------------------
Decl(name, form, type, bits, value, text) ==
  [name |-> name, form |-> form, type |-> type, bits |-> bits, value |-> value, text |-> text]
T(name, type) == Decl(name, "type", type, 0, None, << >>)
V(name, type) == Decl(name, "var", type, 0, None, << >>)
C(name, type, bits, text) == Decl(name, "const", type, bits, None, text)

Mod == [name |-> "Mod", stamp |-> "m1", types |-> << >>]
Inc == [name |-> "Inc", stamp |-> "i1",
        types |-> <<[name |-> "Handle", type |-> Ref("none", N("INTEGER"))], [name |-> "Size", type |-> N("CARDINAL")]>>]
Only == [name |-> "Only", stamp |-> "o1", types |-> << >>]
Source(modules, procs, segments, decls) ==
  [modules |-> modules, procs |-> procs, segments |-> segments, decls |-> decls, version |-> "v1"]

Simple == Source(<<Mod>>, << >>, FALSE,
  <<T("Color", Enum(FALSE, <<"red", "green", "blue">>)),
    T("Flag", Enum(TRUE, <<"on">>)),
    C("first", N("Color"), 0, <<"red">>),
    C("limit", N("CARDINAL"), 40000, <<"40000">>),
    C("base", Sub(N("CARDINAL"), 5, 10), 2, <<"7">>),
    C("nil", Ref("none", N("Color")), 0, <<"NIL">>),
    Decl("long", "const", Lng(N("INTEGER")), 0, Words(<<3, 1>>), << >>),
    V("count", N("CARDINAL")),
    Decl("seen", "readonly", N("BOOLEAN"), 0, None, << >>)>>)

Records == Source(<<Mod, Inc, Only>>, << >>, TRUE,
  <<T("List", Ref("none", N("Node"))),
    T("Node", Rec(<<Field("next", N("List"), 0, 0, Op("NIL", << >>)),
                    Field("value", N("Size"), 16, 0, Word(7)),
                    Field("flag", N("BOOLEAN"), 39, 1, Sym("default")),
                    Field("rest", Arr(TRUE, Sub(N("CARDINAL"), 0, 4), N("BOOLEAN")), 40, 4,
                          Op("ALL", <<Sym("default")>>))>>)),
    C("default", N("BOOLEAN"), 0, <<"FALSE">>),
    T("Hidden", Record3("none", TRUE, <<Field("secret", N("INTEGER"), 0, 0, None),
                                        Field("inner", Rec(<<>>), 16, 8, Op("VOID", << >>))>>)),
    T("Guarded", Record3("MONITORED", FALSE,
       <<Field("size", Lng(N("CARDINAL")), 0, 0, Op("LONG_TC", <<Op("SIZE", <<[k |-> "hash", name |-> "Node"]>>)>>)),
         Field("owner", N("Handle"), 32, 0, Op("CONSTRUCT", <<Sym("default"), Op("LIST", <<[k |-> "hash", name |-> "Node"], Sym("default")>>)>>))>>)),
    T("Word", Record3("MACHINE DEPENDENT", FALSE,
       <<Field("high", N("Size"), 0, 8, Op("DOT", <<[k |-> "hash", name |-> "Inc"], Sym("default")>>)),
         Field("low", N("Size"), 8, 8, [k |-> "string", index |-> 3])>>))>>)

Variants == Source(<<Mod, Inc>>, <<[name |-> "Main", nesting |-> "Outer"], [name |-> "Run", nesting |-> "Inner"],
                                 [name |-> "Handler", nesting |-> "Catch"]>>, TRUE,
  <<T("Shape", Rec(<<Field("id", N("CARDINAL"), 0, 0, None),
       Field("", Select("controlled", Field("kind", Enum(FALSE, <<"circle", "box">>), 16, 1, None),
         <<[names |-> <<"circle">>, fields |-> <<Field("r", N("CARDINAL"), 32, 0, None)>>],
           [names |-> <<"box", "square">>, fields |-> << >>]>>), 16, 0, None)>>)),
    T("Circle", Ref("ORDERED", Bound(<<"circle">>, "Shape"))),
    T("Overlay", Rec(<<Field("", Select("OVERLAID", Field("", N("BOOLEAN"), 0, 0, None),
         <<[names |-> <<"low">>, fields |-> <<Field("n", N("INTEGER"), 0, 0, None)>>]>>), 0, 0, None)>>)),
    T("Vec", Rec(<<Field("", Seqn(TRUE, Field("length", N("CARDINAL"), 0, 16, None), N("Circle")), 0, 0, None)>>)),
    T("Offset", Sub(Rel(N("Base"), Ref("none", N("Vec"))), 0, 100)),
    T("Base", Lng(Ref("BASE", N("Offset")))),
    T("Local", Ref("READONLY", Frame("Run"))),
    T("Caught", Ref("none", Frame("Handler"))),
    T("Empty", Sub(N("CARDINAL"), 4, 0)),
    T("Zone", Other("MDSZone")), T("Real", Other("REAL")),
    T("Hidden", Other("opaque")), T("Pair", Other("opaque of 2"))>>)

Procs == Source(<<Mod, Inc>>, << >>, FALSE,
  <<V("Wait", Transfer("PROC", None1, None1)),
    V("Call", Transfer("PROC", <<Arg("a", N("Size")), Field("b", N("Callback"), 0, 0, Op("NIL", << >>))>>,
                       <<Arg("", N("INTEGER"))>>)),
    T("Callback", Transfer("PROC", << >>, <<Arg("done", Lng(Ref("VAR", N("BOOLEAN")))),
                                            Arg("seen", Ref("READONLY VAR", N("Size")))>>)),
    V("Failed", Transfer("SIGNAL", <<Arg("code", N("CARDINAL"))>>, None1)),
    V("Fatal", Transfer("ERROR", None1, None1)),
    Decl("task", "readonly", Transfer("PROCESS", None1, <<Arg("x", Desc(TRUE, Arr(FALSE, N("Size"), N("INTEGER"))))>>),
         0, None, << >>)>>)

(* Enumerations used for values and bounds; in each the last is one that is *)
(* not the first of its type.                                                *)
Values == Source(<<Mod>>, << >>, FALSE,
  <<T("Color", Enum(FALSE, <<"red", "green", "blue">>)),
    T("Reds", Sub(N("Color"), 0, 1)), T("Never", Sub(N("Color"), 0, 0)),
    C("first", N("Reds"), 0, <<"red">>), C("last", N("Color"), 2, <<"blue">>)>>)
Bounds == Source(<<Mod>>, << >>, FALSE,
  <<T("Color", Enum(FALSE, <<"red", "green", "blue">>)), T("Warm", Sub(N("Color"), 0, 2)),
    V("shade", N("Warm"))>>)

(* Numbers below 0, as a bound and as a value. *)
Negative == Source(<<Mod>>, << >>, FALSE,
  <<T("Offset", Sub(N("INTEGER"), -5, 10)), C("minus", N("INTEGER"), 65531, <<"-5">>)>>)
(* A type of bits. *)
Bits == Source(<<Mod>>, << >>, FALSE, <<T("Bits", Other("bits")), V("count", N("CARDINAL"))>>)

Sources == <<Simple, Records, Variants, Procs, Source(<<Mod>>, << >>, FALSE, << >>), Values, Bounds,
             Negative, Bits>>
MCFiles == {File(k, Sources[k]) : k \in DOMAIN Sources}

(* Every file that can be read is listed to its end, and what is printed of  *)
(* it is its source, whole and in order: each type with the names, bounds    *)
(* and bits it was declared with, an included name with its module and a     *)
(* standard one without, each default after its field, and the private       *)
(* default of one record does not reach what comes after it.  The exceptions *)
(* it states: a listing may hang at a declaration that names an enumerator   *)
(* other than the first of its type, and nowhere else; and a number below 0  *)
(* comes out as the one its word is.                                         *)
Negatives == -5 .. -1
Shown(text) ==
  [k \in DOMAIN text |-> IF \E n \in Negatives : text[k] = ToString(n)
                         THEN ToString(65536 + CHOOSE n \in Negatives : text[k] = ToString(n))
                         ELSE text[k]]
RoundTrip ==
  LET source == Sources[file.bcdPath]
      decls  == source.decls
  IN  /\ phase = "print" => \E n \in 0 .. Len(decls) : out = Shown(TextTo(source, n))
      /\ phase = "endless" => \E n \in DOMAIN decls : /\ out = Shown(TextTo(source, n - 1))
                                                     /\ NamesLaterEnumerator(source, decls[n])
      /\ phase = "done" => out = Shown(Text(source))
=============================================================================
