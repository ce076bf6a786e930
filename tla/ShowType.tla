------------------------------ MODULE ShowType ------------------------------
(***************************************************************************)
(* The lister of compiled definitions (src/showType): it prints a file's    *)
(* outer symbols as Mesa declarations.  What it prints is a sequence of     *)
(* tokens; spaces, line breaks and indentation are left out.  A name is the *)
(* pieces it has in the file.  Everything is printed with showBits, which   *)
(* nothing sets to FALSE.                                                   *)
(*                                                                          *)
(* context.defaultPublic, which a record with private fields clears while   *)
(* its fields are printed, is the parameter dp; dosub, the text that the    *)
(* caller wants after the name of a type, is sub.                           *)
(***************************************************************************)
EXTENDS SymbolFile, SequencesExt, FiniteSetsExt, TLC

VARIABLES
  out,   \* what has been printed
  sei    \* the outer symbol to print next

vars == <<file, part, phase, todo, pos, tables, live, valued, out, sei>>

-----------------------------------------------------------------------------
(* SymbolOps *)
SE_NULL == 0
TYPE_TYPE == 1
TYPE_ANY == 2
CODE_INT == 1
CTX_NULL == 0
HT_NULL == 0
MD_OWN == 0

Se(i) == tables.se[i]
IsID(i) == Se(i).tag = "ID"
IsA(i, class) == Se(i).tag = class

NextSe(i) ==
  CASE i = SE_NULL -> SE_NULL
    [] Se(i).ctxLink = "LINKED" -> Se(i).link
    [] Se(i).ctxLink = "SEQUENTIAL" -> Min({k \in DOMAIN tables.se : k > i})
    [] Se(i).ctxLink = "TERMINAL" -> SE_NULL

FirstCtxSe(ctx) == IF ctx = CTX_NULL THEN SE_NULL ELSE tables.ctx[ctx].seList

RECURSIVE Chain(_)
Chain(i) == IF i = SE_NULL THEN << >> ELSE <<i>> \o Chain(NextSe(i))

RECURSIVE UnderType(_)
UnderType(i) ==
  IF i = SE_NULL \/ ~ IsID(i) THEN i
  ELSE IF Se(i).idType = TYPE_TYPE THEN UnderType(Se(i).idInfo)
  ELSE Assert(FALSE, "UnderType: not a type")

TypeLink(i) ==
  LET cons == Se(UnderType(i))
  IN  IF cons.tag = "RECORD" /\ "linkType" \in DOMAIN cons THEN cons.linkType ELSE SE_NULL

XferMode(i) == LET cons == Se(UnderType(i)) IN IF cons.tag = "TRANSFER" THEN cons.mode ELSE "NONE"

FindExtension(i) ==
  LET found == {k \in DOMAIN tables.ext : tables.ext[k].sei = i}
  IN  IF found = {} THEN [type |-> "NONE", tree |-> [tag |-> "NULL", index |-> 0]]
      ELSE tables.ext[Min(found)]

-----------------------------------------------------------------------------
(* Names, numbers and values. *)
PrintHti(h) == IF h = HT_NULL THEN <<"(anonymous)">> ELSE tables.ht[h].value
PrintSei(i) == PrintHti(IF i = SE_NULL THEN HT_NULL ELSE Se(i).hash)
Number(n) == <<ToString(n)>>
Loophole(val) == <<"LOOPHOLE[", ToString(val), "]">>

(* The file's name up to the dot. *)
Own == tables.md[MD_OWN]
Module ==
  LET name == PrintHti(Own.fileId)
      dots == {k \in DOMAIN name : name[k] = "."}
  IN  IF dots = {} THEN name ELSE SubSeq(name, 1, Min(dots) - 1)
PutCurrentModuleDot == Module \o <<".">>

(* idValue of a field is its bit address, idInfo its size. *)
GetBitSpec(i) ==
  LET wd == Se(i).idValue \div 16
      bd == Se(i).idValue % 16
      s  == Se(i).idInfo
  IN  <<"(">> \o Number(wd)
      \o (IF s = 0 THEN << >> ELSE <<":">> \o Number(bd) \o <<"..">> \o Number(bd + s - 1))
      \o <<")", ":">>

RECURSIVE GetValFormat(_)
GetValFormat(i) ==
  LET cons == Se(i)
      Format(t) == [tag |-> t, arg |-> SE_NULL]
  IN  CASE cons.tag = "ID"         -> GetValFormat(UnderType(i))
        [] cons.tag = "BASIC"      -> Format(CASE cons.code = 0 -> "UNSIGNED"
                                               [] cons.code = CODE_INT -> "SIGNED"
                                               [] cons.code = 2 -> "CHAR")
        [] cons.tag = "ENUMERATED" -> [tag |-> "ENUM", arg |-> i]
        [] cons.tag = "ARRAY"      -> [tag |-> "ARRAY", arg |-> cons.componentType]
           \* getTRANSFER has the tag of an array, and no component type
        [] cons.tag = "TRANSFER"   -> Format("ARRAY")
        [] cons.tag = "RELATIVE"   -> GetValFormat(cons.offsetType)
        [] cons.tag = "SUBRANGE"   -> LET vf == GetValFormat(cons.rangeType)
                                      IN  IF vf.tag = "SIGNED" /\ cons.origin = 0
                                          THEN Format("UNSIGNED") ELSE vf
        [] cons.tag = "LONG"       -> GetValFormat(cons.rangeType)
        [] cons.tag = "REF"        -> Format("REF")
        [] OTHER                   -> Format("OTHER")
OTHER_FORMAT == [tag |-> "OTHER", arg |-> SE_NULL]

(* The loop never goes on to the next value: it ends only when the first is  *)
(* the one, or there is none.                                               *)
PutEnum(val, esei) ==
  LET first == FirstCtxSe(Se(esei).valueCtx)
  IN  CASE first = SE_NULL          -> Loophole(val)
        [] Se(first).idValue = val  -> PrintSei(first)
        [] OTHER                    -> <<"endless">>

(* The parameter is a word, whatever the caller computes; a SIGNED one is     *)
(* printed as the number the word is.                                        *)
AsWord(n) == n % 65536
PrintTypedVal(n, vf) ==
  LET val == AsWord(n) IN
  CASE vf.tag \in {"SIGNED", "UNSIGNED"} -> Number(val)
    [] vf.tag = "CHAR"                   -> Number(val) \o <<"C">>
    [] vf.tag = "ENUM"                   -> PutEnum(val, vf.arg)
    [] vf.tag = "REF" /\ val = 0         -> <<"NIL">>
    [] OTHER                             -> Loophole(val)

If(condition, text) == IF condition THEN text ELSE << >>

-----------------------------------------------------------------------------
(* Default values and constants that are expressions. *)
Long(value) == value[2] * 65536 + value[1]
PrintLong(value, vf) ==
  CASE Len(value) # 2                    -> <<"(">> \o Number(Len(value)) \o <<")[">>
                                             \o [k \in DOMAIN value |-> ToString(value[k])] \o <<"]">>
    [] vf.tag \in {"SIGNED", "UNSIGNED"} -> Number(Long(value))
    [] vf.tag = "REF" /\ Long(value) = 0 -> <<"NIL">>
    [] OTHER                             -> Loophole(Long(value))

RECURSIVE PrintTreeLink(_, _, _)
PrintTreeLink(link, vf, sonOfDot) ==
  LET node == tables.tree[link.index]
      Son(k, format) == PrintTreeLink(node.son[k], format, FALSE)
      In(left, format) == <<left>> \o Son(1, format) \o <<"]">>
      word == tables.lit[link.index]
  IN  CASE link.tag = "NULL" -> << >>
        [] link.tag = "SUBTREE" ->
             CASE node.name = "ALL" ->
                    In("ALL[", IF vf.tag = "ARRAY" THEN GetValFormat(vf.arg) ELSE vf)
               [] node.name \in {"MWCONST", "CASE", "LOOPHOLE"} -> Son(1, vf)
               [] node.name = "NIL" -> <<"NIL">>
               [] node.name = "VOID" -> <<"NULL">>
               [] node.name \in {"DOT", "CDOT"} ->
                    PrintTreeLink(node.son[1], OTHER_FORMAT, TRUE) \o <<".">>
                    \o PrintTreeLink(node.son[2], OTHER_FORMAT, TRUE)
               [] node.name \in {"FIRST", "LAST", "SIZE"} -> In(node.name \o "[", vf)
               [] node.name = "LENGTHEN" -> In("LONG[", vf)
               [] node.name = "CONSTRUCT" ->
                    <<"[">> \o If(Len(node.son) = 2, PrintTreeLink(node.son[2], vf, FALSE)) \o <<"]">>
               [] node.name = "UNION" -> Son(1, vf) \o <<"[">> \o Son(2, vf) \o <<"]">>
               [] node.name = "LIST" ->
                    FlattenSeq([k \in DOMAIN node.son |-> Son(k, OTHER_FORMAT)])
               [] node.name = "LONG_TC" -> <<"LONG">> \o Son(1, vf)
               [] node.name = "UPARROW" -> Son(1, vf) \o <<"### UPARRWO ###">>
               [] OTHER -> <<"(complicated expression", node.name, ")">>
        [] link.tag = "HASH" -> PrintHti(link.index)
        [] link.tag = "SYMBOL" ->
             If(~ sonOfDot /\ Se(link.index).idCtx = file.symbol.outerCtx, PutCurrentModuleDot)
             \o PrintSei(link.index)
        [] link.tag = "WORD" ->
             IF word.tag = "SHORT" THEN PrintTypedVal(word.value, vf) ELSE PrintLong(word.value, vf)
        [] link.tag = "STRING" -> <<"(LONG STRING">> \o Number(link.index) \o <<")">>

PrintDefaultValue(i, vf) ==
  LET ext == FindExtension(i)
  IN  If(ext.type = "DEFAULT", <<"=">> \o PrintTreeLink(ext.tree, vf, FALSE))

-----------------------------------------------------------------------------
(* Declarations and types. *)
RECURSIVE PrintType(_, _, _)
RECURSIVE PrintFieldCtx(_, _, _)

noSub == << >>
Comma(k) == If(k > 1, <<",">>)

(* The constants are printed only as values: no format is a transfer's. *)
PrintConstant(i) ==
  LET id == Se(i)
      vf == GetValFormat(id.idType)
      cons == Se(UnderType(id.idType))
  IN  <<"=">> \o
      CASE id.extended            -> PrintTreeLink(FindExtension(i).tree, vf, FALSE)
        [] cons.tag = "SUBRANGE"  -> PrintTypedVal(id.idValue + cons.origin, vf)
        [] OTHER                  -> PrintTypedVal(id.idValue, vf)

(* Of a symbol that differs from the default, it is the default's word that  *)
(* is printed.                                                              *)
PrintSym(i, colon, dp) ==
  LET id == Se(i)
      type == IF id.idType = TYPE_TYPE THEN id.idInfo ELSE id.idType
      opaque == ~ IsID(type) /\ IsA(type, "OPAQUE")
  IN  If(id.hash # HT_NULL, PrintSei(i) \o colon)
      \o If(id.public # dp, <<IF dp THEN "PUBLIC" ELSE "PRIVATE">>)
      \o IF id.idType = TYPE_TYPE
         THEN <<"TYPE">> \o If(~ opaque, <<"=">>) \o PrintType(type, noSub, dp)
              \o PrintDefaultValue(i, GetValFormat(type))
         ELSE If(id.immutable /\ ~ id.constant /\ XferMode(type) \in {"NONE", "PROCESS"},
                 <<"READONLY">>)
              \o PrintType(type, noSub, dp)
              \o If(id.constant, PrintConstant(i))

(* The first of a context's list may be of another context. *)
PrintFieldCtx(ctx, md, dp) ==
  LET first == FirstCtxSe(ctx)
      fields == Chain(IF first # SE_NULL /\ Se(first).idCtx # ctx THEN NextSe(first) ELSE first)
      Field(i) == PrintSym(i, IF md THEN GetBitSpec(i) ELSE <<":">>, dp)
                  \o PrintDefaultValue(i, GetValFormat(Se(i).idType))
  IN  IF fields = << >> THEN <<"[]">>
      ELSE <<"[">> \o FlattenSeq([k \in DOMAIN fields |-> Comma(k) \o Field(fields[k])]) \o <<"]">>

(* A name, with the adjectives of a bound variant before it. *)
RECURSIVE PrintNamed(_)
PrintNamed(i) ==
  LET ctx == Se(i).idCtx
  IN  IF TypeLink(i) # SE_NULL THEN If(IsID(i), PrintSei(i)) \o PrintNamed(TypeLink(i))
      ELSE (CASE ctx \in 2 .. 12 -> << >>
              [] tables.ctx[ctx].ctxType = "INCLUDED" ->
                   PrintHti(tables.md[tables.ctx[ctx].module].moduleId) \o <<".">>
              [] tables.ctx[ctx].ctxType = "SIMPLE" -> PutCurrentModuleDot
              [] OTHER -> << >>)
           \o PrintSei(i)

PrintEnumerated(cons) ==
  LET values == Chain(FirstCtxSe(cons.valueCtx))
      Value(i) == If(Se(i).hash # HT_NULL, PrintSei(i)) \o <<"(">> \o Number(Se(i).idValue) \o <<")">>
  IN  If(cons.machineDep, <<"MACHINE DEPENDENT">>) \o <<"{">>
      \o FlattenSeq([k \in DOMAIN values |-> Comma(k) \o Value(values[k])]) \o <<"}">>

(* The record of a frame is printed as the name of its procedure. *)
PrintRecord(cons, dp) ==
  LET bodies == {b \in DOMAIN tables.body : tables.body[b].kind = "Callable"
                                            /\ tables.body[b].localCtx = cons.fieldCtx}
  IN  IF tables.ctx[cons.fieldCtx].level # "LZ"
      THEN If(bodies # {}, PrintSei(tables.body[Min(bodies)].id))
      ELSE If(dp /\ cons.privateFields, <<"PRIVATE">>)
           \o If(cons.monitored, <<"MONITORED">>) \o If(cons.machineDep, <<"MACHINE DEPENDENT">>)
           \o <<"RECORD">> \o PrintFieldCtx(cons.fieldCtx, TRUE, dp /\ ~ cons.privateFields)

(* Mutant: what the caller wants after the name is printed after it all. *)
PrintRefSubLast(cons, sub, dp) ==
  LET under == Se(UnderType(cons.refType))
  IN  IF cons.var THEN <<IF cons.readOnly THEN "READONLY" ELSE "VAR">> \o PrintType(cons.refType, noSub, dp)
      ELSE If(cons.ordered, <<"ORDERED">>) \o If(cons.basing, <<"BASE">>) \o <<"POINTER">>
           \o If(under.tag # "BASIC" \/ under.code # TYPE_ANY \/ cons.readOnly,
                 <<"TO">> \o If(cons.readOnly, <<"READONLY">>) \o PrintType(cons.refType, noSub, dp))
           \o sub

PrintRef(cons, sub, dp) ==
  LET under == Se(UnderType(cons.refType))
  IN  IF cons.var THEN <<IF cons.readOnly THEN "READONLY" ELSE "VAR">> \o PrintType(cons.refType, noSub, dp)
      ELSE If(cons.ordered, <<"ORDERED">>) \o If(cons.basing, <<"BASE">>) \o <<"POINTER">> \o sub
           \o If(under.tag # "BASIC" \/ under.code # TYPE_ANY \/ cons.readOnly,
                 <<"TO">> \o If(cons.readOnly, <<"READONLY">>) \o PrintType(cons.refType, noSub, dp))

ModeName == [PROC |-> "PROCEDURE", PORT |-> "PORT", SIGNAL |-> "SIGNAL", ERROR |-> "ERROR",
             PROCESS |-> "PROCESS", PROGRAM |-> "PROGRAM"]
OutArgType(i, dp) ==
  CASE IsA(i, "RECORD") -> PrintFieldCtx(Se(i).fieldCtx, FALSE, dp)
    [] IsA(i, "ANY")    -> <<"ANY">>
    [] OTHER            -> << >>
PrintTransfer(cons, dp) ==
  <<ModeName[cons.mode]>>
  \o If(cons.typeIn # SE_NULL, OutArgType(cons.typeIn, dp))
  \o If(cons.typeOut # SE_NULL, <<"RETURNS">> \o OutArgType(cons.typeOut, dp))

(* Variants of the same record are listed together. *)
RECURSIVE PrintCases(_, _)
PrintCases(cases, dp) ==
  IF cases = << >> THEN << >>
  ELSE LET i == Head(cases)
           same == Cardinality({k \in 2 .. Len(cases) : \A j \in 2 .. k : Se(cases[j]).idInfo = i})
       IN  PrintSei(i) \o FlattenSeq([k \in 1 .. same |-> <<",">> \o PrintSei(cases[k + 1])])
           \o <<"=>">> \o PrintFieldCtx(Se(UnderType(Se(i).idInfo)).fieldCtx, TRUE, dp) \o <<",">>
           \o PrintCases(SubSeq(cases, same + 2, Len(cases)), dp)
PrintTag(cons, otherwise) ==
  IF cons.controlled THEN PrintSei(cons.tagSei) \o GetBitSpec(cons.tagSei) ELSE otherwise
PrintUnion(cons, dp) ==
  LET tag == Se(cons.tagSei)
  IN  <<"SELECT">> \o PrintTag(cons, <<IF cons.overlaid THEN "OVERLAID" ELSE "COMPUTED">>)
      \o If(tag.public # dp, <<IF dp THEN "PRIVATE" ELSE "PUBLIC">>)
      \o (IF IsID(tag.idType) THEN PrintType(tag.idType, noSub, dp) ELSE <<"*">>)
      \o <<"FROM">> \o PrintCases(Chain(FirstCtxSe(cons.caseCtx)), dp) \o <<"ENDCASE">>
PrintSequence(cons, dp) ==
  LET tag == Se(cons.tagSei)
  IN  If(cons.packed, <<"PACKED">>) \o <<"SEQUENCE">> \o PrintTag(cons, <<"COMPUTED">>)
      \o If(tag.public # dp, <<IF dp THEN "PRIVATE" ELSE "PUBLID">>)
      \o PrintType(tag.idType, noSub, dp) \o <<"OF">> \o PrintType(cons.componentType, noSub, dp)

PrintSubrange(i, dp) ==
  LET cons == Se(i)
      vf == GetValFormat(i)
      vfSub == CASE vf.tag = "ENUM" -> vf
                 [] cons.origin < 0 -> [OTHER_FORMAT EXCEPT !.tag = "SIGNED"]
                 [] OTHER           -> [OTHER_FORMAT EXCEPT !.tag = "UNSIGNED"]
      Bound(n) == PrintTypedVal(n, vfSub)
      bounds == <<"[">> \o Bound(cons.origin) \o <<"..">>
                \o IF cons.empty THEN Bound(cons.origin) \o <<")">>
                                 ELSE Bound(cons.origin + cons.range) \o <<"]">>
  IN  PrintType(cons.rangeType, bounds, dp)

PrintCons(i, sub, dp) ==
  LET cons == Se(i)
      Type(t) == PrintType(t, noSub, dp)
  IN  CASE cons.tag = "ENUMERATED" -> PrintEnumerated(cons)
        [] cons.tag = "RECORD"     -> PrintRecord(cons, dp)
        [] cons.tag = "REF"        -> PrintRef(cons, sub, dp)
        [] cons.tag = "ARRAY"      -> If(cons.packed, <<"PACKED">>) \o <<"ARRAY">> \o Type(cons.indexType)
                                      \o <<"OF">> \o Type(cons.componentType)
        [] cons.tag = "ARRAYDESC"  -> <<"DESCRIPTOR FOR">> \o If(cons.readOnly, <<"READONLY">>)
                                      \o Type(cons.describedType)
        [] cons.tag = "TRANSFER"   -> PrintTransfer(cons, dp)
        [] cons.tag = "UNION"      -> PrintUnion(cons, dp)
        [] cons.tag = "RELATIVE"   -> If(cons.baseType # SE_NULL, Type(cons.baseType)) \o <<"RELATIVE">>
                                      \o PrintType(cons.offsetType, sub, dp)
        [] cons.tag = "SEQUENCE"   -> PrintSequence(cons, dp)
        [] cons.tag = "SUBRANGE"   -> PrintSubrange(i, dp)
        [] cons.tag = "ZONE"       -> <<CASE cons.counted -> "ZONE" [] cons.mds -> "MDSZone"
                                          [] OTHER -> "UNCOUNTED ZONE">>
        [] cons.tag = "OPAQUE"     -> If(cons.lengthKnown, <<"[">> \o Number(cons.length \div 16) \o <<"]">>)
        [] cons.tag = "LONG"       -> If(~ (IsA(cons.rangeType, "REF") /\ Se(cons.rangeType).var), <<"LONG">>)
                                      \o Type(cons.rangeType)
        [] cons.tag = "REAL"       -> <<"REAL">>
        [] OTHER                   -> Assert(FALSE, "PrintType: unexpected class")

PrintType(i, sub, dp) == IF IsID(i) THEN PrintNamed(i) \o sub ELSE PrintCons(i, sub, dp)
-----------------------------------------------------------------------------
(* Context and print; one step prints one outer symbol. *)
Version == tables.ft[file.bcd.sourceFile].version
PrintHeader == <<"File", Version>> \o PrintHti(Own.fileId)
PrintDirectory ==
  LET others == SetToSortSeq(DOMAIN tables.md \ {MD_OWN}, <)
      Entry(k) == PrintHti(tables.md[others[k]].moduleId) \o <<tables.md[others[k]].stamp>>
                  \o <<IF k = Len(others) THEN ";" ELSE ",">>
  IN  If(others # << >>, <<"DIRECTORY">> \o FlattenSeq([k \in DOMAIN others |-> Entry(k)]))

Open ==
  /\ phase = "open" /\ phase' = "print"
  /\ out' = PrintHeader \o PrintDirectory \o <<Own.stamp>> \o PrintHti(Own.moduleId) \o <<"= BEGIN">>
  /\ sei' = FirstCtxSe(file.symbol.outerCtx)
  /\ UNCHANGED <<file, part, todo, pos, tables, live, valued>>

PrintModule ==
  /\ phase = "print"
  /\ IF sei = SE_NULL
     THEN out' = out \o <<"END.">> /\ phase' = "done" /\ UNCHANGED sei
     ELSE \E text \in {PrintSym(sei, <<":">>, TRUE)} :
             IF Contains(text, "endless") THEN phase' = "endless" /\ UNCHANGED <<out, sei>>
             ELSE out' = out \o text \o <<";">> /\ sei' = NextSe(sei) /\ UNCHANGED phase
  /\ UNCHANGED <<file, part, todo, pos, tables, live, valued>>

Init == ReadInit /\ out = << >> /\ sei = SE_NULL
Next == (Read /\ UNCHANGED <<out, sei>>) \/ Open \/ PrintModule
Spec == Init /\ [][Next]_vars
=============================================================================
