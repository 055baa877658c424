---------------------------- MODULE PackageLoader ----------------------------
(***************************************************************************)
(* Loading of packages and scripts: kNameSpace_ImportPackage and           *)
(* LoadPackageNULL of src/parser/import/namespace.h, the evaluation of     *)
(* statements (src/parser/import/eval.h) and the jump buffer of            *)
(* KRuntime_tryCallMethod and KRuntime_raise                               *)
(* (src/konoha/import/klibexec.h), as the command runs them: options, a    *)
(* script, the interactive shell.                                          *)
(*                                                                         *)
(* Loading is re-entrant: a package's handler and its script import other  *)
(* packages.  `frames' is the C stack, the innermost call last, and a      *)
(* raise cuts it back to the call that the jump buffer names.              *)
(***************************************************************************)
EXTENDS NameSpace, Integers

CONSTANTS
  Root, Main, \* the name spaces KNULL(NameSpace) and of the script
  Package,    \* the others: a package's name space goes by its name
  Missing,    \* packages of which no file is found
  MaxCalls,   \* bound: statements and imports by C code, in all
  MaxEntries  \* bound: entries of the tables and lists, in all

ASSUME LoaderAssumption ==
  /\ NameSpaces = Package \cup {Root, Main}
  /\ Root \notin Package /\ Main \notin Package /\ Root # Main
  /\ Missing \subseteq Package
  /\ MaxCalls \in Nat /\ MaxEntries \in Nat

VARIABLES
  stage,       \* of the command: "options", "script" or "shell"
  frames,
  packageMap,  \* [Package -> {"none", "loading", "loaded"}] "loading": packageNS is NULL
  evaljmpbuf,  \* the frame it jumps to; 0: zeros; NoBuffer: the NULL pointer
  halted,      \* "no", "exit", "end", or "wild": a jump through zeros
  calls

loader == <<stage, packageMap, evaljmpbuf, halted>>
vars == <<spaces, loader, frames, calls>>

NoBuffer == -1

(* A call under way: a "script" is read in ns, a statement of ns is in a   *)
(* "try", ns is being given package pkg in "import" or only wants it       *)
(* loaded in "require", pkg is being loaded in "load".  Errors found while *)
(* `critical' (KBeginCritical) are raised; others are only reported.       *)
Frame(kind, n, p, critical) ==
  [kind |-> kind, ns |-> n, pkg |-> p, critical |-> critical, step |-> "first", saved |-> 0]

Init ==
  /\ InitSpaces(Root)
  /\ stage = "options"
  /\ frames = <<>>
  /\ packageMap = [p \in Package |-> "none"]
  /\ evaljmpbuf = NoBuffer
  /\ halted = "no"
  /\ calls = 0

Top == frames[Len(frames)]
At(kind, step) ==
  halted = "no" /\ frames # <<>> /\ Top.kind = kind /\ Top.step = step
AtBottom(s) == halted = "no" /\ frames = <<>> /\ stage = s
StepTo(step) == [frames EXCEPT ![Len(frames)].step = step]
Pop == Front(frames)

Counted == calls < MaxCalls /\ calls' = calls + 1
Entries ==
  {e \in NameSpaces \X Key : Defined(e[1], e[2])} \cup
  {e \in NameSpaces \X Keyword \X {"SyntaxList"} : e[2] \in DOMAIN syntaxList[e[1]]}
Room == Cardinality(Entries) < MaxEntries

----------------------------------------------------------------------------
(* Statements and exceptions.                                              *)

(* KRuntime_tryCallMethod, up to the call.                                 *)
Try(n) ==
  /\ Counted
  /\ frames' = Append(frames, [Frame("try", n, n, FALSE) EXCEPT
                                 !.saved = IF evaljmpbuf = NoBuffer THEN 0 ELSE evaljmpbuf])
  /\ evaljmpbuf' = Len(frames) + 1
  /\ UNCHANGED <<spaces, stage, packageMap, halted>>

(* KRuntime_raise.  The rest of KRuntime_tryCallMethod runs where it lands *)
(* and the script that the statement is of is broken off.  The mutant      *)
(* leaves the buffer as it is.                                             *)
StaysSet == evaljmpbuf                    \* mutant of Restored
Restored == frames[evaljmpbuf].saved
Raise ==
  /\ CASE evaljmpbuf = NoBuffer -> halted' = "exit" /\ UNCHANGED <<frames, evaljmpbuf>>
       [] evaljmpbuf = 0        -> halted' = "wild" /\ UNCHANGED <<frames, evaljmpbuf>>
       [] OTHER ->
            /\ frames' = [i \in 1 .. evaljmpbuf - 1 |->
                 IF i = evaljmpbuf - 1 THEN [frames[i] EXCEPT !.step = "broken"] ELSE frames[i]]
            /\ evaljmpbuf' = Restored
            /\ UNCHANGED halted
  /\ UNCHANGED <<spaces, stage, packageMap, calls>>

Statement == At("script", "first") /\ Try(Top.ns)

(* A statement is parsed and typed before that, in no try of its own.      *)
Parse ==
  /\ At("script", "first")
  /\ \E k \in Keyword :
       (k \in DOMAIN syntaxList[Top.ns] \/ Room) /\ GetSyntaxList(Top.ns, k)
  /\ UNCHANGED <<frames, loader, calls>>

EndScript ==
  /\ \/ At("script", "first")
     \/ At("script", "broken")
  /\ frames' = Pop
  /\ UNCHANGED <<spaces, loader, calls>>

Return ==
  /\ At("try", "done")
  /\ frames' = Pop
  /\ evaljmpbuf' = Top.saved
  /\ UNCHANGED <<spaces, stage, packageMap, halted, calls>>

(* A statement fails, before it has called anything or after.              *)
Fail ==
  /\ \/ At("try", "first")
     \/ At("try", "done")
  /\ Raise

(* Name spaces there are: NameSpace objects are values, so a statement can *)
(* use any of them.                                                        *)
Existing ==
  {Root} \cup (IF stage = "options" THEN {} ELSE {Main})
         \cup {p \in Package : packageMap[p] # "none"}

(* What a statement calls on a name space: the lookup of a name, the list  *)
(* of a keyword for code that is compiled as it runs, SetConst, hate, and  *)
(* DefineSyntax of a syntax that is new or in a table already.             *)
GetName(n) == \E k \in Key : GetConst(n, k)
GetList(n) == \E k \in Keyword : GetSyntaxList(n, k)
ConstValue(n, k) ==
  {Made("Object", n, k)} \cup UNION {Syntaxes(s) : s \in Existing}
SetConst(n) == \E k \in Key : \E v \in ConstValue(n, k) : DefineConst(n, k, v)
Hate(n) == \E k \in Keyword : RemoveSyntax(n, k)
NewSyntax(n) ==
  \/ \E k \in Keyword : AddSyntax(n, Made("Syntax", n, k))
  \/ \E s \in Existing : \E syn \in Syntaxes(s) : AddSyntax(n, syn)

Call ==
  /\ At("try", "first")
  /\ \E n \in Existing :
       \/ GetName(n)
       \/ Hate(n)
       \/ Room /\ (SetConst(n) \/ NewSyntax(n) \/ GetList(n))
  /\ frames' = StepTo("done")
  /\ UNCHANGED <<loader, calls>>

(* NameSpace.import, into any of the name spaces.                          *)
Import ==
  /\ At("try", "first")
  /\ \E n \in Existing, p \in Package :
       frames' = IF p = n THEN StepTo("done")
                 ELSE Append(StepTo("done"), Frame("import", n, p, FALSE))
  /\ UNCHANGED <<spaces, loader, calls>>

(* NameSpace.load.  That a file cannot be read is only reported, as if it  *)
(* were empty.                                                             *)
Include ==
  /\ At("try", "first")
  /\ \E n \in Existing :
       frames' = Append(StepTo("done"), Frame("script", n, n, FALSE))
  /\ UNCHANGED <<spaces, loader, calls>>

----------------------------------------------------------------------------
(* GetPackageNULL, for an import or a require.                             *)

(* The mutant takes a package that is still being loaded.                  *)
AnyEntry(p) == packageMap[p] # "none"     \* mutant of Ready
Ready(p) == packageMap[p] = "loaded"

Getting == At("import", "first") \/ At("require", "first")

LoadPackage ==
  /\ Getting
  /\ packageMap[Top.pkg] = "none" /\ Top.pkg \notin Missing
  /\ packageMap' = [packageMap EXCEPT ![Top.pkg] = "loading"]
  /\ frames' = Append(frames, Frame("load", Top.pkg, Top.pkg, TRUE))
  /\ UNCHANGED <<spaces, stage, evaljmpbuf, halted, calls>>

NotFound ==
  /\ Getting
  /\ packageMap[Top.pkg] = "none" /\ Top.pkg \in Missing
  /\ Raise

RecursiveImporting ==
  /\ Getting
  /\ packageMap[Top.pkg] # "none" /\ ~Ready(Top.pkg)
  /\ IF Top.critical THEN Raise
     ELSE frames' = Pop /\ UNCHANGED <<spaces, loader, calls>>

Required ==
  /\ At("require", "first")
  /\ Ready(Top.pkg)
  /\ frames' = Pop
  /\ UNCHANGED <<spaces, loader, calls>>

(* The rest of kNameSpace_ImportPackage: the name space, the handler's     *)
(* ExportNameSpace, the script to kick out.                                *)
Imported ==
  /\ At("import", "first")
  /\ Ready(Top.pkg)
  /\ ImportAll(Top.ns, Top.pkg)
  /\ frames' = StepTo("export")
  /\ UNCHANGED <<loader, calls>>

Export ==
  /\ At("import", "export")
  /\ \/ UNCHANGED spaces
     \/ Room /\ \E k \in ConstName : LoadConstData(Top.ns, Bind(k, Made("Object", Top.pkg, k)))
  /\ frames' = StepTo("kick")
  /\ UNCHANGED <<loader, calls>>

(* Nothing is left to do for the import when the script has been read.     *)
Kick ==
  /\ At("import", "kick")
  /\ \/ frames' = Append(Pop, Frame("script", Top.ns, Top.pkg, FALSE))
     \/ frames' = Pop
  /\ UNCHANGED <<spaces, loader, calls>>

----------------------------------------------------------------------------
(* LoadPackageNULL: the handler's PackupNameSpace, written in C, and then  *)
(* the script of the package.                                              *)

Packup ==
  /\ At("load", "first") /\ Room
  /\ \/ \E k \in Keyword : ~Defined(Top.pkg, k) /\ DefineSyntax(Top.pkg, k)
     \/ \E k \in ConstName :
          ~Defined(Top.pkg, k) /\ LoadConstData(Top.pkg, Bind(k, Made("Text", Top.pkg, k)))
  /\ UNCHANGED <<frames, loader, calls>>

(* KImportPackage and KRequirePackage, with the trace of the load.         *)
PackupImport ==
  /\ At("load", "first")
  /\ Counted
  /\ \E p \in Package \ {Top.pkg}, kind \in {"import", "require"} :
       frames' = Append(frames, Frame(kind, Top.pkg, p, TRUE))
  /\ UNCHANGED <<spaces, loader>>

(* The handler reports an error, such as a method defined twice.           *)
PackupFail == At("load", "first") /\ Raise

PackupEnd ==
  /\ At("load", "first")
  /\ \/ frames' = Append(StepTo("end"), Frame("script", Top.pkg, Top.pkg, FALSE))
     \/ frames' = StepTo("end")
  /\ UNCHANGED <<spaces, loader, calls>>

LoadEnd ==
  /\ At("load", "end")
  /\ packageMap' = [packageMap EXCEPT ![Top.pkg] = "loaded"]
  /\ frames' = Pop
  /\ UNCHANGED <<spaces, stage, evaljmpbuf, halted, calls>>

----------------------------------------------------------------------------
(* The command: Konoha_ParseCommandOption.                                 *)

OptionDefine ==
  /\ AtBottom("options") /\ Room
  /\ \E k \in ConstName : DefineConst(Root, k, Made("Text", Root, k))
  /\ UNCHANGED <<frames, loader, calls>>

OptionImport ==
  /\ AtBottom("options")
  /\ Counted
  /\ \E p \in Package : frames' = <<Frame("import", Root, p, FALSE)>>
  /\ UNCHANGED <<spaces, loader>>

LoadScript ==
  /\ AtBottom("options")
  /\ stage' = "script"
  /\ frames' = <<Frame("script", Main, Main, FALSE)>>
  /\ UNCHANGED <<spaces, packageMap, evaljmpbuf, halted, calls>>

(* The shell imports a package first, Konoha.Man.                          *)
Shell ==
  /\ AtBottom("options") \/ AtBottom("script")
  /\ Counted
  /\ stage' = "shell"
  /\ \E p \in Package : frames' = <<Frame("import", Root, p, FALSE)>>
  /\ UNCHANGED <<spaces, packageMap, evaljmpbuf, halted>>

ShellStatement == AtBottom("shell") /\ Try(Root)

End ==
  /\ AtBottom("script") \/ AtBottom("shell")
  /\ halted' = "end"
  /\ UNCHANGED <<spaces, stage, packageMap, evaljmpbuf, frames, calls>>

Halted == halted # "no" /\ UNCHANGED vars

Next ==
  \/ Parse \/ Statement \/ EndScript \/ Return \/ Fail
  \/ Call \/ Import \/ Include
  \/ LoadPackage \/ NotFound \/ RecursiveImporting \/ Required
  \/ Imported \/ Export \/ Kick
  \/ Packup \/ PackupImport \/ PackupFail \/ PackupEnd \/ LoadEnd
  \/ OptionDefine \/ OptionImport \/ LoadScript \/ Shell \/ ShellStatement \/ End
  \/ Halted

Spec == Init /\ [][Next]_vars

----------------------------------------------------------------------------
(* Properties.                                                             *)

TypeOK ==
  /\ stage \in {"options", "script", "shell"}
  /\ \A i \in DOMAIN frames :
       /\ frames[i].kind \in {"script", "try", "import", "require", "load"}
       /\ frames[i].ns \in NameSpaces /\ frames[i].pkg \in NameSpaces
       /\ frames[i].saved \in 0 .. i - 1
  /\ packageMap \in [Package -> {"none", "loading", "loaded"}]
  /\ evaljmpbuf \in NoBuffer .. Len(frames)
  /\ halted \in {"no", "exit", "end", "wild"}
  /\ \A n \in NameSpaces :
       /\ \A k \in DOMAIN constTable[n] : k \in Key /\ constTable[n][k] \in Value
       /\ \A k \in DOMAIN syntaxList[n] : \A i \in DOMAIN syntaxList[n][k] :
            syntaxList[n][k][i].type = "Syntax"

(* The jump buffer always names the innermost try that is still on the     *)
(* stack, however statements nest in loads and however they end: a raise   *)
(* never lands in a call that has returned, and never passes by a try      *)
(* (KRuntime_tryCallMethod, KRuntime_raise).  Outside of any try it is     *)
(* NULL before the first one and zeros from then on, which no raise        *)
(* survives.                                                               *)
Tries == {i \in DOMAIN frames : frames[i].kind = "try"}
JumpBufferInnermost ==
  /\ Tries = {} => evaljmpbuf <= 0
  /\ Tries # {} => evaljmpbuf \in Tries /\ \A i \in Tries : i <= evaljmpbuf

(* A name space is only ever given packages that are loaded to the end,    *)
(* each once and never itself, and no package is being loaded twice, in    *)
(* whatever circles packages import each other (GetPackageNULL,            *)
(* LoadPackageNULL, kNameSpace_ImportAll).                                 *)
ImportsLoaded ==
  /\ \A n \in NameSpaces :
       /\ IsInjective(importedNameSpaceList[n])
       /\ \A p \in ToSet(importedNameSpaceList[n]) : packageMap[p] = "loaded" /\ p # n
  /\ \A i, j \in DOMAIN frames :
       frames[i].kind = "load" /\ frames[j].kind = "load" =>
         /\ packageMap[frames[i].pkg] = "loading"
         /\ frames[i].pkg = frames[j].pkg => i = j

(* The syntaxes in the list of a keyword are some of those that a search   *)
(* finds now, in the order of the search, and the name space's own         *)
(* definition comes first: a list that was filled before another name      *)
(* space gained a syntax lacks it, and is never wrong in another way       *)
(* (GetSyntaxList, ResetSyntaxList; ParseSyntaxNode and TypeNode go by it  *)
(* from the second element on).                                            *)
Within(s, t) ==
  \E f \in [DOMAIN s -> DOMAIN t] :
    /\ \A i \in DOMAIN s : t[f[i]] = s[i]
    /\ \A i, j \in DOMAIN s : i < j => f[i] < f[j]
ListsInOrder ==
  \A n \in NameSpaces : \A k \in DOMAIN syntaxList[n] :
    LET list == syntaxList[n][k]
        own  == Made("Syntax", n, k)
    IN  /\ Within(list, ListSyntax(n, k))
        /\ list # <<>> /\ IsSyntax(n, k) /\ constTable[n][k] = own => Head(list) = own

(* Every object in a table is in the list of its name space, the only      *)
(* thing a collection visits of it (kNameSpace_Reftrace), whether it was   *)
(* defined, loaded, made of a text by a lookup, or is a list of syntaxes.  *)
ConstsKept ==
  \A n \in NameSpaces :
    /\ \A k \in DOMAIN constTable[n] :
         Boxed(constTable[n][k]) => constTable[n][k] \in NameSpaceConstList[n]
    /\ \A k \in DOMAIN syntaxList[n] : Made("Array", n, k) \in NameSpaceConstList[n]
=============================================================================
