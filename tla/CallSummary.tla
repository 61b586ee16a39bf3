---------------------------- MODULE CallSummary ----------------------------
(***************************************************************************)
(* The one line that stands for a call stack in the report:                *)
(* summarizeCallStack, summarizeTop and summarizeVuln                      *)
(* (src/internal/scan/source.go).                                          *)
(*                                                                         *)
(* A frame is [Package, Function, anonymous]: Function is the name up to   *)
(* the first $ of it, and ssa writes a $ into the names of anonymous       *)
(* functions, of the functions in these and of wrappers only.  Indices     *)
(* begin at 1, and 0 is "not found".                                       *)
(***************************************************************************)
EXTENDS Naturals, Sequences, FiniteSets

CONSTANT topPkgs   \* the packages that are scanned

\* What a call stack is: a list of frames.
IsStack(frames) ==
  /\ frames \in Seq({frames[i] : i \in DOMAIN frames})
  /\ \A i \in DOMAIN frames :
       frames[i] \in [Package : {frames[i].Package}, Function : {frames[i].Function},
                      anonymous : BOOLEAN]

\* FuncName: what a frame is called.  A receiver is part of Function.
FuncName(frame) == frame

isAnonymousFunction(f) == f.anonymous

creatorName(f) == [f EXCEPT !.anonymous = FALSE]

lowest(I)  == IF I = {} THEN 0 ELSE CHOOSE i \in I : \A j \in I : j <= i
highest(I) == IF I = {} THEN 0 ELSE CHOOSE i \in I : \A j \in I : i <= j

InTop(frames)        == {i \in DOMAIN frames : frames[i].Package \in topPkgs}
InPkg(frames, k, p)  == {i \in DOMAIN frames : i >= k /\ frames[i].Package = p}
Named(frames, I)     == {i \in I : ~isAnonymousFunction(frames[i])}

\* [iTop, iTopEnd, topFunc, topEndFunc], for stacks with a frame in topPkgs.
summarizeTop(frames) ==
  LET end   == lowest(InTop(frames))
      anon  == isAnonymousFunction(FuncName(frames[end]))
      func  == IF anon THEN creatorName(FuncName(frames[end])) ELSE FuncName(frames[end])
      named == lowest(Named(frames, InTop(frames)))
      top   == IF anon /\ named # 0 THEN named ELSE end
  IN  [iTop |-> top, iTopEnd |-> end, topEndFunc |-> func,
       topFunc |-> IF top = end THEN func ELSE FuncName(frames[top])]

\* Bug: the search does not begin after the top segment.
summarizeVulnAll(frames, iTop, vulnPkg) ==
  LET start == highest(InPkg(frames, 1, vulnPkg))
      anon  == start # 0 /\ isAnonymousFunction(FuncName(frames[start]))
      func  == IF anon THEN creatorName(FuncName(frames[start])) ELSE FuncName(frames[start])
      named == highest(Named(frames, InPkg(frames, start, vulnPkg)))
  IN  [iVulnStart |-> start, vulnStartFunc |-> func,
       vulnFunc |-> IF anon /\ named # 0 THEN FuncName(frames[named]) ELSE func]

\* [iVulnStart, vulnStartFunc, vulnFunc], for stacks with a frame in vulnPkg
\* after iTop.
summarizeVuln(frames, iTop, vulnPkg) ==
  LET start == highest(InPkg(frames, iTop + 1, vulnPkg))
      anon  == isAnonymousFunction(FuncName(frames[start]))
      func  == IF anon THEN creatorName(FuncName(frames[start])) ELSE FuncName(frames[start])
      named == highest(Named(frames, InPkg(frames, start, vulnPkg)))
  IN  [iVulnStart |-> start, vulnStartFunc |-> func,
       vulnFunc |-> IF anon /\ named # 0 THEN FuncName(frames[named]) ELSE func]

\* The empty string.
NoSummary == [at |-> 0, funcs |-> <<>>]

\* The position shown is that of frame "at"; funcs are the functions named,
\* "f calls g" or "f calls g, which eventually calls h".
summarizeCallStack(frames) ==
  LET top     == summarizeTop(frames)
      vulnPkg == frames[Len(frames)].Package
      vuln    == summarizeVuln(frames, top.iTopEnd, vulnPkg)
      line(fs) == [at |-> top.iTop, funcs |-> fs]
  IN  IF frames = <<>> \/ InTop(frames) = {} THEN NoSummary
      ELSE IF InPkg(frames, top.iTopEnd + 1, vulnPkg) = {} THEN NoSummary
      ELSE IF top.topFunc # top.topEndFunc
           THEN line(<<top.topFunc, top.topEndFunc, vuln.vulnFunc>>)
      ELSE IF vuln.iVulnStart # top.iTopEnd + 1
           THEN line(<<top.topFunc, FuncName(frames[top.iTopEnd + 1]), vuln.vulnFunc>>)
      ELSE IF vuln.vulnStartFunc # vuln.vulnFunc
           THEN line(<<top.topFunc, vuln.vulnStartFunc, vuln.vulnFunc>>)
      ELSE line(<<top.topFunc, vuln.vulnFunc>>)

-----------------------------------------------------------------------------
(* What a summary may say.  Whether the function in the middle may be      *)
(* anonymous is left to Report!NoAnonymous: that of the first frame after  *)
(* the top segment is named as it is.                                      *)

\* f is the function of a frame, or the one that created it.
Names(f, frame) == f = frame \/ (frame.anonymous /\ f = creatorName(frame))

LastTop(frames) == lowest(InTop(frames))

\* The summary s is true of the stack.
TrueOf(s, frames) ==
  LET n   == Len(s.funcs)
      end == LastTop(frames)
      sunk(i) == i > end /\ frames[i].Package = frames[Len(frames)].Package
                   /\ Names(s.funcs[n], frames[i])
  IN  /\ n \in {2, 3}
      /\ s.at \in InTop(frames) /\ Names(s.funcs[1], frames[s.at])
      /\ \A i \in s.at + 1 .. end :
           frames[i].Package \in topPkgs => frames[i].anonymous
      /\ n = 2 => sunk(end + 1)
      /\ n = 3 => \E i \in end .. Len(frames) : \E j \in i .. Len(frames) :
           /\ i <= end + 1 /\ Names(s.funcs[2], frames[i]) /\ sunk(j)
           /\ s.funcs[2] # s.funcs[1]
      /\ ~s.funcs[1].anonymous /\ ~s.funcs[n].anonymous
=============================================================================
