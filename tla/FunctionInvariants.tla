-------------------------- MODULE FunctionInvariants --------------------------
(***************************************************************************)
(* What always holds while a function is generated: the invariants that    *)
(* FunctionProofs proves inductive, and what the proofs speak about.       *)
(***************************************************************************)
EXTENDS FunctionGen

-----------------------------------------------------------------------------
(* The stack of calls and loop_blocks *)

\* A frame by itself: f is a frame of the function p, with n blocks made so far.
FrameOK(p, n, f) ==
  /\ f.i >= 1
  /\ f.at # "defers" => f.body \in 1 .. Len(p) /\ f.i <= Len(p[f.body]) + 1
  /\ f.at \in {"then", "else", "loop"} => f.after \in 1 .. n
  /\ f.at = "then" => f.orelse \in 0 .. n

\* A frame and the one above it, which it waits for
Linked(p, lo, hi) ==
  /\ hi.at # "function"
  /\ hi.at \in {"then", "else", "loop"} =>
       lo.at # "defers" /\ lo.i <= Len(p[lo.body])
  /\ hi.at = "then" /\ hi.orelse # 0 => p[lo.body][lo.i].op = "ifelse"
  /\ hi.at = "deferred" => lo.at = "defers"
  /\ hi.at = "defers" =>
       lo.at # "defers" /\ (lo.i <= Len(p[lo.body]) \/ lo.at = "function")

StackOK(p, n, s) ==
  /\ s[1].at = "function"
  /\ \A j \in 1 .. Len(s) : FrameOK(p, n, s[j])
  /\ \A j \in 1 .. Len(s) : j > 1 => Linked(p, s[j - 1], s[j])

\* loop_blocks holds the blocks after the loops on the stack, innermost first:
\* pos[k] is the frame that its k-th element belongs to.
MatchedBy(s, blks, pos) ==
  /\ \A k \in 1 .. Len(blks) : s[pos[k]].at = "loop" /\ s[pos[k]].after = blks[k]
  /\ \A k, l \in 1 .. Len(blks) : k < l => pos[l] < pos[k]
  /\ \A j \in 1 .. Len(s) : s[j].at = "loop" => \E k \in 1 .. Len(blks) : pos[k] = j

Matched(s, blks) == \E pos \in [1 .. Len(blks) -> 1 .. Len(s)] : MatchedBy(s, blks, pos)

\* The invariant on which the first theorems rest
Inv ==
  /\ TypeOK
  /\ Running => StackOK(fn, blocks, stack) /\ Matched(stack, loop_blocks)
  /\ LoopsLeft

-----------------------------------------------------------------------------
(* The verdict: what is known of the bodies that are being generated *)

\* What is being generated for a deferral does not return or defer now.
PlainHere ==
  InBody /\ This.op \in {"return", "defer"} => Top.body \notin InDeferred(fn)

\* A frame goes through a body up to its first return, or has skipped what comes
\* after that.
PlaceOK(p, f) ==
  f.at # "defers" =>
    /\ f.body \in LiveBodies(p, 1) \union InDeferred(p)
    /\ f.at = "function" => f.body = 1
    /\ f.at = "deferred" => f.body \in InDeferred(p)
    /\ \/ \A r \in Returns(p, f.body) : r >= f.i
       \/ Returns(p, f.body) # {} /\ f.i = Len(p[f.body]) + 1 /\ f.value = 0
    /\ f.value # 0 => f.i = Len(p[f.body]) + 1
    /\ f.returns => /\ f.at \in {"function", "then", "else"}
                    /\ f.i = Len(p[f.body]) + 1 /\ Returns(p, f.body) # {}
    /\ f.at = "function" /\ f.i = Len(p[f.body]) + 1 /\ Returns(p, f.body) # {} => f.returns

\* The statement that a frame waits at is the one that the frame above is for.
WaitsFor(p, d, lo, hi) ==
  /\ hi.at \in {"then", "else", "loop"} => hi.body \in BodiesOf(p, <<lo.body, lo.i>>)
  /\ hi.at = "then" =>
       /\ p[lo.body][lo.i].op = (IF hi.orelse = 0 THEN "if" ELSE "ifelse")
       /\ hi.body = p[lo.body][lo.i].body
  /\ hi.at = "else" => p[lo.body][lo.i].op = "ifelse" /\ hi.body = p[lo.body][lo.i].orelse
  /\ hi.at = "loop" => p[lo.body][lo.i].op = "while" /\ hi.body = p[lo.body][lo.i].body
  /\ hi.at = "deferred" => lo.i \in 1 .. Len(d) /\ hi.body = d[lo.i]
  /\ hi.at = "defers" => /\ lo.body \in LiveBodies(p, 1)
                         /\ lo.i <= Len(p[lo.body]) => p[lo.body][lo.i].op = "return"

\* Above the deferred bodies of a return there is nothing but deferred bodies.
Beyond(p, lo, hi) == lo.at = "defers" => hi.at # "defers" /\ hi.body \in InDeferred(p)

Shape(p, d, s) ==
  /\ \A j \in 1 .. Len(s) : PlaceOK(p, s[j])
  /\ \A j \in 1 .. Len(s) : j > 1 => WaitsFor(p, d, s[j - 1], s[j])
  /\ \A k, j \in 1 .. Len(s) : k < j => Beyond(p, s[k], s[j])

\* What has been deferred is in the text.
DefersOK(p, d) ==
  \A k \in 1 .. Len(d) : \E t \in LiveIn(p, 1) : OpOf(p, t) = "defer" /\ BodyOf(p, t) = d[k]

ShapeInv == Running => Shape(fn, defer_blocks, stack) /\ DefersOK(fn, defer_blocks)

-----------------------------------------------------------------------------
(* The verdict: what makes the verifier reject a function *)

Closed(c, b) == \E i \in 1 .. Len(c) : c[i].block = b /\ Terminator(c, i)

\* Something comes after the terminator of a block.
Doubled(c) ==
  \E i, j \in 1 .. Len(c) : i < j /\ c[i].block = c[j].block /\ Terminator(c, i)

\* The statement t of the text has left the trace by which it is known that
\* the function will be rejected, if it is one of those.
Marked(p, c, d, t) ==
  /\ OpOf(p, t) = "return" /\ IsLoop(p, t[1]) => Doubled(c)
  /\ OpOf(p, t) = "defer" => \E k \in 1 .. Len(d) : d[k] = BodyOf(p, t)

AllMarked(p, c, d, b) == \A t \in LiveIn(p, b) : Marked(p, c, d, t)

\* The frame f has marked what it has gone through, but for a return of its own.
PassedOK(p, c, d, f) ==
  f.at # "defers" /\ f.body \notin InDeferred(p) =>
    \A i \in 1 .. Len(p[f.body]) :
      i < f.i /\ ~Behind(p, <<f.body, i>>) =>
        IF p[f.body][i].op = "defer"
        THEN \E k \in 1 .. Len(d) : d[k] = p[f.body][i].body
        ELSE \A b \in BodiesOf(p, <<f.body, i>>) : AllMarked(p, c, d, b)

ThenPassed(p, c, d, lo, hi) ==
  hi.at = "else" /\ lo.body \notin InDeferred(p) => AllMarked(p, c, d, p[lo.body][lo.i].body)

Passed(p, c, d, s) ==
  /\ \A j \in 1 .. Len(s) : PassedOK(p, c, d, s[j])
  /\ \A j \in 1 .. Len(s) : j > 1 => ThenPassed(p, c, d, s[j - 1], s[j])

\* A loop that has returned is about to end its block a second time.
LoopClosed(p, c, b, f) ==
  f.at = "loop" /\ f.i > Len(p[f.body]) /\ Returns(p, f.body) # {} => Closed(c, b)

\* After a return at the top level the deferred bodies are generated once more.
Repeats(p, c, b, d, s) ==
  s[1].returns =>
    /\ Closed(c, b) \/ Doubled(c)
    /\ Len(s) >= 2 => \A k \in 1 .. Len(d) : k < s[2].i /\ GeneratesCode(p, d[k]) => Doubled(c)
    /\ Len(s) >= 3 => \A i \in 1 .. Len(p[s[3].body]) :
         i < s[3].i /\ p[s[3].body][i].op \notin {"break", "defer"} => Doubled(c)
    /\ Len(s) >= 4 => Doubled(c)

MarkInv ==
  Running => /\ Passed(fn, code, defer_blocks, stack)
             /\ LoopClosed(fn, code, insert, Top)
             /\ Repeats(fn, code, insert, defer_blocks, stack)

-----------------------------------------------------------------------------
(* The verdict: the blocks of a function that is accepted *)

Awaited(f) ==
  (IF f.at \in {"then", "else", "loop"} THEN {f.after} ELSE {})
    \union (IF f.at = "then" /\ f.orelse # 0 THEN {f.orelse} ELSE {})

Empty(c, b) == \A i \in 1 .. Len(c) : c[i].block # b

\* The blocks that a frame waits for are empty.
AwaitsOK(c, n, b, f) ==
  /\ \A a \in Awaited(f) : a \in 1 .. n /\ a # b /\ Empty(c, a)
  /\ f.at = "then" => f.after # f.orelse

Blocks(c, n, b, s) ==
  /\ ~Doubled(c)
  /\ \A j \in 1 .. Len(s) : AwaitsOK(c, n, b, s[j])
  /\ \A k, j \in 1 .. Len(s) : k < j => Awaited(s[k]) \cap Awaited(s[j]) = {}
  /\ \A a \in 1 .. n : Closed(c, a) \/ a = b \/ \E j \in 1 .. Len(s) : a \in Awaited(s[j])

\* The builder stands in a block that has ended only after a return.
Ended(c, b, s) ==
  /\ Closed(c, b) <=> Last(s).returns \/ s[1].returns
  /\ s[1].returns => Len(s) <= 3

BlockInv ==
  Running /\ ~ReturnsInLoop /\ ~ReturnsAndDefers =>
    Blocks(code, blocks, insert, stack) /\ Ended(code, insert, stack)

-----------------------------------------------------------------------------
(* The verdict: the values of a function that is accepted *)

\* Instructions are in blocks that there are, and branch to such.
Targets(c, n) ==
  \A i \in 1 .. Len(c) : c[i].block \in 1 .. n /\ \A k \in 1 .. Len(c[i].to) : c[i].to[k] \in 1 .. n

\* A loop begins at a block that there is; the deferred bodies do not return.
FrameRest(n, f) ==
  /\ f.at = "loop" => f.orelse \in 1 .. n
  /\ f.at = "defers" => ~f.returns

TargetInv ==
  Running => /\ Targets(code, blocks)
             /\ \A j \in 1 .. Len(stack) : FrameRest(blocks, stack[j])

\* A body whose frame has a value is one that hands on a value.
ValueOK(p, c, f) ==
  /\ f.at # "defers" /\ f.value # 0 => f.value \in 1 .. Len(c) /\ Yields(p)[f.body]
  /\ f.at = "else" /\ f.thenValue # 0 => f.thenValue \in 1 .. Len(c)

ThenYields(p, lo, hi) ==
  hi.at = "else" /\ hi.thenValue # 0 => Yields(p)[p[lo.body][lo.i].body]

Values(p, c, s) ==
  /\ \A j \in 1 .. Len(s) : ValueOK(p, c, s[j])
  /\ \A j \in 1 .. Len(s) : j > 1 => ThenYields(p, s[j - 1], s[j])

\* The value of the innermost body is from the block where the builder stands.
FreshValue(c, b, f) == f.at # "defers" /\ f.value # 0 => c[f.value].block = b

ThenBlocks(c, s) ==
  \A j \in 1 .. Len(s) :
    s[j].at = "else" /\ s[j].thenValue # 0 => c[s[j].thenValue].block = s[j].thenBlock

\* Values are used by what merges branches, where they come from.
Phis(c) ==
  \A i \in 1 .. Len(c) : \A k \in 1 .. Len(c[i].args) :
    c[i].args[k] # 0 =>
      c[i].op = "phi" /\ c[i].args[k] \in 1 .. Len(c) /\ c[c[i].args[k]].block = c[i].from[k]

\* While what is deferred is generated at the end of a function: no block up to m
\* leads past m but the one, e, that the value of the function comes from.
Enclosed(c, n, b, s) ==
  Len(s) > 1 /\ s[1].value # 0 =>
    \E m \in 1 .. n : LET e == c[s[1].value].block IN
      /\ e <= m
      /\ \A i \in 1 .. Len(c) :
           c[i].block <= m /\ c[i].block # e => \A k \in 1 .. Len(c[i].to) : c[i].to[k] <= m
      /\ b = e \/ b > m
      /\ \A j \in 2 .. Len(s) : \A a \in Awaited(s[j]) : a > m

ValueInv ==
  Running =>
    /\ Values(fn, code, stack)
    /\ ~UsesLoopValue => /\ FreshValue(code, insert, Top) /\ ThenBlocks(code, stack)
                         /\ Phis(code)
                         /\ Enclosed(code, blocks, insert, stack)

-----------------------------------------------------------------------------
(* The verdict: the generation that never ends *)

\* Neither the bodies in S nor what is nested in them returns or defers.
Plain(p, S) ==
  \A b \in S : \A i \in 1 .. Len(p[b]) :
    p[b][i].op \notin {"return", "defer"} /\ BodiesOf(p, <<b, i>>) \subseteq S

\* When b is deferred, its generation begins with the deferred bodies once more,
\* or makes more of them.
Restarts(p, b) == \A S \in SUBSET (1 .. Len(p)) : Plain(p, S) => b \notin S

PlainBefore(p, f) ==
  \A i \in 1 .. Len(p[f.body]) :
    i < f.i => /\ p[f.body][i].op \notin {"return", "defer"}
               /\ \A c \in BodiesOf(p, <<f.body, i>>) : ~Restarts(p, c)

\* The bodies of the statement that lo waits at, but for the one that hi is for
\* and the one after it, have been generated without that.
PlainBelow(p, lo, hi) ==
  /\ p[lo.body][lo.i].op \notin {"return", "defer"}
  /\ IF hi.at = "then"
     THEN /\ hi.body = p[lo.body][lo.i].body
          /\ hi.orelse = 0 => \A c \in BodiesOf(p, <<lo.body, lo.i>>) : c = hi.body
     ELSE \A c \in BodiesOf(p, <<lo.body, lo.i>>) : c = hi.body \/ ~Restarts(p, c)

\* The deferred body that s[j] has called has not come to what restarts it.
NotYet(p, d, s, j) ==
  /\ s[j + 1].at = "deferred" /\ s[j + 1].body = d[s[j].i]
  /\ \A m \in 1 .. Len(s) : m > j => PlainBefore(p, s[m])
  /\ \A m \in 1 .. Len(s) : m > j + 1 => PlainBelow(p, s[m - 1], s[m])

\* s[j] is the innermost gen_codegen_defer_blocks().
Innermost(s, j) ==
  s[j].at = "defers" /\ \A m \in 1 .. Len(s) : m > j => s[m].at # "defers"

\* The innermost gen_codegen_defer_blocks() has not got past all the bodies that
\* begin or prolong it anew.
NeverEnds(p, d, s) ==
  \E j \in 1 .. Len(s) : \E k \in 1 .. Len(d) :
    /\ Innermost(s, j) /\ Restarts(p, d[k])
    /\ \/ k > s[j].i
       \/ k = s[j].i /\ (j = Len(s) \/ NotYet(p, d, s, j))

\* Everything that leads to the verdict: either what is known of the bodies, marks,
\* blocks and values that there are, or there will be no verdict.
VerdictInv ==
  /\ \/ ShapeInv /\ MarkInv /\ TargetInv /\ BlockInv /\ ValueInv
     \/ Running => NeverEnds(fn, defer_blocks, stack)
  /\ RejectedFor

-----------------------------------------------------------------------------
(* Recursive functions: what their definitions say of them *)

\* The function Fixed(...) is what its recursive definition says.
FixedIs(g, f) ==
  \A b \in 1 .. Len(f) : g[b] =
    (\/ b = 1
     \/ \E o \in 1 .. b - 1 :
             /\ g[o] /\ f[o] # <<>>
             /\ LET s == Last(f[o]) IN
                  /\ s.op \in Fixable(f, o)
                  /\ \/ s.body = b
                     \/ s.op = "ifelse" /\ s.orelse = b /\ f[s.body] # <<>>)

\* The function Yields(...) is what its recursive definition says.
YieldsIs(g, f) ==
  \A b \in 1 .. Len(f) : g[b] =
    (/\ f[b] # <<>> /\ Returns(f, b) = {}
     /\ LET s == Last(f[b]) IN
          \/ s.op \in Valued
          \/ /\ Promoted(f, b, Len(f[b]))
             /\ \/ s.op = "while" /\ g[s.body]
                \/ s.op = "ifelse" /\ g[s.body] /\ g[s.orelse])

\* ReachedWithout(...) is what its recursive definition says.
ReachIs(g, c, n, d) ==
  \A k \in 0 .. n :
    g[k] = IF k = 0 THEN {1} \ {d}
           ELSE g[k - 1] \union ((UNION {Successors(c, b) : b \in g[k - 1]}) \ {d})

-----------------------------------------------------------------------------
(* Steps *)

\* The stack t is the stack s but for its last frame, which is f: one of the calls
\* goes on, calls or returns.
Steps(s, t, n, f) ==
  /\ n \in Nat \ {0} /\ n <= Len(s) + 1 /\ Len(t) = n /\ t[n] = f /\ Last(t) = f
  /\ \A j \in 1 .. n : j # n => t[j] = s[j]

\* The code c is the beginning of the code e.
Extends(c, e) == Len(c) <= Len(e) /\ \A i \in 1 .. Len(c) : e[i] = c[i]

\* What is deferred in d is deferred in e.
Covers(d, e) == \A k \in 1 .. Len(d) : \E l \in 1 .. Len(e) : e[l] = d[k]

\* What merges two branches, and the two blocks that it takes its values from.
PhiOf(b, v, w, from, this) ==
  [Build("phi", b, <<>>, <<>>) EXCEPT !.args = <<v, w>>, !.from = <<from, this>>]

\* What comes after c in e is in the block b, in a block past l, or leads nowhere.
NewIn(c, e, b, l) ==
  \A i \in 1 .. Len(e) : i > Len(c) => e[i].block = b \/ e[i].block > l \/ e[i].to = <<>>

\* The value that the frame f has from a first branch is from where that ended.
ThenFrom(c, f) == f.at = "else" /\ f.thenValue # 0 => c[f.thenValue].block = f.thenBlock

\* What the innermost gen_codegen_defer_blocks() is at, or has before it, restarts it.
Restarting(p, d, s) ==
  \E j \in 1 .. Len(s) : \E k \in 1 .. Len(d) :
    Innermost(s, j) /\ Restarts(p, d[k]) /\ (k > s[j].i \/ k = s[j].i)

===============================================================================
