-------------------------- MODULE AmlContextProofs --------------------------
(***************************************************************************)
(* Proofs about AmlContext, for all programs and however deep calls and     *)
(* blocks nest: the interpreter is always in the scope and in the method    *)
(* context of the term it executes.                                         *)
(***************************************************************************)
EXTENDS AmlContext, SequenceTheorems, TLAPS

FrameFields == {"kind", "name", "args", "scope", "context", "handle"}
Elements(fs) == {fs[i] : i \in 1..Len(fs)}
Stack(fs) == fs \in Seq(Elements(fs)) /\ \A i \in 1..Len(fs) : DOMAIN fs[i] = FrameFields

\* c is the context of the terms in the first n frames: that of the innermost
\* method, or of the user's call.
ContextIn(fs, n, c) ==
    \/ (\A j \in 1..n : fs[j].kind # "method") /\ c = fs[1].context
    \/ \E m \in 1..n : fs[m].kind = "method" /\ (\A j \in (m + 1)..n : fs[j].kind # "method") /\ c = m

\* Each frame remembers the context of the frames below it, and unless an
\* error is under way, the interpreter is in that of all the frames.
Contexts(fs, c, p) ==
    /\ \A i \in 1..Len(fs) : ContextIn(fs, i - 1, fs[i].context)
    /\ fs # <<>> /\ p \notin {"Err", "Panic"} => ContextIn(fs, Len(fs), c)

\* The same for scopes, which blocks change as well; but no scope is put back
\* before what propagates has been caught.
Scoping == {"block", "method"}
ScopeIn(fs, n, s) ==
    \/ (\A j \in 1..n : fs[j].kind \notin Scoping) /\ s = fs[1].scope
    \/ \E m \in 1..n : fs[m].kind \in Scoping /\ (\A j \in (m + 1)..n : fs[j].kind \notin Scoping) /\ s = fs[m].name

Scopes(fs, s, p) ==
    /\ \A i \in 1..Len(fs) : ScopeIn(fs, i - 1, fs[i].scope) /\ fs[i].kind # "while"
    /\ p \notin {"Break", "Continue"}
    /\ fs # <<>> /\ p = "none" => ScopeIn(fs, Len(fs), s)

IInv ==
    /\ Stack(frames)
    /\ Contexts(frames, method_context, propagate)
    /\ ~Allowed("While") => Scopes(frames, current_scope, propagate)

----------------------------------------------------------------------------
\* What Append, AllButLast and a change of the arguments left do to a stack.
LEMMA StackOf ==
    ASSUME NEW fs, NEW n \in Nat, fs = [i \in 1..n |-> fs[i]], \A i \in 1..n : DOMAIN fs[i] = FrameFields
    PROVE  Stack(fs) /\ Len(fs) = n
<1>1. fs \in Seq({fs[i] : i \in 1..n}) /\ Len(fs) = n
  OBVIOUS
<1> QED
  BY <1>1 DEF Stack, Elements

LEMMA Pushed ==
    ASSUME NEW fs, Stack(fs), NEW f, DOMAIN f = FrameFields
    PROVE  /\ Stack(Append(fs, f)) /\ Len(Append(fs, f)) = Len(fs) + 1 /\ Len(fs) \in Nat
           /\ \A i \in 1..Len(fs) : Append(fs, f)[i] = fs[i]
           /\ Append(fs, f)[Len(fs) + 1] = f /\ Append(fs, f) # <<>>
<1> DEFINE t == Append(fs, f)
<1>1. Len(fs) \in Nat /\ fs \in Seq(Elements(fs))
  BY DEF Stack
<1>2. /\ Len(t) = Len(fs) + 1 /\ t = [i \in 1..(Len(fs) + 1) |-> t[i]] /\ t # <<>>
      /\ t[Len(fs) + 1] = f /\ \A i \in 1..Len(fs) : t[i] = fs[i]
  <2>1. fs \in Seq(Elements(fs) \cup {f}) /\ f \in Elements(fs) \cup {f}
    BY <1>1
  <2>2. /\ t \in Seq(Elements(fs) \cup {f}) /\ Len(t) = Len(fs) + 1
        /\ t[Len(fs) + 1] = f /\ \A i \in 1..Len(fs) : t[i] = fs[i]
    BY <2>1, AppendProperties
  <2> HIDE DEF t
  <2> QED
    BY <1>1, <2>2
<1>3. \A i \in 1..(Len(fs) + 1) : DOMAIN t[i] = FrameFields
  BY <1>1, <1>2 DEF Stack
<1> HIDE DEF t
<1>4. Stack(t)
  BY <1>1, <1>2, <1>3, StackOf, SMTT(30)
<1> QED
  BY <1>1, <1>2, <1>4, SMTT(30) DEF t

LEMMA Popped ==
    ASSUME NEW fs, Stack(fs), fs # <<>>
    PROVE  /\ Stack(AllButLast(fs)) /\ Len(AllButLast(fs)) = Len(fs) - 1 /\ Len(fs) \in Nat /\ Len(fs) > 0
           /\ \A i \in 1..(Len(fs) - 1) : AllButLast(fs)[i] = fs[i]
           /\ LastOf(fs) = fs[Len(fs)] /\ (AllButLast(fs) # <<>> => Len(fs) > 1)
<1> DEFINE t == AllButLast(fs)
<1>1. Len(fs) \in Nat /\ Len(fs) > 0 /\ fs \in Seq(Elements(fs)) /\ Len(fs) - 1 \in Nat
  BY DEF Stack
<1>2. t = [i \in 1..(Len(fs) - 1) |-> fs[i]]
  BY <1>1 DEF AllButLast
<1>3. t = [i \in 1..(Len(fs) - 1) |-> t[i]] /\ \A i \in 1..(Len(fs) - 1) : t[i] = fs[i] /\ DOMAIN t[i] = FrameFields
  BY <1>1, <1>2 DEF Stack
<1> HIDE DEF t
<1>4. Stack(t) /\ Len(t) = Len(fs) - 1
  BY <1>1, <1>3, StackOf, Zenon
<1>5. t # <<>> => Len(fs) - 1 # 0
  BY <1>1, <1>4, EmptySeq DEF Stack
<1> QED
  BY <1>1, <1>3, <1>4, <1>5, SMTT(30) DEF t, LastOf

\* Frames that agree on all but the arguments left.
Alike(fs, t) ==
    /\ Stack(t) /\ Len(t) = Len(fs) /\ (t # <<>> <=> fs # <<>>)
    /\ \A i \in 1..Len(fs) : /\ t[i].kind = fs[i].kind /\ t[i].name = fs[i].name
                             /\ t[i].scope = fs[i].scope /\ t[i].context = fs[i].context

LEMMA ArgParsedIsAlike ==
    ASSUME Stack(frames), frames # <<>>
    PROVE  Alike(frames, ArgParsed)
<1> DEFINE n == Len(frames)
           t == [frames EXCEPT ![n].args = @ - 1]
<1>1. n \in Nat /\ n > 0 /\ frames \in Seq(Elements(frames)) /\ \A i \in 1..n : DOMAIN frames[i] = FrameFields
  BY DEF Stack
<1>2. Alike(frames, frames)
  BY DEF Alike
<1>3. Alike(frames, t)
  <2>1. /\ t = [i \in 1..n |-> t[i]]
        /\ \A i \in 1..n : t[i] = IF i = n THEN [frames[n] EXCEPT !.args = frames[n].args - 1] ELSE frames[i]
    <3>1. frames = [i \in 1..n |-> frames[i]] /\ n \in 1..n
      BY <1>1
    <3> HIDE DEF n
    <3>2. \A r : [frames EXCEPT ![n] = r] = [i \in 1..n |-> IF i = n THEN r ELSE frames[i]]
      BY <3>1
    <3> QED
      BY <3>2, Zenon
  <2>2. DOMAIN [frames[n] EXCEPT !.args = frames[n].args - 1] = FrameFields
    BY <1>1
  <2>3. /\ [frames[n] EXCEPT !.args = frames[n].args - 1].kind = frames[n].kind
        /\ [frames[n] EXCEPT !.args = frames[n].args - 1].name = frames[n].name
        /\ [frames[n] EXCEPT !.args = frames[n].args - 1].scope = frames[n].scope
        /\ [frames[n] EXCEPT !.args = frames[n].args - 1].context = frames[n].context
    BY <1>1 DEF FrameFields
  <2>4. \A i \in 1..n : DOMAIN t[i] = FrameFields
    BY <1>1, <2>1, <2>2
  <2>5. \A i \in 1..n : /\ t[i].kind = frames[i].kind /\ t[i].name = frames[i].name
                        /\ t[i].scope = frames[i].scope /\ t[i].context = frames[i].context
    BY <2>1, <2>3
  <2> HIDE DEF t
  <2>6. Stack(t) /\ Len(t) = n
    BY <1>1, <2>1, <2>4, StackOf, SMTT(30)
  <2>7. t # <<>>
    BY <1>1, <2>6
  <2> QED
    BY <2>5, <2>6, <2>7 DEF Alike
<1> QED
  BY <1>2, <1>3 DEF ArgParsed

----------------------------------------------------------------------------
\* ContextIn looks at no more of the frames than it is asked about.
LEMMA ContextInPrefix ==
    ASSUME NEW fs, NEW t, NEW n \in Nat, n > 0, NEW c,
           \A i \in 1..n : t[i].kind = fs[i].kind /\ t[i].context = fs[i].context
    PROVE  ContextIn(fs, n, c) => ContextIn(t, n, c)
BY DEF ContextIn

LEMMA ScopeInPrefix ==
    ASSUME NEW fs, NEW t, NEW n \in Nat, n > 0, NEW s,
           \A i \in 1..n : t[i].kind = fs[i].kind /\ t[i].scope = fs[i].scope /\ t[i].name = fs[i].name
    PROVE  ScopeIn(fs, n, s) => ScopeIn(t, n, s)
BY DEF ScopeIn

\* Below the first frame there is only what that frame remembers.
LEMMA FirstFrame ==
    ASSUME NEW fs
    PROVE  ContextIn(fs, 0, fs[1].context) /\ ScopeIn(fs, 0, fs[1].scope)
BY DEF ContextIn, ScopeIn

\* A frame is pushed by what runs in the frames there are.
LEMMA PushContexts ==
    ASSUME NEW fs, Stack(fs), NEW f, DOMAIN f = FrameFields, Contexts(fs, f.context, "none"), NEW p
    PROVE  Contexts(Append(fs, f), IF f.kind = "method" THEN Len(fs) + 1 ELSE f.context, p)
<1> DEFINE t == Append(fs, f)
           n == Len(fs)
<1>1. /\ Len(t) = n + 1 /\ n \in Nat /\ t[n + 1] = f /\ \A i \in 1..n : t[i] = fs[i]
  BY Pushed
<1> HIDE DEF t, n
<1>2. ASSUME NEW i \in 1..n PROVE ContextIn(t, i - 1, t[i].context)
  <2>1. CASE i = 1
    BY <2>1, FirstFrame
  <2>2. CASE i # 1
    <3>1. i - 1 \in Nat /\ i - 1 > 0 /\ 1..(i - 1) \subseteq 1..n
      BY <1>1, <2>2
    <3>2. ContextIn(fs, i - 1, fs[i].context)
      BY DEF Contexts, n
    <3> QED
      BY <1>1, <3>1, <3>2, ContextInPrefix, SMTT(30)
  <2> QED
    BY <2>1, <2>2
<1>3. ContextIn(t, (n + 1) - 1, t[n + 1].context)
  <2>1. CASE n = 0
    BY <2>1, FirstFrame
  <2>2. CASE n # 0
    <3>1. ContextIn(fs, n, f.context)
      BY <1>1, <2>2, EmptySeq DEF Contexts, Stack, n
    <3>2. n > 0 /\ (n + 1) - 1 = n
      BY <1>1, <2>2
    <3> QED
      BY <1>1, <3>1, <3>2, ContextInPrefix, SMTT(30)
  <2> QED
    BY <1>1, <2>1, <2>2
<1>4. ContextIn(t, n + 1, IF f.kind = "method" THEN n + 1 ELSE f.context)
  <2>1. CASE f.kind = "method"
    BY <1>1, <2>1 DEF ContextIn
  <2>2. CASE f.kind # "method"
    <3>1. ContextIn(t, n, f.context)
      BY <1>1, <1>3
    <3>2. \A j \in 1..(n + 1) : j \in 1..n \/ j = n + 1
      BY <1>1
    <3> QED
      BY <1>1, <2>2, <3>1, <3>2, SMTT(30) DEF ContextIn
  <2> QED
    BY <2>1, <2>2
<1>5. \A i \in 1..Len(t) : i \in 1..n \/ i = n + 1
  BY <1>1
<1> QED
  BY <1>1, <1>2, <1>3, <1>4, <1>5 DEF Contexts, t, n

LEMMA PushScopes ==
    ASSUME NEW fs, Stack(fs), NEW f, DOMAIN f = FrameFields, Scopes(fs, f.scope, "none"), f.kind # "while"
    PROVE  Scopes(Append(fs, f), IF f.kind \in Scoping THEN f.name ELSE f.scope, "none")
<1> DEFINE t == Append(fs, f)
           n == Len(fs)
<1>1. /\ Len(t) = n + 1 /\ n \in Nat /\ t[n + 1] = f /\ \A i \in 1..n : t[i] = fs[i]
  BY Pushed
<1> HIDE DEF t, n
<1>2. ASSUME NEW i \in 1..n PROVE ScopeIn(t, i - 1, t[i].scope) /\ t[i].kind # "while"
  <2>0. t[i].kind # "while"
    BY <1>1 DEF Scopes, n
  <2>1. CASE i = 1
    BY <2>0, <2>1, FirstFrame
  <2>2. CASE i # 1
    <3>1. i - 1 \in Nat /\ i - 1 > 0 /\ 1..(i - 1) \subseteq 1..n
      BY <1>1, <2>2
    <3>2. ScopeIn(fs, i - 1, fs[i].scope)
      BY DEF Scopes, n
    <3> QED
      BY <1>1, <2>0, <3>1, <3>2, ScopeInPrefix, SMTT(30)
  <2> QED
    BY <2>1, <2>2
<1>3. ScopeIn(t, (n + 1) - 1, t[n + 1].scope)
  <2>1. CASE n = 0
    BY <2>1, FirstFrame
  <2>2. CASE n # 0
    <3>1. ScopeIn(fs, n, f.scope)
      BY <1>1, <2>2, EmptySeq DEF Scopes, Stack, n
    <3>2. n > 0 /\ (n + 1) - 1 = n
      BY <1>1, <2>2
    <3> QED
      BY <1>1, <3>1, <3>2, ScopeInPrefix
  <2> QED
    BY <1>1, <2>1, <2>2
<1>4. ScopeIn(t, n + 1, IF f.kind \in Scoping THEN f.name ELSE f.scope)
  <2>1. CASE f.kind \in Scoping
    BY <1>1, <2>1 DEF ScopeIn
  <2>2. CASE f.kind \notin Scoping
    <3>1. ScopeIn(t, n, f.scope)
      BY <1>1, <1>3
    <3>2. \A j \in 1..(n + 1) : j \in 1..n \/ j = n + 1
      BY <1>1
    <3> QED
      BY <1>1, <2>2, <3>1, <3>2, SMTT(30) DEF ScopeIn
  <2> QED
    BY <2>1, <2>2
<1>5. \A i \in 1..Len(t) : i \in 1..n \/ i = n + 1
  BY <1>1
<1> QED
  BY <1>1, <1>2, <1>3, <1>4, <1>5 DEF Scopes, t, n

\* The frames below the last one run in the context it remembers, which is
\* that of the last one itself unless it is a method.
LEMMA PopContexts ==
    ASSUME NEW fs, Stack(fs), fs # <<>>, NEW c, NEW p, Contexts(fs, c, p), NEW q
    PROVE  /\ Contexts(AllButLast(fs), LastOf(fs).context, q)
           /\ LastOf(fs).kind # "method" => Contexts(AllButLast(fs), c, p)
<1> DEFINE t == AllButLast(fs)
           n == Len(fs)
<1>1. /\ Len(t) = n - 1 /\ n \in Nat /\ n > 0 /\ \A i \in 1..(n - 1) : t[i] = fs[i]
      /\ LastOf(fs) = fs[n] /\ (t # <<>> => n - 1 > 0 /\ n - 1 \in Nat)
  BY Popped
<1> HIDE DEF t, n
<1>2. ASSUME NEW i \in 1..(n - 1) PROVE ContextIn(t, i - 1, t[i].context)
  <2>1. CASE i = 1
    BY <2>1, FirstFrame
  <2>2. CASE i # 1
    <3>1. i - 1 \in Nat /\ i - 1 > 0 /\ 1..(i - 1) \subseteq 1..(n - 1) /\ i \in 1..n
      BY <1>1, <2>2
    <3>2. ContextIn(fs, i - 1, fs[i].context)
      BY <3>1 DEF Contexts, n
    <3> QED
      BY <1>1, <3>1, <3>2, ContextInPrefix, SMTT(30)
  <2> QED
    BY <2>1, <2>2
<1>3. t # <<>> => ContextIn(t, n - 1, fs[n].context)
  <2>1. ContextIn(fs, n - 1, fs[n].context)
    BY <1>1 DEF Contexts, n
  <2> QED
    BY <1>1, <2>1, ContextInPrefix, SMTT(30)
<1>4. ASSUME t # <<>>, fs[n].kind # "method", p \notin {"Err", "Panic"} PROVE ContextIn(t, n - 1, c)
  <2>1. ContextIn(fs, n, c)
    BY <1>4 DEF Contexts, n
  <2>2. \A j \in 1..n : j \in 1..(n - 1) \/ j = n
    BY <1>1
  <2>3. ContextIn(fs, n - 1, c)
    BY <1>1, <1>4, <2>1, <2>2, SMTT(30) DEF ContextIn
  <2> QED
    BY <1>1, <1>4, <2>3, ContextInPrefix, SMTT(30)
<1> QED
  BY <1>1, <1>2, <1>3, <1>4 DEF Contexts, t

LEMMA PopScopes ==
    ASSUME NEW fs, Stack(fs), fs # <<>>, NEW s, NEW p, Scopes(fs, s, p), NEW q, q \notin {"Break", "Continue"}
    PROVE  /\ Scopes(AllButLast(fs), LastOf(fs).scope, q)
           /\ LastOf(fs).kind \notin Scoping => Scopes(AllButLast(fs), s, p)
           /\ LastOf(fs).kind # "while"
<1> DEFINE t == AllButLast(fs)
           n == Len(fs)
<1>1. /\ Len(t) = n - 1 /\ n \in Nat /\ n > 0 /\ \A i \in 1..(n - 1) : t[i] = fs[i]
      /\ LastOf(fs) = fs[n] /\ (t # <<>> => n - 1 > 0 /\ n - 1 \in Nat)
  BY Popped
<1> HIDE DEF t, n
<1>2. ASSUME NEW i \in 1..(n - 1) PROVE ScopeIn(t, i - 1, t[i].scope) /\ t[i].kind # "while"
  <2>0. t[i].kind # "while" /\ i \in 1..n
    BY <1>1 DEF Scopes, n
  <2>1. CASE i = 1
    BY <2>0, <2>1, FirstFrame
  <2>2. CASE i # 1
    <3>1. i - 1 \in Nat /\ i - 1 > 0 /\ 1..(i - 1) \subseteq 1..(n - 1)
      BY <1>1, <2>2
    <3>2. ScopeIn(fs, i - 1, fs[i].scope)
      BY <2>0 DEF Scopes, n
    <3> QED
      BY <1>1, <2>0, <3>1, <3>2, ScopeInPrefix
  <2> QED
    BY <2>1, <2>2
<1>3. t # <<>> => ScopeIn(t, n - 1, fs[n].scope)
  <2>1. ScopeIn(fs, n - 1, fs[n].scope)
    BY <1>1 DEF Scopes, n
  <2> QED
    BY <1>1, <2>1, ScopeInPrefix
<1>4. ASSUME t # <<>>, fs[n].kind \notin Scoping, p = "none" PROVE ScopeIn(t, n - 1, s)
  <2>1. ScopeIn(fs, n, s)
    BY <1>4 DEF Scopes, n
  <2>2. \A j \in 1..n : j \in 1..(n - 1) \/ j = n
    BY <1>1
  <2>3. ScopeIn(fs, n - 1, s)
    BY <1>1, <1>4, <2>1, <2>2, SMTT(30) DEF ScopeIn
  <2> QED
    BY <1>1, <1>4, <2>3, ScopeInPrefix, SMTT(30)
<1>5. fs[n].kind # "while"
  BY <1>1 DEF Scopes, n
<1> QED
  BY <1>1, <1>2, <1>3, <1>4, <1>5 DEF Scopes, t

\* An error says nothing of the context and the scope it leaves behind.
LEMMA ErrorsKeep ==
    ASSUME NEW fs, NEW c, NEW p, Contexts(fs, c, p), NEW d, NEW q \in {"Err", "Panic"}
    PROVE  Contexts(fs, d, q)
BY DEF Contexts

LEMMA JumpsKeep ==
    ASSUME NEW fs, NEW s, NEW p, Scopes(fs, s, p), NEW u, NEW q \in {"Err", "Panic", "Return"}
    PROVE  Scopes(fs, u, q)
BY DEF Scopes

LEMMA NoFrames ==
    /\ Stack(<<>>)
    /\ \A c, p : Contexts(<<>>, c, p)
    /\ \A s, p : p \notin {"Break", "Continue"} => Scopes(<<>>, s, p)
BY DEF Stack, Contexts, Scopes

LEMMA AlikeKeep ==
    ASSUME NEW fs, Stack(fs), NEW t, Alike(fs, t)
    PROVE  /\ \A c, p : Contexts(fs, c, p) => Contexts(t, c, p)
           /\ \A s, p : Scopes(fs, s, p) => Scopes(t, s, p)
<1>0. Len(fs) \in Nat /\ (fs # <<>> => Len(fs) > 0)
  BY DEF Stack
<1>1. ASSUME NEW i \in 1..Len(fs) PROVE i = 1 \/ (i - 1 \in Nat /\ i - 1 > 0 /\ 1..(i - 1) \subseteq 1..Len(fs))
  BY <1>0
<1>2. ASSUME NEW c, NEW p, Contexts(fs, c, p) PROVE Contexts(t, c, p)
  <2>1. ASSUME NEW i \in 1..Len(fs) PROVE ContextIn(t, i - 1, t[i].context)
    <3>1. CASE i = 1
      BY <3>1, FirstFrame
    <3>2. CASE i # 1
      <4>1. i - 1 \in Nat /\ i - 1 > 0 /\ \A j \in 1..(i - 1) : t[j].kind = fs[j].kind /\ t[j].context = fs[j].context
        BY <1>1, <3>2 DEF Alike
      <4>2. ContextIn(fs, i - 1, t[i].context)
        BY <1>2 DEF Contexts, Alike
      <4> QED
        BY <4>1, <4>2, ContextInPrefix
    <3> QED
      BY <3>1, <3>2
  <2>2. ASSUME fs # <<>>, p \notin {"Err", "Panic"} PROVE ContextIn(t, Len(fs), c)
    <3>1. ContextIn(fs, Len(fs), c) /\ \A j \in 1..Len(fs) : t[j].kind = fs[j].kind /\ t[j].context = fs[j].context
      BY <1>2, <2>2 DEF Contexts, Alike
    <3> QED
      BY <1>0, <2>2, <3>1, ContextInPrefix, SMTT(30)
  <2> QED
    BY <2>1, <2>2 DEF Contexts, Alike
<1>3. ASSUME NEW s, NEW p, Scopes(fs, s, p) PROVE Scopes(t, s, p)
  <2>1. ASSUME NEW i \in 1..Len(fs) PROVE ScopeIn(t, i - 1, t[i].scope) /\ t[i].kind # "while"
    <3>0. t[i].kind # "while"
      BY <1>3 DEF Scopes, Alike
    <3>1. CASE i = 1
      BY <3>0, <3>1, FirstFrame, SMTT(30)
    <3>2. CASE i # 1
      <4>1. /\ i - 1 \in Nat /\ i - 1 > 0
            /\ \A j \in 1..(i - 1) : t[j].kind = fs[j].kind /\ t[j].scope = fs[j].scope /\ t[j].name = fs[j].name
        BY <1>1, <3>2 DEF Alike
      <4>2. ScopeIn(fs, i - 1, t[i].scope)
        BY <1>3 DEF Scopes, Alike
      <4> QED
        BY <3>0, <4>1, <4>2, ScopeInPrefix, SMTT(30)
    <3> QED
      BY <3>1, <3>2
  <2>2. ASSUME fs # <<>>, p = "none" PROVE ScopeIn(t, Len(fs), s)
    <3>1. /\ ScopeIn(fs, Len(fs), s)
          /\ \A j \in 1..Len(fs) : t[j].kind = fs[j].kind /\ t[j].scope = fs[j].scope /\ t[j].name = fs[j].name
      BY <1>3, <2>2 DEF Scopes, Alike
    <3> QED
      BY <1>0, <2>2, <3>1, ScopeInPrefix, SMTT(30)
  <2>3. p \notin {"Break", "Continue"}
    BY <1>3 DEF Scopes
  <2> QED
    BY <2>1, <2>2, <2>3 DEF Scopes, Alike
<1> QED
  BY <1>2, <1>3

----------------------------------------------------------------------------
(***************************************************************************)
(* The actions, by what they do to the stack.                               *)
(***************************************************************************)

\* What an error raised by the namespace propagates as.
LEMMA RaisedIs ==
    ASSUME NEW res
    PROVE  IF res.ok THEN Raised(res) = "none" ELSE Raised(res) \in {"Err", "Panic"}
BY DEF Raised

LEMMA FinishKeepsInvariant ==
    ASSUME NEW below, Stack(below), NEW outcome \in {"none", "Err", "Panic"}, Finish(below, outcome), UNCHANGED program,
           Contexts(below, method_context', outcome),
           ~Allowed("While") => Scopes(below, current_scope', outcome)
    PROVE  IInv'
<1>1. CASE below = <<>> /\ outcome # "Panic"
  BY <1>1, NoFrames DEF Finish, IInv, Allowed
<1>2. CASE ~(below = <<>> /\ outcome # "Panic")
  BY <1>2 DEF Finish, IInv, Allowed
<1> QED
  BY <1>1, <1>2

LEMMA FrameIs ==
    ASSUME NEW kind, NEW name, NEW args
    PROVE  /\ DOMAIN Frame(kind, name, args) = FrameFields
           /\ Frame(kind, name, args).kind = kind /\ Frame(kind, name, args).name = name
           /\ Frame(kind, name, args).scope = current_scope /\ Frame(kind, name, args).context = method_context
BY DEF Frame, FrameFields

\* A frame is pushed onto frames in which terms are executed.
LEMMA PushKeepsInvariant ==
    ASSUME NEW fs, Stack(fs), Contexts(fs, method_context, "none"),
           ~Allowed("While") => Scopes(fs, current_scope, "none"),
           NEW kind, NEW name, NEW args, kind = "while" => Allowed("While"),
           frames' = Append(fs, Frame(kind, name, args)), propagate' = "none", UNCHANGED program,
           method_context' = IF kind = "method" THEN Len(fs) + 1 ELSE method_context,
           current_scope' = IF kind \in Scoping THEN name ELSE current_scope
    PROVE  IInv'
<1> DEFINE f == Frame(kind, name, args)
<1>1. /\ DOMAIN f = FrameFields /\ f.kind = kind /\ f.name = name
      /\ f.scope = current_scope /\ f.context = method_context
  BY FrameIs
<1> HIDE DEF f
<1>2. Stack(Append(fs, f))
  BY <1>1, Pushed
<1>3. Contexts(Append(fs, f), method_context', "none")
  <2>1. Contexts(fs, f.context, "none")
    BY <1>1
  <2>2. Contexts(Append(fs, f), IF f.kind = "method" THEN Len(fs) + 1 ELSE f.context, "none")
    BY <1>1, <2>1, PushContexts
  <2> QED
    BY <1>1, <2>2
<1>4. ASSUME ~Allowed("While") PROVE Scopes(Append(fs, f), current_scope', "none")
  <2>1. Scopes(fs, f.scope, "none") /\ f.kind # "while"
    BY <1>1, <1>4
  <2>2. Scopes(Append(fs, f), IF f.kind \in Scoping THEN f.name ELSE f.scope, "none")
    BY <1>1, <2>1, PushScopes
  <2> QED
    BY <1>1, <2>2
<1> QED
  BY <1>2, <1>3, <1>4, SMTT(30) DEF IInv, Allowed, f

\* A term that pushes nothing: it goes on, fails, or jumps.
LEMMA TermKeepsInvariant ==
    ASSUME IInv, Running, UNCHANGED <<program, frames, method_context>>,
           \/ propagate' = "none" /\ UNCHANGED current_scope
           \/ propagate' \in {"Err", "Panic", "Return"}
           \/ propagate' \in {"Break", "Continue"} /\ Allowed("While")
    PROVE  IInv'
<1>1. propagate = "none" /\ Contexts(frames, method_context, "none") /\ (~Allowed("While") => Scopes(frames, current_scope, "none"))
  BY DEF IInv, Running
<1>2. Contexts(frames, method_context, propagate')
  BY <1>1 DEF Contexts
<1>3. ~Allowed("While") => Scopes(frames, current_scope', propagate')
  BY <1>1, JumpsKeep
<1> QED
  BY <1>2, <1>3 DEF IInv, Allowed

\* The definitions of plain objects.
LEMMA AddObjectKeepsInvariant ==
    ASSUME IInv, NEW added, AddObject(added)
    PROVE  IInv'
<1>1. propagate' \in {"none", "Err", "Panic"}
  BY RaisedIs DEF AddObject
<1> QED
  BY <1>1, TermKeepsInvariant DEF AddObject, InTermList

\* What runs on top of the frames when a term is executed.
LEMMA RunningFacts ==
    ASSUME IInv, Running
    PROVE  /\ Stack(frames) /\ frames # <<>> /\ propagate = "none"
           /\ Contexts(frames, method_context, "none")
           /\ ~Allowed("While") => Scopes(frames, current_scope, "none")
BY DEF IInv, Running

LEMMA DefScopeKeepsInvariant ==
    ASSUME IInv, NEW name, DefScope(name)
    PROVE  IInv'
<1> DEFINE scope == resolve(name, current_scope)
           added == add_level(ns, scope.val, "Scope")
<1>1. Running /\ UNCHANGED <<program, method_context>>
  BY DEF DefScope, InTermList
<1>2. CASE ~scope.ok /\ propagate' = Raised(scope) /\ UNCHANGED frames
  <2>1. propagate' \in {"Err", "Panic"}
    BY <1>2, RaisedIs
  <2> QED
    BY <1>1, <1>2, <2>1, TermKeepsInvariant, SMTT(30)
<1>3. CASE ~added.res.ok /\ propagate' = Raised(added.res) /\ UNCHANGED frames
  <2>1. propagate' \in {"Err", "Panic"}
    BY <1>3, RaisedIs
  <2> QED
    BY <1>1, <1>3, <2>1, TermKeepsInvariant, SMTT(30)
<1>4. CASE added.res.ok /\ propagate' = Raised(added.res) /\ current_scope' = scope.val
           /\ frames' = Append(frames, Frame("block", scope.val, 0))
  <2>1. propagate' = "none"
    BY <1>4, RaisedIs
  <2> HIDE DEF scope, added
  <2>2. current_scope' = (IF "block" \in Scoping THEN scope.val ELSE current_scope)
    BY <1>4 DEF Scoping
  <2> QED
    BY <1>1, <1>4, <2>1, <2>2, RunningFacts, PushKeepsInvariant, SMTT(30)
<1> QED
  BY <1>2, <1>3, <1>4, SMTT(30) DEF DefScope, Push

LEMMA EnterObjectKeepsInvariant ==
    ASSUME IInv, NEW path, NEW added, EnterObject(path, added)
    PROVE  IInv'
<1>1. Running /\ UNCHANGED <<program, method_context>>
  BY DEF EnterObject, InTermList
<1>2. CASE ~path.ok /\ propagate' = Raised(path) /\ UNCHANGED frames
  <2>1. propagate' \in {"Err", "Panic"}
    BY <1>2, RaisedIs
  <2> QED
    BY <1>1, <1>2, <2>1, TermKeepsInvariant, SMTT(30)
<1>3. CASE ~added.res.ok /\ propagate' = Raised(added.res) /\ UNCHANGED frames
  <2>1. propagate' \in {"Err", "Panic"}
    BY <1>3, RaisedIs
  <2> QED
    BY <1>1, <1>3, <2>1, TermKeepsInvariant
<1>4. CASE added.res.ok /\ propagate' = Raised(added.res) /\ current_scope' = path.val
           /\ frames' = Append(frames, Frame("block", path.val, 0))
  <2>1. propagate' = "none"
    BY <1>4, RaisedIs
  <2>2. current_scope' = (IF "block" \in Scoping THEN path.val ELSE current_scope)
    BY <1>4 DEF Scoping
  <2> QED
    BY <1>1, <1>4, <2>1, <2>2, RunningFacts, PushKeepsInvariant, SMTT(30)
<1> QED
  BY <1>2, <1>3, <1>4, SMTT(30) DEF EnterObject, Push

LEMMA MethodInvocationKeepsInvariant ==
    ASSUME IInv, NEW name, MethodInvocation(name)
    PROVE  IInv'
<1> DEFINE found == search(ns, name, current_scope)
           object == ns.object_map[found.val.handle]
<1>1. /\ Running /\ UNCHANGED <<program, current_scope, method_context>> /\ propagate' = Raised(found)
      /\ frames' = IF ~found.ok THEN frames
                   ELSE IF object.type # "Method" THEN ArgParsed
                   ELSE Append(ArgParsed, Frame("args", found.val.name, object.arg_count))
  BY DEF MethodInvocation, ExpectsTerm
<1> HIDE DEF found, object
<1>r. IF found.ok THEN propagate' = "none" ELSE propagate' \in {"Err", "Panic"}
  BY <1>1, RaisedIs
<1>a. Alike(frames, ArgParsed)
  BY <1>1, RunningFacts, ArgParsedIsAlike, SMTT(30)
<1>b. /\ Stack(ArgParsed) /\ Contexts(ArgParsed, method_context, "none")
      /\ ~Allowed("While") => Scopes(ArgParsed, current_scope, "none")
  BY <1>1, <1>a, RunningFacts, AlikeKeep DEF Alike
<1>2. CASE ~found.ok
  BY <1>1, <1>r, <1>2, TermKeepsInvariant, SMTT(30)
<1>3. CASE found.ok /\ object.type # "Method"
  BY <1>1, <1>r, <1>b, <1>3, SMTT(30) DEF IInv, Allowed
<1>4. CASE found.ok /\ object.type = "Method"
  <2>1. /\ frames' = Append(ArgParsed, Frame("args", found.val.name, object.arg_count)) /\ propagate' = "none"
        /\ method_context' = (IF "args" = "method" THEN Len(ArgParsed) + 1 ELSE method_context)
        /\ current_scope' = (IF "args" \in Scoping THEN found.val.name ELSE current_scope)
    BY <1>1, <1>r, <1>4, SMTT(30) DEF Scoping
  <2> QED
    BY <1>1, <1>b, <2>1, PushKeepsInvariant, SMTT(30)
<1> QED
  BY <1>2, <1>3, <1>4, SMTT(30)

\* invoke_method, over frames in which it is a term or over none.
LEMMA EnterKeepsInvariant ==
    ASSUME NEW path, NEW below, Enter(path, below), UNCHANGED program, propagate = "none",
           Stack(below), Contexts(below, method_context, "none"),
           ~Allowed("While") => Scopes(below, current_scope, "none")
    PROVE  IInv'
<1> DEFINE found == get_by_path(ns, path)
           added == add_level(ns, path, "MethodLocals")
<1>1. ASSUME NEW outcome \in {"Err", "Panic"}, Finish(below, outcome) PROVE IInv'
  <2>1. Contexts(below, method_context', outcome)
    BY ErrorsKeep
  <2>2. ~Allowed("While") => Scopes(below, current_scope', outcome)
    BY JumpsKeep
  <2> QED
    BY <1>1, <2>1, <2>2, FinishKeepsInvariant, SMTT(30)
<1>2. ASSUME Finish(below, "none"), UNCHANGED <<current_scope, method_context>> PROVE IInv'
  BY <1>2, FinishKeepsInvariant
<1>3. ASSUME found.ok, added.res.ok, current_scope' = path, method_context' = Len(below) + 1,
             frames' = Append(below, Frame("method", path, 0)), UNCHANGED propagate
      PROVE  IInv'
  <2>1. /\ method_context' = (IF "method" = "method" THEN Len(below) + 1 ELSE method_context)
        /\ current_scope' = (IF "method" \in Scoping THEN path ELSE current_scope) /\ propagate' = "none"
    BY <1>3 DEF Scoping
  <2> QED
    BY <1>3, <2>1, PushKeepsInvariant
<1>4. CASE ~found.ok /\ Finish(below, Raised(found))
  <2>1. Raised(found) \in {"Err", "Panic"}
    BY <1>4, RaisedIs
  <2> QED
    BY <1>1, <1>4, <2>1
<1>5. CASE ~added.res.ok /\ Finish(below, Raised(added.res))
  <2>1. Raised(added.res) \in {"Err", "Panic"}
    BY <1>5, RaisedIs
  <2> QED
    BY <1>1, <1>5, <2>1
<1>6. CASE (\E outcome \in {"none", "Err"} : Finish(below, outcome)) /\ UNCHANGED <<current_scope, method_context>>
  BY <1>1, <1>2, <1>6, SMTT(30)
<1> HIDE DEF found, added
<1>7. \/ ~found.ok /\ Finish(below, Raised(found))
      \/ Finish(below, "none") /\ UNCHANGED <<current_scope, method_context>>
      \/ found.ok /\ added.res.ok /\ current_scope' = path /\ method_context' = Len(below) + 1
         /\ frames' = Append(below, Frame("method", path, 0)) /\ UNCHANGED propagate
      \/ ~added.res.ok /\ Finish(below, Raised(added.res))
      \/ (\E outcome \in {"none", "Err"} : Finish(below, outcome)) /\ UNCHANGED <<current_scope, method_context>>
  BY DEF Enter, found, added
<1> QED
  BY <1>2, <1>3, <1>4, <1>5, <1>6, <1>7, SMTT(30)

LEMMA CallsKeepInvariant ==
    ASSUME IInv, ParseTable \/ Invoke \/ (\E seg \in Segs : InvokeMethod(<<Root, seg>>))
    PROVE  IInv'
<1>e. /\ Stack(<<>>) /\ Contexts(<<>>, method_context, "none") /\ Scopes(<<>>, current_scope, "none")
  BY NoFrames
<1>1. CASE Invoke
  <2>1. Running /\ Top.kind = "args" /\ Enter(Top.name, AllButLast(frames)) /\ UNCHANGED program
    BY <1>1 DEF Invoke
  <2>2. /\ Stack(frames) /\ frames # <<>> /\ propagate = "none" /\ Contexts(frames, method_context, "none")
        /\ ~Allowed("While") => Scopes(frames, current_scope, "none")
    BY <2>1, RunningFacts
  <2>3. Stack(AllButLast(frames))
    BY <2>2, Popped
  <2>4. Contexts(AllButLast(frames), method_context, "none")
    BY <2>1, <2>2, PopContexts, SMTT(30) DEF Top
  <2>5. ASSUME ~Allowed("While") PROVE Scopes(AllButLast(frames), current_scope, "none")
    <3>1. LastOf(frames).kind \notin Scoping
      BY <2>1 DEF Top, Scoping
    <3> QED
      BY <2>2, <2>5, <3>1, PopScopes, SMTT(30)
  <2> QED
    BY <2>1, <2>2, <2>3, <2>4, <2>5, EnterKeepsInvariant
<1>2. ASSUME NEW seg \in Segs, InvokeMethod(<<Root, seg>>) PROVE IInv'
  BY <1>e, <1>2, EnterKeepsInvariant, SMTT(30) DEF InvokeMethod, Idle
<1>3. CASE ParseTable
  <2>1. frames = <<>> /\ propagate = "none" /\ UNCHANGED <<program, current_scope, method_context, propagate>>
    BY <1>3 DEF ParseTable, Idle
  <2>2. CASE frames' = <<Frame("table", root, 0)>>
    <3>1. /\ frames' = Append(<<>>, Frame("table", root, 0)) /\ propagate' = "none"
          /\ method_context' = (IF "table" = "method" THEN Len(<<>>) + 1 ELSE method_context)
          /\ current_scope' = (IF "table" \in Scoping THEN root ELSE current_scope)
      BY <2>1, <2>2 DEF Scoping
    <3> QED
      BY <1>e, <2>1, <3>1, PushKeepsInvariant
  <2>3. CASE UNCHANGED frames
    BY <2>1, <2>3 DEF IInv, Allowed
  <2> QED
    BY <1>3, <2>2, <2>3, SMTT(30) DEF ParseTable
<1> QED
  BY <1>1, <1>2, <1>3, Zenon

LEMMA StatementsKeepInvariant ==
    ASSUME IInv, Statement \/ PlainArgument
    PROVE  IInv'
<1>1. ASSUME NEW kind \in {"if", "while"}, kind = "while" => Allowed("While"), DefNested(kind) PROVE IInv'
  <2>1. /\ Running /\ frames' = Append(frames, Frame(kind, root, 0)) /\ UNCHANGED <<program, propagate>>
        /\ method_context' = (IF kind = "method" THEN Len(frames) + 1 ELSE method_context)
        /\ current_scope' = (IF kind \in Scoping THEN root ELSE current_scope)
    BY <1>1 DEF DefNested, InTermList, Push, Scoping
  <2>2. propagate' = "none"
    BY <2>1 DEF Running
  <2> QED
    BY <1>1, <2>1, <2>2, RunningFacts, PushKeepsInvariant, SMTT(30)
<1>2. ASSUME NEW jump, DefJump(jump), jump = "Return" \/ (jump \in {"Break", "Continue"} /\ Allowed("While")) PROVE IInv'
  BY <1>2, TermKeepsInvariant DEF DefJump, InTermList
<1>3. CASE Failing
  BY <1>3, TermKeepsInvariant, SMTT(30) DEF Failing, ExpectsTerm
<1>4. CASE PlainArgument
  <2>1. Running /\ frames' = ArgParsed /\ UNCHANGED <<program, current_scope, method_context, propagate>>
    BY <1>4 DEF PlainArgument, ExpectsTerm
  <2>2. Alike(frames, ArgParsed)
    BY <2>1, RunningFacts, ArgParsedIsAlike, SMTT(30)
  <2>3. /\ Stack(ArgParsed) /\ Contexts(ArgParsed, method_context, "none")
        /\ ~Allowed("While") => Scopes(ArgParsed, current_scope, "none")
    BY <2>1, <2>2, RunningFacts, AlikeKeep, SMTT(30) DEF Alike
  <2> QED
    BY <2>1, <2>3, RunningFacts, SMTT(30) DEF IInv, Allowed
<1> QED
  BY <1>1, <1>2, <1>3, <1>4, SMTT(30) DEF Statement

LEMMA ExitMethodKeepsInvariant ==
    ASSUME IInv, frames # <<>>, NEW outcome \in {"none", "Err"}, ExitMethod(outcome), UNCHANGED program
    PROVE  IInv'
<1> DEFINE removed == remove_level(ns, Top.name)
<1>1. /\ Stack(frames) /\ Contexts(frames, method_context, propagate)
      /\ ~Allowed("While") => Scopes(frames, current_scope, propagate)
  BY DEF IInv
<1>2. Stack(AllButLast(frames))
  BY <1>1, Popped
<1>3. \A q : Contexts(AllButLast(frames), Top.context, q)
  BY <1>1, PopContexts DEF Top
<1>4. ASSUME ~Allowed("While"), NEW q \in {"none", "Err", "Panic"} PROVE Scopes(AllButLast(frames), Top.scope, q)
  BY <1>1, <1>4, PopScopes, Zenon DEF Top
<1>5. CASE removed.res.ok
  <2>1. current_scope' = Top.scope /\ method_context' = Top.context /\ Finish(AllButLast(frames), outcome)
    BY <1>5 DEF ExitMethod
  <2>2. Contexts(AllButLast(frames), method_context', outcome) /\ (~Allowed("While") => Scopes(AllButLast(frames), current_scope', outcome))
    BY <1>3, <1>4, <2>1
  <2> QED
    BY <1>2, <2>1, <2>2, FinishKeepsInvariant, SMTT(30)
<1>6. CASE ~removed.res.ok
  <2>1. Finish(AllButLast(frames), Raised(removed.res)) /\ Raised(removed.res) \in {"Err", "Panic"}
    BY <1>6, RaisedIs DEF ExitMethod
  <2> HIDE DEF removed
  <2>2. Contexts(AllButLast(frames), method_context', Raised(removed.res))
    BY <1>3, <2>1, ErrorsKeep, SMTT(30)
  <2>3. ~Allowed("While") => Scopes(AllButLast(frames), current_scope', Raised(removed.res))
    BY <1>4, <2>1, JumpsKeep, SMTT(30)
  <2> QED
    BY <1>2, <2>1, <2>2, <2>3, FinishKeepsInvariant, SMTT(30)
<1> QED
  BY <1>5, <1>6

LEMMA EndsKeepInvariant ==
    ASSUME IInv, End
    PROVE  IInv'
<1>r. /\ Running /\ Stack(frames) /\ frames # <<>> /\ propagate = "none" /\ Contexts(frames, method_context, "none")
      /\ ~Allowed("While") => Scopes(frames, current_scope, "none")
  BY RunningFacts DEF End, EndOfTable, EndOfBlock, EndOfNested, EndOfMethod, InTermList
<1>s. Stack(AllButLast(frames))
  BY <1>r, Popped
<1>1. CASE EndOfTable
  <2>1. Finish(<<>>, "none") /\ UNCHANGED program
    BY <1>1 DEF EndOfTable
  <2> QED
    BY <2>1, NoFrames, FinishKeepsInvariant
<1>2. CASE EndOfBlock
  <2>1. /\ Top.kind = "block" /\ frames' = AllButLast(frames) /\ current_scope' = Top.scope
        /\ UNCHANGED <<program, method_context, propagate>>
    BY <1>2 DEF EndOfBlock, Pop
  <2>2. Contexts(AllButLast(frames), method_context, "none")
    BY <1>r, <2>1, PopContexts DEF Top
  <2>3. ~Allowed("While") => Scopes(AllButLast(frames), Top.scope, "none")
    BY <1>r, PopScopes, Zenon DEF Top
  <2> QED
    BY <1>r, <1>s, <2>1, <2>2, <2>3, SMTT(30) DEF IInv, Allowed
<1>3. CASE EndOfNested
  <2>1. /\ Top.kind \in {"if", "while"} /\ frames' = AllButLast(frames)
        /\ UNCHANGED <<program, current_scope, method_context, propagate>>
    BY <1>3 DEF EndOfNested, Pop
  <2>2. Contexts(AllButLast(frames), method_context, "none")
    BY <1>r, <2>1, PopContexts DEF Top
  <2>3. ASSUME ~Allowed("While") PROVE Scopes(AllButLast(frames), current_scope, "none")
    <3>1. LastOf(frames).kind \notin Scoping
      BY <2>1 DEF Top, Scoping
    <3>2. "none" \notin {"Break", "Continue"}
      OBVIOUS
    <3> QED
      BY <1>r, <2>3, <3>1, <3>2, PopScopes, Zenon
  <2> QED
    BY <1>r, <1>s, <2>1, <2>2, <2>3 DEF IInv, Allowed
<1>4. CASE EndOfMethod
  BY <1>r, <1>4, ExitMethodKeepsInvariant DEF EndOfMethod
<1> QED
  BY <1>1, <1>2, <1>3, <1>4, SMTT(30) DEF End

LEMMA UnwindKeepsInvariant ==
    ASSUME IInv, Unwind
    PROVE  IInv'
<1>r. /\ Stack(frames) /\ frames # <<>> /\ propagate \in {"Break", "Continue", "Return", "Err"}
      /\ Contexts(frames, method_context, propagate)
      /\ ~Allowed("While") => Scopes(frames, current_scope, propagate)
  BY DEF IInv, Unwind, UnwindThrough, UnwindLoop, UnwindMethod, UnwindTable, Unwinding
<1>s. Stack(AllButLast(frames))
  BY <1>r, Popped
<1>1. CASE UnwindThrough
  <2>1. /\ Top.kind \in {"block", "if", "args"} /\ frames' = AllButLast(frames)
        /\ UNCHANGED <<program, current_scope, method_context, propagate>>
    BY <1>1 DEF UnwindThrough, Pop
  <2>2. Contexts(AllButLast(frames), method_context, propagate)
    BY <1>r, <2>1, PopContexts, SMTT(30) DEF Top
  <2>3. ASSUME ~Allowed("While") PROVE Scopes(AllButLast(frames), current_scope, propagate)
    <3>1. propagate \in {"Return", "Err"}
      BY <1>r, <2>3 DEF Scopes
    <3>2. Scopes(AllButLast(frames), LastOf(frames).scope, propagate)
      <4>1. propagate \notin {"Break", "Continue"}
        BY <3>1
      <4> QED
        BY <1>r, <2>3, <4>1, PopScopes, Zenon
    <3> QED
      BY <3>1, <3>2, JumpsKeep, SMTT(30)
  <2> QED
    BY <1>s, <2>1, <2>2, <2>3, SMTT(30) DEF IInv, Allowed
<1>2. CASE UnwindLoop
  <2>1. /\ Top.kind = "while" /\ frames' \in {frames, AllButLast(frames)} /\ propagate' \in {"none", propagate}
        /\ propagate' = "none" => propagate \in {"Break", "Continue"}
        /\ UNCHANGED <<program, current_scope, method_context>>
    BY <1>r, <1>2 DEF UnwindLoop, Pop
  <2>2. Allowed("While")
    BY <1>r, <2>1, PopScopes, Zenon DEF Top
  <2>3. Contexts(AllButLast(frames), method_context, propagate)
    BY <1>r, <2>1, PopContexts, SMTT(30) DEF Top
  <2>4. Contexts(frames', method_context, propagate')
    BY <1>r, <2>1, <2>3 DEF Contexts
  <2> QED
    BY <1>r, <1>s, <2>1, <2>2, <2>4 DEF IInv, Allowed
<1>3. CASE UnwindMethod
  BY <1>r, <1>3, ExitMethodKeepsInvariant DEF UnwindMethod
<1>4. CASE UnwindTable
  <2>1. Finish(<<>>, "Err") /\ UNCHANGED program
    BY <1>4, SMTT(30) DEF UnwindTable
  <2> QED
    BY <2>1, NoFrames, FinishKeepsInvariant
<1> QED
  BY <1>1, <1>2, <1>3, <1>4 DEF Unwind

LEMMA TermsKeepInvariant ==
    ASSUME IInv, NEW name, Term(name)
    PROVE  IInv'
<1>1. CASE \E added : AddObject(added)
  BY <1>1, AddObjectKeepsInvariant
<1>2. CASE \E path, added : EnterObject(path, added)
  BY <1>2, EnterObjectKeepsInvariant
<1>3. CASE DefScope(name)
  BY <1>3, DefScopeKeepsInvariant
<1>4. CASE MethodInvocation(name)
  BY <1>4, MethodInvocationKeepsInvariant
<1>5. ASSUME NEW arg_count, DefMethod(name, arg_count) PROVE \E added : AddObject(added)
  BY <1>5 DEF DefMethod
<1>6. ASSUME NEW needs_parent, DefOpRegion(name, needs_parent) PROVE \E added : AddObject(added)
  BY <1>6 DEF DefOpRegion
<1>7. ASSUME NEW segs, DefField(name, segs) PROVE \E added : AddObject(added)
  BY <1>7, Zenon DEF DefField
<1>8. DefName(name) \/ DefMutex(name) => \E added : AddObject(added)
  BY DEF DefName, DefMutex
<1>9. DefDevice(name) \/ DefProcessor(name) \/ DefPowerRes(name) \/ DefThermalZone(name) =>
          \E path, added : EnterObject(path, added)
  BY DEF DefDevice, DefProcessor, DefPowerRes, DefThermalZone
<1> QED
  BY <1>1, <1>2, <1>3, <1>4, <1>5, <1>6, <1>7, <1>8, <1>9, SMTT(30) DEF Term

LEMMA StepKeepsInvariant ==
    IInv /\ [Next]_vars => IInv'
<1> SUFFICES ASSUME IInv, [Next]_vars PROVE IInv'
  OBVIOUS
<1>1. CASE UNCHANGED vars
  BY <1>1 DEF vars, IInv, Allowed
<1>2. CASE Next
  BY <1>2, CallsKeepInvariant, StatementsKeepInvariant, EndsKeepInvariant, UnwindKeepsInvariant, TermsKeepInvariant, SMTT(30)
     DEF Next
<1> QED
  BY <1>1, <1>2

----------------------------------------------------------------------------
\* Across the save and restore of invoke_method and the blocks' parsers, every
\* frame of the interpreter's stack remembers the scope and the context of the
\* terms below it.
THEOREM InterpreterInvariant == Spec => []IInv
<1>1. Init => IInv
  BY NoFrames DEF Init, IInv
<1> QED
  BY <1>1, StepKeepsInvariant, PTL DEF Spec

LEMMA LargestIs ==
    ASSUME NEW S \in SUBSET Nat, NEW m \in S, \A j \in S : j <= m
    PROVE  Max(S) = m
<1>1. \A x \in S : (\A y \in S : x >= y) => x = m
  OBVIOUS
<1>2. \A y \in S : m >= y
  OBVIOUS
<1> QED
  BY <1>1, <1>2, Zenon DEF Max

\* The innermost frame of some kinds is the one that only others follow.
LEMMA InnermostIs ==
    ASSUME Stack(frames), NEW kinds
    PROVE  /\ (\A j \in 1..Len(frames) : frames[j].kind \notin kinds) => Innermost(kinds) = 0
           /\ \A m \in 1..Len(frames) :
                  frames[m].kind \in kinds /\ (\A j \in (m + 1)..Len(frames) : frames[j].kind \notin kinds) =>
                      Innermost(kinds) = m /\ m # 0
<1> DEFINE S == {i \in 1..Len(frames) : frames[i].kind \in kinds}
<1>1. Len(frames) \in Nat
  BY DEF Stack
<1>2. ASSUME \A j \in 1..Len(frames) : frames[j].kind \notin kinds PROVE Innermost(kinds) = 0
  BY <1>2 DEF Innermost
<1>3. ASSUME NEW m \in 1..Len(frames), frames[m].kind \in kinds,
             \A j \in (m + 1)..Len(frames) : frames[j].kind \notin kinds
      PROVE  Innermost(kinds) = m /\ m # 0
  <2>1. S \in SUBSET Nat /\ m \in S /\ \A j \in S : j <= m
    BY <1>1, <1>3, SMTT(30)
  <2>2. Innermost(kinds) = IF S = {} THEN 0 ELSE Max(S)
    BY DEF Innermost
  <2>3. m # 0
    OBVIOUS
  <2> HIDE DEF S
  <2>4. Max(S) = m
    BY <2>1, LargestIs
  <2> QED
    BY <2>1, <2>2, <2>3, <2>4, SMTT(30)
<1> QED
  BY <1>2, <1>3

\* The arguments and locals in reach are those of the innermost method, for
\* every program and any depth of calls: what invoke_method puts back when a
\* method returns is the context of its caller.
THEOREM ContextAlwaysInnermost == Spec => []ContextOfInnermostMethod
<1>1. IInv => ContextOfInnermostMethod
  <2> SUFFICES ASSUME IInv, Running
               PROVE  method_context = IF Innermost({"method"}) = 0 THEN frames[1].context ELSE Innermost({"method"})
    BY DEF ContextOfInnermostMethod
  <2>1. Stack(frames) /\ frames # <<>> /\ ContextIn(frames, Len(frames), method_context)
    BY RunningFacts DEF Contexts
  <2>2. \A k : k \in {"method"} <=> k = "method"
    OBVIOUS
  <2>3. CASE (\A j \in 1..Len(frames) : frames[j].kind # "method") /\ method_context = frames[1].context
    BY <2>1, <2>2, <2>3, InnermostIs
  <2>4. CASE \E m \in 1..Len(frames) : /\ frames[m].kind = "method" /\ method_context = m
                                       /\ \A j \in (m + 1)..Len(frames) : frames[j].kind # "method"
    BY <2>1, <2>2, <2>4, InnermostIs
  <2> QED
    BY <2>1, <2>3, <2>4, SMTT(30) DEF ContextIn
<1> QED
  BY <1>1, InterpreterInvariant, PTL

\* Terms are executed in the scope of the block or method they are written in,
\* for every program without loops: the scope def_scope, def_device and the
\* other blocks save, and invoke_method saves, is the one they put back, also
\* when a method returns out of the middle of its blocks.
THEOREM ScopeAlwaysLexical == Spec => []LexicalScope
<1>1. IInv => LexicalScope
  <2> DEFINE i == Innermost({"block", "method"})
  <2> SUFFICES ASSUME IInv, Running, ~Allowed("While")
               PROVE  current_scope = IF i = 0 THEN frames[1].scope ELSE frames[i].name
    BY DEF LexicalScope
  <2>1. Stack(frames) /\ frames # <<>> /\ ScopeIn(frames, Len(frames), current_scope)
    BY RunningFacts DEF Scopes
  <2>2. i = Innermost(Scoping)
    BY DEF Scoping
  <2> HIDE DEF i
  <2>3. CASE (\A j \in 1..Len(frames) : frames[j].kind \notin Scoping) /\ current_scope = frames[1].scope
    BY <2>1, <2>2, <2>3, InnermostIs, SMTT(30)
  <2>4. CASE \E m \in 1..Len(frames) : /\ frames[m].kind \in Scoping /\ current_scope = frames[m].name
                                       /\ \A j \in (m + 1)..Len(frames) : frames[j].kind \notin Scoping
    BY <2>1, <2>2, <2>4, InnermostIs
  <2> QED
    BY <2>1, <2>3, <2>4, SMTT(30) DEF ScopeIn
<1> QED
  BY <1>1, InterpreterInvariant, PTL
=============================================================================
