---------------------------- MODULE AgentProofs ----------------------------
(****************************************************************************)
(* The agent, for every set of tools, every answer and every number of      *)
(* rounds, users and messages.                                              *)
(*                                                                          *)
(* AgentTurn: each call of the model gets one answer and no call stays      *)
(* pending, by an invariant on the calls that wait; and the turn implements *)
(* what Turn promises, for which no invariant is needed.                    *)
(* AgentChat: what is answered, asked, shown in order and remembered of a   *)
(* conversation, by invariants in layers (at ChatBase).                     *)
(****************************************************************************)
EXTENDS AgentTurn, AgentChat, TLAPS, FiniteSetTheorems, SequenceTheorems

-----------------------------------------------------------------------------
(* Loops. The library's induction is about operators; here sets do. *)

\* A set that holds 0, and with a number the next one, holds all numbers.
LEMMA Induction ==
  ASSUME NEW S, 0 \in S, \A n \in Nat : n \in S => n + 1 \in S
  PROVE  Nat \subseteq S
<1>. SUFFICES ASSUME NEW n \in Nat, n \notin S PROVE FALSE
  OBVIOUS
<1>. DEFINE N == {m \in 0..n : m \notin S}
            f == [m \in N |-> m - 1]
<1>1. f \in Injection(N, N)
  <2>1. \A m \in N : m - 1 \in N
    OBVIOUS
  <2>2. f \in [N -> N] /\ \A a, b \in N : f[a] = f[b] => a = b
    BY <2>1
  <2>. QED BY <2>2 DEF Injection, IsInjective
<1>2. n \in N /\ \A m \in N : f[m] /= n
  OBVIOUS
<1>3. IsFiniteSet(N)
  <2>1. N \in SUBSET (0..n) /\ IsFiniteSet(0..n)
    BY FS_Interval
  <2>. HIDE DEF N
  <2>. QED BY <2>1, FS_Subset
<1>. HIDE DEF N, f
<1>4. f \in Surjection(N, N)
  BY <1>1, <1>3, FS_Injection
<1>. QED BY <1>2, <1>4 DEF Surjection

\* Steps on a set can be taken one after the other.
Steps(S, k, step) == \A n \in 1 .. k : step[n] \in [S -> S]
Walk(g, S, base, k, step) ==
  g \in [0 .. k -> S] /\ g[0] = base /\ \A n \in 1 .. k : g[n] = step[n][g[n - 1]]

LEMMA NoSteps == 0 .. 0 = {0} /\ 1 .. 0 = {}
  BY SMT

LEMMA Iterates ==
  ASSUME NEW S, NEW base \in S, NEW k \in Nat, NEW step, Steps(S, k, step)
  PROVE  \E g : Walk(g, S, base, k, step)
<1>. USE DEF Steps, Walk
<1>. DEFINE good(m) == \E g : Walk(g, S, base, m, step)
            N == {m \in Nat : m <= k => good(m)}
<1>1. 0 \in N
  <2>. DEFINE g == [n \in 0 .. 0 |-> base]
  <2>1. g \in [0 .. 0 -> S] /\ g[0] = base /\ \A n \in 1 .. 0 : g[n] = step[n][g[n - 1]]
    BY NoSteps
  <2>2. good(0)
    BY <2>1
  <2>. QED BY <2>2
<1>2. ASSUME NEW m \in Nat, m \in N, m + 1 <= k PROVE good(m + 1)
  <2>1. PICK g : Walk(g, S, base, m, step)
    <3>. m <= k
      BY <1>2
    <3>. QED BY <1>2
  <2>. DEFINE h == [n \in 0 .. m + 1 |-> IF n = m + 1 THEN step[m + 1][g[m]] ELSE g[n]]
  <2>2. step[m + 1] \in [S -> S] /\ g[m] \in S
    <3>1. m + 1 \in 1 .. k /\ m \in 0 .. m
      BY <1>2
    <3>. QED BY <2>1, <3>1
  <2>3. h \in [0 .. m + 1 -> S]
    <3>1. step[m + 1][g[m]] \in S
      BY <2>2
    <3>2. \A n \in 0 .. m + 1 : n /= m + 1 => g[n] \in S
      BY <2>1
    <3>. QED BY <3>1, <3>2
  <2>4. h[0] = base
    BY <2>1
  <2>5. ASSUME NEW n \in 1 .. m + 1 PROVE h[n] = step[n][h[n - 1]]
    <3>1. CASE n = m + 1
      BY <3>1
    <3>2. CASE n /= m + 1
      BY <2>1, <3>2
    <3>. QED BY <3>1, <3>2
  <2>. QED BY <2>3, <2>4, <2>5
<1>3. k \in N
  <2>1. \A m \in Nat : m \in N => m + 1 \in N
    <3>. HIDE DEF good
    <3>. QED BY <1>2
  <2>. HIDE DEF N
  <2>. QED BY <1>1, <2>1, Induction
<1>. QED BY <1>3

\* A loop reaches its end.
LEMMA Reaches ==
  ASSUME NEW k \in Nat, NEW P, 0 \in P, \A n \in 1 .. k : n - 1 \in P => n \in P
  PROVE  k \in P
<1>. DEFINE S == {n \in Nat : n <= k => n \in P}
<1>1. 0 \in S
  OBVIOUS
<1>2. ASSUME NEW n \in Nat, n \in S PROVE n + 1 \in S
  <2>. SUFFICES ASSUME n + 1 <= k PROVE n + 1 \in P
    OBVIOUS
  <2>1. n + 1 \in 1 .. k /\ (n + 1) - 1 = n /\ n \in P
    BY <1>2
  <2>. QED BY <2>1
<1>3. k \in S
  <2>. HIDE DEF S
  <2>. QED BY <1>1, <1>2, Induction
<1>. QED BY <1>3

\* What a call or a piece of it may look like, if calls have these ids.
Pieced(ids) ==
  {c \in [id : ids \cup {None}, tool : STRING \cup {None}, args : Seq(STRING)] :
     c.tool /= None => c.id \in ids}

\* Calls that differ in their ids.
Apart(calls) == \A i, j \in DOMAIN calls : calls[i].id = calls[j].id => i = j

\* What the loops collect are calls with ids that were given, or pieces of one.
LEMMA JoinPieces ==
  ASSUME NEW ids, NEW calls \in Seq(Pieced(ids)), NEW chunk \in Pieced(ids)
  PROVE  Join(calls, chunk) \in Seq(Pieced(ids))
<1>1. CASE chunk.id = None /\ chunk.tool = None /\ calls /= <<>>
  <2>. DEFINE last == calls[Len(calls)]
              new == [last EXCEPT !.args = last.args \o chunk.args]
  <2>1. Len(calls) \in DOMAIN calls /\ last \in Pieced(ids)
    BY <1>1
  <2>2. new \in Pieced(ids)
    <3>1. last.args \in Seq(STRING) /\ chunk.args \in Seq(STRING)
      BY <2>1 DEF Pieced
    <3>2. last.args \o chunk.args \in Seq(STRING)
      BY <3>1
    <3>3. last \in [id : ids \cup {None}, tool : STRING \cup {None}, args : Seq(STRING)]
      BY <2>1 DEF Pieced
    <3>4. last.tool /= None => last.id \in ids
      BY <2>1 DEF Pieced
    <3>5. ASSUME NEW args \in Seq(STRING)
          PROVE [last EXCEPT !.args = args] \in Pieced(ids)
      <4>. HIDE DEF last
      <4>. QED BY <3>3, <3>4 DEF Pieced
    <3>. HIDE DEF last
    <3>. QED BY <3>2, <3>5
  <2>3. Join(calls, chunk) = [calls EXCEPT ![Len(calls)] = new]
    BY <1>1 DEF Join
  <2>. HIDE DEF new
  <2>. QED BY <2>1, <2>2, <2>3
<1>2. CASE ~(chunk.id = None /\ chunk.tool = None /\ calls /= <<>>)
  BY <1>2 DEF Join
<1>. QED BY <1>1, <1>2

LEMMA KeepPieces ==
  ASSUME NEW ids, NEW calls \in Seq(Pieced(ids)), Apart(calls), NEW item \in Pieced(ids)
  PROVE  Keep(calls, item) \in Seq(Pieced(ids)) /\ Apart(Keep(calls, item))
<1>. DEFINE same == {i \in DOMAIN calls : calls[i].id = item.id}
            new == [i \in DOMAIN calls |-> IF i \in same /\ calls[i].args = <<>> THEN item ELSE calls[i]]
<1>1. CASE item.id = None
  BY <1>1 DEF Keep
<1>2. CASE item.id /= None /\ same = {}
  <2>1. Keep(calls, item) = Append(calls, item)
    BY <1>2 DEF Keep
  <2>2. Apart(Append(calls, item))
    BY <1>2 DEF Apart
  <2>. QED BY <2>1, <2>2
<1>3. CASE item.id /= None /\ same /= {}
  <2>1. Keep(calls, item) = new
    BY <1>3 DEF Keep
  <2>2. new \in Seq(Pieced(ids))
    <3>1. new \in [1 .. Len(calls) -> Pieced(ids)] /\ Len(calls) \in Nat
      OBVIOUS
    <3>. HIDE DEF new
    <3>. QED BY <3>1
  <2>3. \A i \in DOMAIN calls : new[i].id = calls[i].id
    OBVIOUS
  <2>4. Apart(new)
    BY <2>3 DEF Apart
  <2>. QED BY <2>1, <2>2, <2>4
<1>. QED BY <1>1, <1>2, <1>3

LEMMA Aggregates ==
  ASSUME NEW ids, NEW chunks \in Seq(Pieced(ids))
  PROVE  Aggregate(chunks) \in Seq(Pieced(ids))
<1>. DEFINE k == Len(chunks)
            S == Seq(Pieced(ids))
            step == [n \in 1 .. k |-> [s \in S |-> Join(s, chunks[n])]]
            Collects(f) == f = [n \in 0 .. k |-> IF n = 0 THEN <<>> ELSE Join(f[n - 1], chunks[n])]
            done == CHOOSE f : Collects(f)
<1>0. k \in Nat /\ <<>> \in S /\ \A n \in 1 .. k : chunks[n] \in Pieced(ids)
  OBVIOUS
<1>1. \A n \in 1 .. k : \A s \in S : Join(s, chunks[n]) \in S
  BY <1>0, JoinPieces
<1>2. Steps(S, k, step)
  BY <1>1 DEF Steps
<1>3. PICK g : Walk(g, S, <<>>, k, step)
  <2>. HIDE DEF k, S, step
  <2>. QED BY <1>0, <1>2, Iterates, Zenon
<1>4. ASSUME NEW n \in 1 .. k PROVE g[n] = Join(g[n - 1], chunks[n])
  <2>1. g[n - 1] \in S /\ g[n] = step[n][g[n - 1]]
    <3>1. n - 1 \in 0 .. k
      BY <1>0
    <3>. HIDE DEF k, S, step
    <3>. QED BY <1>3, <3>1 DEF Walk
  <2>2. step[n] = [s \in S |-> Join(s, chunks[n])]
    OBVIOUS
  <2>. HIDE DEF step, S
  <2>. QED BY <2>1, <2>2
<1>5. Collects(g)
  BY <1>0, <1>3, <1>4 DEF Walk
<1>6. Collects(done)
  BY <1>5
<1>. HIDE DEF done
<1>7. done[k] \in S
  <2>. DEFINE P == {n \in 0 .. k : done[n] \in S}
  <2>1. 0 \in P
    BY <1>0, <1>6
  <2>2. ASSUME NEW n \in 1 .. k, n - 1 \in P PROVE n \in P
    <3>. HIDE DEF S
    <3>1. done[n] = Join(done[n - 1], chunks[n])
      BY <1>6
    <3>. QED BY <1>1, <2>2, <3>1
  <2>3. k \in P
    <3>. HIDE DEF P, k
    <3>. QED BY <1>0, <2>1, <2>2, Reaches
  <2>. QED BY <2>3
<1>8. Aggregate(chunks) = done[k]
  BY DEF Aggregate, Collect, done
<1>. QED BY <1>7, <1>8

\* What is left after the duplicates are gone differs in its ids.
LEMMA Deduplicates ==
  ASSUME NEW ids, NEW calls \in Seq(Pieced(ids))
  PROVE  Deduplicate(calls) \in Seq(Pieced(ids)) /\ Apart(Deduplicate(calls))
<1>. DEFINE k == Len(calls)
            S == {s \in Seq(Pieced(ids)) : Apart(s)}
            step == [n \in 1 .. k |-> [s \in S |-> Keep(s, calls[n])]]
            Collects(f) == f = [n \in 0 .. k |-> IF n = 0 THEN <<>> ELSE Keep(f[n - 1], calls[n])]
            done == CHOOSE f : Collects(f)
<1>0. k \in Nat /\ <<>> \in S /\ \A n \in 1 .. k : calls[n] \in Pieced(ids)
  BY DEF Apart
<1>1. \A n \in 1 .. k : \A s \in S : Keep(s, calls[n]) \in S
  BY <1>0, KeepPieces
<1>2. Steps(S, k, step)
  BY <1>1 DEF Steps
<1>3. PICK g : Walk(g, S, <<>>, k, step)
  <2>. HIDE DEF k, S, step
  <2>. QED BY <1>0, <1>2, Iterates, Zenon
<1>4. ASSUME NEW n \in 1 .. k PROVE g[n] = Keep(g[n - 1], calls[n])
  <2>1. g[n - 1] \in S /\ g[n] = step[n][g[n - 1]]
    <3>1. n - 1 \in 0 .. k
      BY <1>0
    <3>. HIDE DEF k, S, step
    <3>. QED BY <1>3, <3>1 DEF Walk
  <2>2. step[n] = [s \in S |-> Keep(s, calls[n])]
    OBVIOUS
  <2>. HIDE DEF step, S
  <2>. QED BY <2>1, <2>2
<1>5. Collects(g)
  BY <1>0, <1>3, <1>4 DEF Walk
<1>6. Collects(done)
  BY <1>5
<1>. HIDE DEF done
<1>7. done[k] \in S
  <2>. DEFINE P == {n \in 0 .. k : done[n] \in S}
  <2>1. 0 \in P
    BY <1>0, <1>6
  <2>2. ASSUME NEW n \in 1 .. k, n - 1 \in P PROVE n \in P
    <3>. HIDE DEF S
    <3>1. done[n] = Keep(done[n - 1], calls[n])
      BY <1>6
    <3>. QED BY <1>1, <2>2, <3>1
  <2>3. k \in P
    <3>. HIDE DEF P, k
    <3>. QED BY <1>0, <2>1, <2>2, Reaches
  <2>. QED BY <2>3
<1>8. Deduplicate(calls) = done[k]
  BY DEF Deduplicate, Collect, done
<1>. QED BY <1>7, <1>8

LEMMA PiecesPieced ==
  ASSUME NEW ids, NEW item \in Pieced(ids)
  PROVE  Pieces(item) \in Seq(Pieced(ids))
<1>1. Chunk(item.id, item.tool, item.args) \in Pieced(ids)
  BY DEF Chunk, Pieced
<1>2. Chunk(item.id, item.tool, <<>>) \in Pieced(ids)
  BY DEF Chunk, Pieced
<1>3. item.args \in Seq(STRING)
  BY DEF Pieced
<1>4. \A i \in DOMAIN item.args : Chunk(None, None, <<item.args[i]>>) \in Pieced(ids)
  BY <1>3 DEF Chunk, Pieced
<1>. DEFINE parts == [i \in DOMAIN item.args |-> Chunk(None, None, <<item.args[i]>>)]
<1>5. parts \in Seq(Pieced(ids))
  <2>1. parts \in [1 .. Len(item.args) -> Pieced(ids)] /\ Len(item.args) \in Nat
    <3>1. DOMAIN item.args = 1 .. Len(item.args) /\ Len(item.args) \in Nat
      BY <1>3
    <3>2. DOMAIN parts = DOMAIN item.args
      OBVIOUS
    <3>3. \A i \in DOMAIN item.args : parts[i] \in Pieced(ids)
      BY <1>4
    <3>4. parts = [i \in DOMAIN item.args |-> parts[i]]
      OBVIOUS
    <3>. HIDE DEF parts
    <3>. QED BY <3>1, <3>3, <3>4
  <2>. HIDE DEF parts
  <2>. QED BY <2>1
<1>6. Pieces(item) = <<Chunk(item.id, item.tool, item.args)>>
      \/ Pieces(item) = <<Chunk(item.id, item.tool, <<>>)>> \o parts
  BY DEF Pieces
<1>. HIDE DEF parts
<1>7. ASSUME NEW chunk \in Pieced(ids), NEW s \in Seq(Pieced(ids))
      PROVE <<chunk>> \in Seq(Pieced(ids)) /\ <<chunk>> \o s \in Seq(Pieced(ids))
  OBVIOUS
<1>. QED BY <1>1, <1>2, <1>5, <1>6, <1>7

LEMMA SendPieces ==
  ASSUME NEW ids, NEW chunks \in Seq(Pieced(ids)), NEW item \in Pieced(ids)
  PROVE  Send(chunks, item) \in Seq(Pieced(ids))
  BY PiecesPieced DEF Send

LEMMA Chunked ==
  ASSUME NEW ids, NEW calls \in Seq(Pieced(ids))
  PROVE  Chunks(calls) \in Seq(Pieced(ids))
<1>. DEFINE k == Len(calls)
            S == Seq(Pieced(ids))
            step == [n \in 1 .. k |-> [s \in S |-> Send(s, calls[n])]]
            Collects(f) == f = [n \in 0 .. k |-> IF n = 0 THEN <<>> ELSE Send(f[n - 1], calls[n])]
            done == CHOOSE f : Collects(f)
<1>0. k \in Nat /\ <<>> \in S /\ \A n \in 1 .. k : calls[n] \in Pieced(ids)
  OBVIOUS
<1>1. \A n \in 1 .. k : \A s \in S : Send(s, calls[n]) \in S
  BY <1>0, SendPieces
<1>2. Steps(S, k, step)
  BY <1>1 DEF Steps
<1>3. PICK g : Walk(g, S, <<>>, k, step)
  <2>. HIDE DEF k, S, step
  <2>. QED BY <1>0, <1>2, Iterates, Zenon
<1>4. ASSUME NEW n \in 1 .. k PROVE g[n] = Send(g[n - 1], calls[n])
  <2>1. g[n - 1] \in S /\ g[n] = step[n][g[n - 1]]
    <3>1. n - 1 \in 0 .. k
      BY <1>0
    <3>. HIDE DEF k, S, step
    <3>. QED BY <1>3, <3>1 DEF Walk
  <2>2. step[n] = [s \in S |-> Send(s, calls[n])]
    OBVIOUS
  <2>. HIDE DEF step, S
  <2>. QED BY <2>1, <2>2
<1>5. Collects(g)
  BY <1>0, <1>3, <1>4 DEF Walk
<1>6. Collects(done)
  BY <1>5
<1>. HIDE DEF done
<1>7. done[k] \in S
  <2>. DEFINE P == {n \in 0 .. k : done[n] \in S}
  <2>1. 0 \in P
    BY <1>0, <1>6
  <2>2. ASSUME NEW n \in 1 .. k, n - 1 \in P PROVE n \in P
    <3>. HIDE DEF S
    <3>1. done[n] = Send(done[n - 1], calls[n])
      BY <1>6
    <3>. QED BY <1>1, <2>2, <3>1
  <2>3. k \in P
    <3>. HIDE DEF P, k
    <3>. QED BY <1>0, <2>1, <2>2, Reaches
  <2>. QED BY <2>3
<1>8. Chunks(calls) = done[k]
  BY DEF Chunks, Collect, done
<1>. QED BY <1>7, <1>8

\* What is picked: the wanted ones of the calls, and each once.
LEMMA PickedCalls ==
  ASSUME NEW C, NEW calls \in Seq(C), Apart(calls), NEW wanted \in SUBSET ToSet(calls)
  PROVE  /\ Picked(calls, wanted) \in Seq(C)
         /\ Apart(Picked(calls, wanted))
         /\ ToSet(Picked(calls, wanted)) = wanted
<1>. DEFINE k == Len(calls)
            S == Seq(C)
            Pick(s, c) == IF c \in wanted THEN Append(s, c) ELSE s
            step == [n \in 1 .. k |-> [s \in S |-> Pick(s, calls[n])]]
            Collects(f) == f = [n \in 0 .. k |-> IF n = 0 THEN <<>> ELSE Pick(f[n - 1], calls[n])]
            done == CHOOSE f : Collects(f)
<1>0. k \in Nat /\ <<>> \in S /\ \A n \in 1 .. k : calls[n] \in C
  OBVIOUS
<1>1. \A n \in 1 .. k : \A s \in S : Pick(s, calls[n]) \in S
  BY <1>0
<1>2. Steps(S, k, step)
  BY <1>1 DEF Steps
<1>3. PICK g : Walk(g, S, <<>>, k, step)
  <2>. HIDE DEF k, S, step
  <2>. QED BY <1>0, <1>2, Iterates, Zenon
<1>. HIDE DEF Pick
<1>4. ASSUME NEW n \in 1 .. k PROVE g[n] = Pick(g[n - 1], calls[n])
  <2>1. g[n - 1] \in S /\ g[n] = step[n][g[n - 1]]
    <3>1. n - 1 \in 0 .. k
      BY <1>0
    <3>. HIDE DEF k, S, step
    <3>. QED BY <1>3, <3>1 DEF Walk
  <2>2. step[n] = [s \in S |-> Pick(s, calls[n])]
    OBVIOUS
  <2>. HIDE DEF step, S
  <2>. QED BY <2>1, <2>2
<1>5. Collects(g)
  BY <1>0, <1>3, <1>4 DEF Walk
<1>6. Collects(done)
  BY <1>5
<1>. HIDE DEF done
<1>. DEFINE Good(n) == /\ done[n] \in S
                       /\ Apart(done[n])
                       /\ \A c : c \in ToSet(done[n]) <=>
                                   c \in wanted /\ \E i \in 1 .. n : c = calls[i]
<1>7. Good(k)
  <2>. DEFINE P == {n \in 0 .. k : Good(n)}
  <2>1. 0 \in P
    <3>1. done[0] = <<>> /\ 0 \in 0 .. k
      BY <1>0, <1>6
    <3>2. Apart(<<>>) /\ ToSet(<<>>) = {}
      BY DEF Apart, ToSet
    <3>3. 1 .. 0 = {}
      OBVIOUS
    <3>. HIDE DEF k, S
    <3>4. Good(0)
      BY <1>0, <3>1, <3>2, <3>3
    <3>. HIDE DEF Good
    <3>. QED BY <3>1, <3>4
  <2>2. ASSUME NEW n \in 1 .. k, n - 1 \in P PROVE n \in P
    <3>1. done[n] = Pick(done[n - 1], calls[n])
      <4>. HIDE DEF S
      <4>. QED BY <1>6
    <3>2. Good(n - 1)
      BY <2>2
    <3>3. CASE calls[n] \notin wanted
      <4>1. done[n] = done[n - 1]
        BY <3>1, <3>3 DEF Pick
      <4>2. \A c : c \in wanted => ((\E i \in 1 .. n : c = calls[i]) <=> (\E i \in 1 .. n - 1 : c = calls[i]))
        <5>1. 1 .. n = (1 .. n - 1) \cup {n}
          BY <1>0
        <5>. QED BY <5>1, <3>3
      <4>. HIDE DEF S
      <4>3. Good(n)
        BY <3>2, <4>1, <4>2
      <4>. HIDE DEF Good
      <4>. QED BY <4>3
    <3>4. CASE calls[n] \in wanted
      <4>. DEFINE s == done[n - 1]
      <4>1. done[n] = Append(s, calls[n])
        BY <3>1, <3>4 DEF Pick
      <4>2. s \in Seq(C) /\ calls[n] \in C
        BY <1>0, <3>2
      <4>3. \A j \in DOMAIN s : s[j].id /= calls[n].id
        <5>. SUFFICES ASSUME NEW j \in DOMAIN s, s[j].id = calls[n].id PROVE FALSE
          OBVIOUS
        <5>1. s[j] \in ToSet(s)
          BY DEF ToSet
        <5>2. PICK i \in 1 .. n - 1 : s[j] = calls[i]
          BY <3>2, <5>1
        <5>3. i \in DOMAIN calls /\ n \in DOMAIN calls /\ i /= n
          BY <1>0
        <5>. QED BY <5>2, <5>3 DEF Apart
      <4>. HIDE DEF s
      <4>4. Append(s, calls[n]) \in Seq(C) /\ Apart(Append(s, calls[n]))
        <5>1. Apart(s)
          BY <3>2 DEF s
        <5>. QED BY <4>2, <4>3, <5>1 DEF Apart
      <4>5. \A c : c \in ToSet(Append(s, calls[n])) <=> c \in ToSet(s) \/ c = calls[n]
        <5>1. DOMAIN s = 1 .. Len(s) /\ Len(s) \in Nat
          BY <4>2
        <5>2. DOMAIN Append(s, calls[n]) = (DOMAIN s) \cup {Len(s) + 1}
          BY <4>2, <5>1
        <5>3. \A i \in DOMAIN s : Append(s, calls[n])[i] = s[i]
          BY <4>2, <5>1
        <5>4. Append(s, calls[n])[Len(s) + 1] = calls[n]
          BY <4>2, <5>1
        <5>. QED BY <5>2, <5>3, <5>4 DEF ToSet
      <4>6. 1 .. n = (1 .. n - 1) \cup {n}
        BY <1>0
      <4>7. \A c : c \in ToSet(s) <=> c \in wanted /\ \E i \in 1 .. n - 1 : c = calls[i]
        BY <3>2 DEF s
      <4>8. \A c : c \in ToSet(done[n]) <=> c \in wanted /\ \E i \in 1 .. n : c = calls[i]
        BY <3>4, <4>1, <4>5, <4>6, <4>7
      <4>9. done[n] \in S /\ Apart(done[n])
        BY <4>1, <4>4
      <4>10. Good(n)
        BY <4>8, <4>9
      <4>. HIDE DEF Good
      <4>. QED BY <4>10
    <3>. QED BY <3>3, <3>4
  <2>3. k \in P
    <3>. HIDE DEF P, k
    <3>. QED BY <1>0, <2>1, <2>2, Reaches
  <2>. QED BY <2>3
<1>8. Picked(calls, wanted) = done[k]
  BY DEF Picked, Collect, done, Pick
<1>9. \A c \in wanted : \E i \in 1 .. k : c = calls[i]
  BY DEF ToSet
<1>. HIDE DEF k, S
<1>10. ToSet(done[k]) = wanted
  BY <1>7, <1>9
<1>. QED BY <1>7, <1>8, <1>10 DEF S

\* The ids that an answer of this round may give.
Named(a) == {a.how} \X {IF a.how = "again" THEN 1 ELSE round} \X Nat

LEMMA NumberedCalls ==
  ASSUME NEW a \in Answers
  PROVE  /\ Numbered(a) \in Seq(Pieced(Named(a)))
         /\ Apart(Numbered(a))
         /\ IdsOf(Numbered(a)) \subseteq Named(a)
<1>1. a.how \in {"new", "again", "text"} /\ a.calls \in Seq([tool : STRING, args : Seq(STRING)])
  BY TurnAssumption
<1>. DEFINE n == IF a.how = "again" THEN 1 ELSE round
<1>2. ASSUME NEW i \in DOMAIN a.calls
      PROVE Numbered(a)[i] \in Pieced(Named(a))
  <2>1. a.calls[i].tool \in STRING /\ a.calls[i].args \in Seq(STRING) /\ i \in Nat
    <3>1. a.calls[i] \in [tool : STRING, args : Seq(STRING)] /\ i \in Nat
      <4>. DEFINE C == [tool : STRING, args : Seq(STRING)]
                  s == a.calls
      <4>1. s \in Seq(C) /\ i \in DOMAIN s
        BY <1>1
      <4>. HIDE DEF s, C
      <4>2. s[i] \in C /\ i \in Nat
        BY <4>1
      <4>. QED BY <4>2 DEF s, C
    <3>. QED BY <3>1
  <2>2. <<a.how, n, i>> \in Named(a)
    BY <2>1 DEF Named
  <2>3. Numbered(a)[i] = [id |-> <<a.how, n, i>>, tool |-> a.calls[i].tool, args |-> a.calls[i].args]
    BY DEF Numbered, Chunk
  <2>. HIDE DEF n
  <2>. QED BY <2>1, <2>2, <2>3 DEF Pieced
<1>3. Numbered(a) \in Seq(Pieced(Named(a)))
  <2>1. DOMAIN a.calls = 1 .. Len(a.calls) /\ Len(a.calls) \in Nat
    BY <1>1
  <2>2. Numbered(a) = [i \in 1 .. Len(a.calls) |-> Numbered(a)[i]]
    BY <2>1 DEF Numbered
  <2>3. Numbered(a) \in [1 .. Len(a.calls) -> Pieced(Named(a))]
    BY <1>2, <2>1, <2>2
  <2>. QED BY <2>1, <2>3
<1>4. Apart(Numbered(a))
  <2>1. \A i \in DOMAIN Numbered(a) : Numbered(a)[i].id = <<a.how, n, i>>
    BY DEF Numbered, Chunk
  <2>. QED BY <2>1 DEF Apart
<1>5. \A i \in DOMAIN Numbered(a) : Numbered(a)[i].id \in Named(a)
  <2>1. \A i \in DOMAIN Numbered(a) : i \in Nat /\ Numbered(a)[i].id = <<a.how, n, i>>
    BY <1>3 DEF Numbered, Chunk
  <2>. QED BY <2>1 DEF Named
<1>6. IdsOf(Numbered(a)) \subseteq Named(a)
  BY <1>5 DEF IdsOf, ToSet
<1>. QED BY <1>3, <1>4, <1>6

-----------------------------------------------------------------------------
(* The invariant *)

Ids == {"new", "again", "text"} \X Nat \X Nat
Queued == [id : Ids, tool : Common, args : Seq(STRING)]
Results == [error : BOOLEAN, at : Nat]
Messages == [kind : {"calls"}, ids : SUBSET Ids]
              \cup [kind : {"result"}, ids : SUBSET Ids, result : Results]

TypeOK ==
  /\ provider \in Providers
  /\ pc \in {"choose", "ask", "answer", "call", "running", "ended"}
  /\ round \in 0 .. MaxIterations
  /\ bound \in SUBSET Common
  /\ messages \in Seq(Messages)
  /\ queue \in Seq(Queued)
  /\ known \in SUBSET Ids
  /\ \A key \in DOMAIN cached : cached[key] \in Results
  /\ \A key \in DOMAIN failures : failures[key] \in Nat
  /\ DOMAIN shown \subseteq Ids
  /\ \A id \in DOMAIN shown : shown[id] \in {"pending", "error", "success"}
  /\ aborted \in BOOLEAN
  /\ outcome \in {"none", "answered", "too many", "aborted", "interrupted", "error", "repeated"}
  /\ world \in Nat
  /\ troubles \in Nat

IsResult(message, id) == message.kind = "result" /\ message.ids = {id}
Unanswered(id) == \A k \in DOMAIN messages : ~IsResult(messages[k], id)
\* The call in message i has one result, which comes later.
AnsweredOnce(id, i) ==
  \E j \in DOMAIN messages :
    /\ i < j
    /\ IsResult(messages[j], id)
    /\ \A k \in DOMAIN messages : IsResult(messages[k], id) => k = j
Waits(id) == \E n \in DOMAIN queue : queue[n].id = id

\* The queue: what a round has still to do. Its calls have no result yet, and
\* only the one that runs is known.
QueueOK ==
  /\ pc \notin {"call", "running"} => queue = <<>>
  /\ pc = "running" => queue /= <<>>
  /\ Apart(queue)
  /\ \A n \in DOMAIN queue : GivenOnce(queue[n].id) =>
       /\ Unanswered(queue[n].id)
       /\ queue[n].id \in known => pc = "running" /\ n = 1

\* Ids are those of rounds that were: an answer finds none of its own round.
Old(id) == GivenOnce(id) => id[2] <= round /\ (pc = "answer" => id[2] < round)
AgesOK ==
  /\ \A id \in known : Old(id)
  /\ \A n \in DOMAIN queue : Old(queue[n].id)
  /\ \A i \in DOMAIN messages : \A id \in messages[i].ids : Old(id)

\* A call that was made waits or has its result.
CallsOK ==
  \A i \in DOMAIN messages : messages[i].kind = "calls" =>
    \A id \in messages[i].ids : GivenOnce(id) => Waits(id) \/ AnsweredOnce(id, i)

\* A call that was made is shown, and as pending only while it waits.
ShownTo(id) == id \in DOMAIN shown /\ (shown[id] = "pending" => Waits(id))
ShownOK ==
  \A i \in DOMAIN messages : messages[i].kind = "calls" =>
    \A id \in messages[i].ids : GivenOnce(id) => ShownTo(id)

\* What failed is kept like other results, so nothing fails twice.
KeysOK ==
  /\ DOMAIN failures \subseteq DOMAIN cached
  /\ pc = "running" => Key(First) \notin DOMAIN cached

Inv == TypeOK /\ QueueOK /\ AgesOK /\ CallsOK /\ ShownOK /\ KeysOK

\* The first call of a queue, and what is left without it.
LEMMA QueueParts ==
  ASSUME TypeOK, Apart(queue), queue /= <<>>
  PROVE  /\ First \in Queued /\ First.id \in Ids
         /\ Tail(queue) \in Seq(Queued)
         /\ Len(queue) \in Nat \ {0} /\ DOMAIN queue = 1 .. Len(queue) /\ 1 \in DOMAIN queue
         /\ DOMAIN Tail(queue) = 1 .. Len(queue) - 1
         /\ \A n \in DOMAIN Tail(queue) :
              n + 1 \in DOMAIN queue /\ Tail(queue)[n] = queue[n + 1] /\ queue[n + 1].id /= First.id
         /\ \A n \in DOMAIN queue : n /= 1 => n - 1 \in DOMAIN Tail(queue) /\ Tail(queue)[n - 1] = queue[n]
<1>1. queue \in Seq(Queued)
  BY DEF TypeOK
<1>2. Len(queue) \in Nat \ {0} /\ DOMAIN queue = 1 .. Len(queue) /\ 1 \in DOMAIN queue
  BY <1>1
<1>3. Tail(queue) \in Seq(Queued) /\ DOMAIN Tail(queue) = 1 .. Len(queue) - 1
  BY <1>1
<1>4. \A n \in 1 .. Len(queue) - 1 : Tail(queue)[n] = queue[n + 1]
  BY <1>1
<1>5. First \in Queued
  BY <1>1, <1>2 DEF First
<1>6. First.id \in Ids
  BY <1>5 DEF Queued
<1>7. \A n \in DOMAIN Tail(queue) :
        n + 1 \in DOMAIN queue /\ Tail(queue)[n] = queue[n + 1] /\ queue[n + 1].id /= First.id
  BY <1>2, <1>3, <1>4 DEF Apart, First
<1>8. \A n \in DOMAIN queue : n /= 1 => n - 1 \in DOMAIN Tail(queue) /\ Tail(queue)[n - 1] = queue[n]
  BY <1>2, <1>3, <1>4
<1>. QED BY <1>2, <1>3, <1>5, <1>6, <1>7, <1>8

\* One more message.
LEMMA OneMore ==
  ASSUME NEW C, NEW s \in Seq(C), NEW c \in C
  PROVE  /\ Append(s, c) \in Seq(C)
         /\ DOMAIN Append(s, c) = DOMAIN s \cup {Len(s) + 1}
         /\ Len(s) \in Nat /\ DOMAIN s = 1 .. Len(s)
         /\ \A i \in DOMAIN s : Append(s, c)[i] = s[i]
         /\ Append(s, c)[Len(s) + 1] = c
  OBVIOUS

\* A call is answered and leaves the queue.
Answering(result) ==
  /\ pc \in {"call", "running"} /\ queue /= <<>>
  /\ Tell(First.id, result)
  /\ queue' = Tail(queue) /\ pc' = "call" /\ round' = round
  /\ known' \in {known, known \cup {First.id}}
  /\ \E error \in BOOLEAN : Show(First.id, error)

LEMMA ToldResult ==
  ASSUME NEW id \in Ids, NEW result \in Results
  PROVE  Told(id, result) \in Messages /\ IsResult(Told(id, result), id)
         /\ Told(id, result).kind = "result" /\ Told(id, result).ids = {id}
  BY DEF Told, Messages, IsResult

LEMMA ShownTypes ==
  ASSUME TypeOK, NEW id \in Ids, NEW error \in BOOLEAN, Show(id, error)
  PROVE  /\ DOMAIN shown' \subseteq Ids
         /\ \A x \in DOMAIN shown' : shown'[x] \in {"pending", "error", "success"}
         /\ DOMAIN shown' = DOMAIN shown \cup {id} /\ shown'[id] /= "pending"
         /\ \A x \in DOMAIN shown : x /= id => shown'[x] = shown[x]
<1>1. shown' = [x \in DOMAIN shown \cup {id} |->
                  IF x \in {id} THEN IF error THEN "error" ELSE "success" ELSE shown[x]]
  BY DEF Show, Update, Mark
<1>. QED BY <1>1 DEF TypeOK

LEMMA AnsweringKeeps ==
  ASSUME Inv, NEW result \in Results, Answering(result)
  PROVE  /\ messages' \in Seq(Messages) /\ queue' \in Seq(Queued)
         /\ QueueOK' /\ AgesOK' /\ CallsOK' /\ ShownOK'
<1>. DEFINE id0 == First.id
            told == Told(id0, result)
<1>0. TypeOK /\ QueueOK /\ AgesOK /\ CallsOK /\ ShownOK /\ messages \in Seq(Messages)
  BY DEF Inv, TypeOK
<1>1. /\ pc \in {"call", "running"} /\ queue /= <<>>
      /\ Tell(id0, result)
      /\ queue' = Tail(queue) /\ pc' = "call" /\ round' = round
      /\ known' \in {known, known \cup {id0}}
  BY DEF Answering
<1>2. /\ id0 \in Ids
      /\ Tail(queue) \in Seq(Queued)
      /\ Len(queue) \in Nat \ {0} /\ DOMAIN queue = 1 .. Len(queue) /\ 1 \in DOMAIN queue
      /\ DOMAIN Tail(queue) = 1 .. Len(queue) - 1
      /\ \A n \in DOMAIN Tail(queue) :
           n + 1 \in DOMAIN queue /\ Tail(queue)[n] = queue[n + 1] /\ queue[n + 1].id /= id0
      /\ \A n \in DOMAIN queue : n /= 1 => n - 1 \in DOMAIN Tail(queue) /\ Tail(queue)[n - 1] = queue[n]
  <2>1. Apart(queue)
    BY <1>0 DEF QueueOK
  <2>. QED BY <1>0, <1>1, <2>1, QueueParts
<1>3. told \in Messages /\ IsResult(told, id0) /\ told.kind = "result" /\ told.ids = {id0}
  BY <1>2, ToldResult
<1>. HIDE DEF told
<1>4. \/ messages' = messages /\ ~GivenOnce(id0)
      \/ Unanswered(id0) /\ messages' = Append(messages, told)
  <2>1. CASE \E i \in DOMAIN messages : messages[i].kind = "result" /\ messages[i].ids = {id0}
    <3>1. messages' = messages
      BY <1>1, <2>1 DEF Tell
    <3>2. ~Unanswered(id0)
      BY <2>1 DEF Unanswered, IsResult
    <3>3. ~GivenOnce(id0)
      BY <1>0, <1>2, <3>2 DEF QueueOK, First
    <3>. QED BY <3>1, <3>3
  <2>2. CASE ~\E i \in DOMAIN messages : messages[i].kind = "result" /\ messages[i].ids = {id0}
    BY <1>1, <2>2 DEF Tell, told, Unanswered, IsResult
  <2>. QED BY <2>1, <2>2
<1>5. /\ messages' \in Seq(Messages)
      /\ DOMAIN messages \subseteq DOMAIN messages'
      /\ \A i \in DOMAIN messages : messages'[i] = messages[i]
      /\ \A i \in DOMAIN messages' : i \in DOMAIN messages \/ messages'[i] = told
  BY <1>0, <1>3, <1>4, OneMore
<1>6. ASSUME NEW id, id /= id0
      PROVE /\ Unanswered(id) => Unanswered(id)'
            /\ \A i \in DOMAIN messages : AnsweredOnce(id, i) => AnsweredOnce(id, i)'
  <2>1. \A i \in DOMAIN messages' : IsResult(messages'[i], id) =>
          i \in DOMAIN messages /\ IsResult(messages[i], id)
    BY <1>3, <1>5, <1>6 DEF IsResult
  <2>. QED BY <1>5, <2>1 DEF Unanswered, AnsweredOnce
<1>7. QueueOK'
  <2>1. Apart(queue')
    <3>1. Apart(queue)
      BY <1>0 DEF QueueOK
    <3>. QED BY <1>1, <1>2, <3>1 DEF Apart
  <2>2. ASSUME NEW n \in DOMAIN queue', NEW id, id = queue'[n].id, GivenOnce(id)
        PROVE Unanswered(id)' /\ id \notin known'
    <3>1. n + 1 \in DOMAIN queue /\ id = queue[n + 1].id /\ id /= id0 /\ n + 1 /= 1
      BY <1>1, <1>2, <2>2
    <3>2. Unanswered(id) /\ id \notin known
      BY <1>0, <2>2, <3>1 DEF QueueOK
    <3>. QED BY <1>1, <1>6, <3>1, <3>2
  <2>3. (\A n \in DOMAIN queue : GivenOnce(queue[n].id) =>
           Unanswered(queue[n].id) /\ (queue[n].id \in known => pc = "running" /\ n = 1))'
    BY <2>2, Zenon DEF Unanswered, IsResult
  <2>. QED BY <1>1, <2>1, <2>3 DEF QueueOK
<1>8. AgesOK'
  <2>1. \A id : Old(id) => Old(id)'
    BY <1>1 DEF Old
  <2>2. Old(id0)
    BY <1>0, <1>2 DEF AgesOK, First
  <2>3. \A id \in known' : Old(id)
    BY <1>0, <1>1, <2>2 DEF AgesOK
  <2>4. \A n \in DOMAIN queue' : Old(queue'[n].id)
    BY <1>0, <1>1, <1>2 DEF AgesOK
  <2>5. \A i \in DOMAIN messages' : \A id \in messages'[i].ids : Old(id)
    BY <1>0, <1>3, <1>5, <2>2 DEF AgesOK
  <2>. QED BY <2>1, <2>3, <2>4, <2>5 DEF AgesOK
<1>9. ASSUME NEW id, id /= id0, Waits(id) PROVE Waits(id)'
  <2>1. PICK n \in DOMAIN queue : queue[n].id = id
    BY <1>9 DEF Waits
  <2>2. n /= 1
    BY <1>9, <2>1 DEF First
  <2>3. n - 1 \in DOMAIN queue' /\ queue'[n - 1] = queue[n]
    BY <1>1, <1>2, <2>2
  <2>. QED BY <2>1, <2>3 DEF Waits
<1>10. CallsOK'
  <2>. SUFFICES ASSUME NEW i \in DOMAIN messages', messages'[i].kind = "calls",
                       NEW id \in messages'[i].ids, GivenOnce(id)
                PROVE  Waits(id)' \/ AnsweredOnce(id, i)'
    BY DEF CallsOK
  <2>1. i \in DOMAIN messages /\ messages'[i] = messages[i]
    BY <1>3, <1>5
  <2>2. Waits(id) \/ AnsweredOnce(id, i)
    BY <1>0, <2>1 DEF CallsOK
  <2>3. CASE id /= id0
    BY <1>6, <1>9, <2>1, <2>2, <2>3
  <2>4. CASE id = id0
    <3>1. Unanswered(id0) /\ messages' = Append(messages, told)
      BY <1>4, <2>4
    <3>2. DOMAIN messages' = DOMAIN messages \cup {Len(messages) + 1}
          /\ messages'[Len(messages) + 1] = told /\ i < Len(messages) + 1
      BY <1>0, <1>3, <2>1, <3>1, OneMore
    <3>3. \A k \in DOMAIN messages' : IsResult(messages'[k], id0) => k = Len(messages) + 1
      BY <1>5, <3>1, <3>2 DEF Unanswered
    <3>. QED BY <1>3, <2>4, <3>2, <3>3 DEF AnsweredOnce
  <2>. QED BY <2>3, <2>4
<1>11. ShownOK'
  <2>1. PICK error \in BOOLEAN : Show(id0, error)
    BY DEF Answering
  <2>2. /\ DOMAIN shown' = DOMAIN shown \cup {id0} /\ shown'[id0] /= "pending"
        /\ \A x \in DOMAIN shown : x /= id0 => shown'[x] = shown[x]
    BY <1>0, <1>2, <2>1, ShownTypes
  <2>. SUFFICES ASSUME NEW i \in DOMAIN messages', messages'[i].kind = "calls",
                       NEW id \in messages'[i].ids, GivenOnce(id)
                PROVE  ShownTo(id)'
    BY DEF ShownOK
  <2>3. i \in DOMAIN messages /\ messages'[i] = messages[i]
    BY <1>3, <1>5
  <2>4. ShownTo(id)
    BY <1>0, <2>3 DEF ShownOK
  <2>. QED BY <1>9, <2>2, <2>4 DEF ShownTo
<1>. QED BY <1>1, <1>2, <1>5, <1>7, <1>8, <1>10, <1>11

LEMMA RoundType == ASSUME TypeOK PROVE round \in Nat
<1>1. MaxIterations \in Nat
  BY TurnAssumption
<1>2. round \in 0 .. MaxIterations
  BY DEF TypeOK
<1>. QED BY <1>1, <1>2

LEMMA GivenIds ==
  ASSUME NEW a \in Answers, round \in Nat
  PROVE  \A id \in Named(a) : /\ id \in Ids
                              /\ GivenOnce(id) => id[2] = round
                              /\ GivenOnce(id) => a.how /= "text"
<1>1. a.how \in {"new", "again", "text"}
  BY TurnAssumption
<1>. QED BY <1>1 DEF Named, Ids, GivenOnce

\* What is taken from an answer: each of its calls runs, is refused, or neither.
LEMMA TakenCalls ==
  ASSUME NEW a \in Answers, NEW calls \in Seq(Pieced(Named(a))), Apart(calls), TypeOK
  PROVE  /\ Valid(calls) \in Seq(Queued) /\ Apart(Valid(calls))
         /\ Unknown(calls) \in Seq(Pieced(Named(a)))
         /\ \A n \in DOMAIN Valid(calls) : Valid(calls)[n].id \in Named(a)
         /\ \A n \in DOMAIN Unknown(calls) : Unknown(calls)[n].id \in Named(a)
         /\ \A n \in DOMAIN Valid(calls), m \in DOMAIN Unknown(calls) :
              Valid(calls)[n].id /= Unknown(calls)[m].id
<1>. DEFINE C == Pieced(Named(a))
            runs == {c \in ToSet(calls) : c.tool \in bound \cup Common /\ Acceptable(c)}
            fails == {c \in ToSet(calls) : c.tool /= None /\ c.tool \notin bound \cup Common}
            valid == Valid(calls)
            refused == Unknown(calls)
<1>1. valid \in Seq(C) /\ Apart(valid) /\ ToSet(valid) = runs
  <2>1. runs \in SUBSET ToSet(calls) /\ valid = Picked(calls, runs)
    BY DEF Valid
  <2>. HIDE DEF runs, valid, C
  <2>. QED BY <2>1, PickedCalls DEF C
<1>2. refused \in Seq(C) /\ ToSet(refused) = fails
  <2>1. fails \in SUBSET ToSet(calls) /\ refused = Picked(calls, fails)
    BY DEF Unknown
  <2>. HIDE DEF fails, refused, C
  <2>. QED BY <2>1, PickedCalls DEF C
<1>. HIDE DEF valid, refused
<1>3. \A n \in DOMAIN valid : valid[n] \in runs
  BY <1>1 DEF ToSet
<1>4. \A n \in DOMAIN refused : refused[n] \in fails
  BY <1>2 DEF ToSet
<1>5. \A c \in ToSet(calls) : c \in C /\ \E i \in DOMAIN calls : c = calls[i]
  BY DEF ToSet
<1>6. ASSUME NEW n \in DOMAIN valid
      PROVE valid[n] \in Queued /\ valid[n].id \in Named(a)
  <2>1. valid[n] \in C /\ valid[n].tool \in Common
    BY <1>3, <1>5 DEF TypeOK
  <2>2. valid[n].tool /= None
    BY <2>1, TurnAssumption
  <2>3. valid[n].id \in Named(a)
    BY <2>1, <2>2 DEF Pieced
  <2>4. valid[n].id \in Ids
    BY <2>3, RoundType, GivenIds
  <2>. QED BY <2>1, <2>3, <2>4 DEF Pieced, Queued
<1>7. \A n \in DOMAIN refused : refused[n].id \in Named(a)
  BY <1>4, <1>5 DEF Pieced
<1>8. \A n \in DOMAIN valid, m \in DOMAIN refused : valid[n].id /= refused[m].id
  <2>. SUFFICES ASSUME NEW n \in DOMAIN valid, NEW m \in DOMAIN refused, valid[n].id = refused[m].id
                PROVE  FALSE
    OBVIOUS
  <2>1. PICK i \in DOMAIN calls : valid[n] = calls[i]
    BY <1>3, <1>5
  <2>2. PICK j \in DOMAIN calls : refused[m] = calls[j]
    BY <1>4, <1>5
  <2>3. i = j
    BY <2>1, <2>2 DEF Apart
  <2>. QED BY <1>3, <1>4, <2>1, <2>2, <2>3
<1>9. valid \in Seq(Queued)
  <2>1. DOMAIN valid = 1 .. Len(valid) /\ Len(valid) \in Nat /\ valid = [n \in 1 .. Len(valid) |-> valid[n]]
    BY <1>1
  <2>2. valid \in [1 .. Len(valid) -> Queued]
    BY <1>6, <2>1
  <2>. QED BY <2>1, <2>2
<1>. QED BY <1>1, <1>2, <1>6, <1>7, <1>8, <1>9 DEF valid, refused

\* An answer is taken.
LEMMA TakingKeeps ==
  ASSUME Inv, pc = "answer", NEW a \in Answers, NEW calls \in Seq(Pieced(Named(a))), Apart(calls),
         NEW inText \in BOOLEAN, inText => a.how = "text" /\ IdsOf(calls) \subseteq Named(a),
         NEW announced \in SUBSET Named(a), Take(calls, inText, announced), round' = round
  PROVE  /\ messages' \in Seq(Messages) /\ queue' \in Seq(Queued)
         /\ bound' \in SUBSET Common /\ known' \in SUBSET Ids
         /\ DOMAIN shown' \subseteq Ids
         /\ \A id \in DOMAIN shown' : shown'[id] \in {"pending", "error", "success"}
         /\ pc' \in {"call", "ended"} /\ outcome' \in {outcome, "answered"}
         /\ QueueOK' /\ AgesOK' /\ CallsOK' /\ ShownOK'
<1>. DEFINE valid == Valid(calls)
            refused == Unknown(calls)
            told == [i \in DOMAIN refused |-> Told(refused[i].id, Failed(world))]
            before == messages \o told
            asked == Asked(IdsOf(valid))
<1>0. /\ TypeOK /\ QueueOK /\ AgesOK /\ CallsOK /\ ShownOK
      /\ messages \in Seq(Messages) /\ bound \in SUBSET Common /\ known \in SUBSET Ids /\ world \in Nat
      /\ round \in Nat
  BY RoundType DEF Inv, TypeOK
<1>1. /\ valid \in Seq(Queued) /\ Apart(valid)
      /\ refused \in Seq(Pieced(Named(a)))
      /\ \A n \in DOMAIN valid : valid[n].id \in Named(a)
      /\ \A n \in DOMAIN refused : refused[n].id \in Named(a)
      /\ \A n \in DOMAIN valid, m \in DOMAIN refused : valid[n].id /= refused[m].id
  BY <1>0, TakenCalls
<1>2. /\ bound' = bound \cup ({c.tool : c \in ToSet(calls)} \cap Common)
      /\ shown' = Mark(Announce(announced \cup IdsOf(valid)), IdsOf(refused), "error")
      /\ \/ /\ valid = <<>> /\ messages' = before /\ queue' = <<>>
            /\ pc' = "ended" /\ outcome' = "answered"
         \/ /\ messages' = Append(before, asked) /\ queue' = valid
            /\ pc' = "call" /\ outcome' = outcome
      /\ known' = IF inText THEN known \cup IdsOf(calls) ELSE known
  BY DEF Take
<1>3. \A id \in Named(a) : /\ id \in Ids
                           /\ GivenOnce(id) => id[2] = round
                           /\ GivenOnce(id) => a.how /= "text"
  BY <1>0, GivenIds
<1>. HIDE DEF valid, refused
<1>4. /\ \A id : id \in IdsOf(valid) <=> \E n \in DOMAIN valid : id = valid[n].id
      /\ \A id : id \in IdsOf(refused) <=> \E n \in DOMAIN refused : id = refused[n].id
  BY DEF IdsOf, ToSet
<1>5. IdsOf(valid) \subseteq Named(a) /\ IdsOf(refused) \subseteq Named(a) /\ Named(a) \subseteq Ids
  BY <1>1, <1>3, <1>4
<1>6. told \in Seq(Messages) /\ \A m \in DOMAIN told : told[m].kind = "result"
        /\ \E n \in DOMAIN refused : told[m].ids = {refused[n].id}
  <2>1. Failed(world) \in Results
    BY <1>0 DEF Failed, Results
  <2>2. ASSUME NEW m \in DOMAIN refused
        PROVE /\ Told(refused[m].id, Failed(world)) \in Messages
              /\ Told(refused[m].id, Failed(world)).kind = "result"
              /\ Told(refused[m].id, Failed(world)).ids = {refused[m].id}
    BY <1>1, <1>3, <2>1, ToldResult
  <2>3. DOMAIN refused = 1 .. Len(refused) /\ Len(refused) \in Nat
    BY <1>1
  <2>4. told \in [1 .. Len(refused) -> Messages]
    BY <2>2, <2>3
  <2>5. told \in Seq(Messages)
    <3>. HIDE DEF told
    <3>. QED BY <2>3, <2>4
  <2>. QED BY <2>2, <2>5
<1>. HIDE DEF told
<1>7. /\ before \in Seq(Messages)
      /\ \A i \in DOMAIN messages : i \in DOMAIN before /\ before[i] = messages[i]
      /\ \A i \in DOMAIN before : i \in DOMAIN messages \/ \E m \in DOMAIN told : before[i] = told[m]
  <2>1. Len(messages) \in Nat /\ Len(told) \in Nat /\ DOMAIN messages = 1 .. Len(messages) /\ DOMAIN told = 1 .. Len(told)
    BY <1>0, <1>6
  <2>2. before \in Seq(Messages) /\ DOMAIN before = 1 .. Len(messages) + Len(told)
    BY <1>0, <1>6, <2>1
  <2>3. \A i \in DOMAIN before : before[i] = IF i <= Len(messages) THEN messages[i] ELSE told[i - Len(messages)]
    BY <1>0, <1>6, <2>1, <2>2
  <2>. HIDE DEF before
  <2>4. \A i \in DOMAIN before : i \notin DOMAIN messages => i - Len(messages) \in DOMAIN told /\ ~(i <= Len(messages))
    BY <2>1, <2>2
  <2>. QED BY <2>1, <2>2, <2>3, <2>4
<1>. HIDE DEF before
<1>8. asked \in Messages /\ asked.kind = "calls" /\ asked.ids = IdsOf(valid)
  BY <1>5 DEF Asked, Messages
<1>. HIDE DEF asked
\* What a message of the new conversation is.
<1>9. /\ messages' \in Seq(Messages)
      /\ \A i \in DOMAIN messages : i \in DOMAIN messages' /\ messages'[i] = messages[i]
      /\ \A i \in DOMAIN messages' :
           \/ i \in DOMAIN messages
           \/ \E n \in DOMAIN refused : messages'[i].kind = "result" /\ messages'[i].ids = {refused[n].id}
           \/ messages'[i].kind = "calls" /\ messages'[i].ids = IdsOf(valid) /\ queue' = valid
  <2>1. \A i \in DOMAIN before :
          \/ i \in DOMAIN messages
          \/ \E n \in DOMAIN refused : before[i].kind = "result" /\ before[i].ids = {refused[n].id}
    BY <1>6, <1>7
  <2>2. CASE messages' = before
    BY <1>7, <2>1, <2>2
  <2>3. CASE messages' = Append(before, asked) /\ queue' = valid
    <3>1. /\ Append(before, asked) \in Seq(Messages)
          /\ DOMAIN Append(before, asked) = DOMAIN before \cup {Len(before) + 1}
          /\ \A i \in DOMAIN before : Append(before, asked)[i] = before[i]
          /\ Append(before, asked)[Len(before) + 1] = asked
      BY <1>7, <1>8, OneMore
    <3>. QED BY <1>7, <1>8, <2>1, <2>3, <3>1
  <2>. QED BY <1>2, <2>2, <2>3
<1>10. queue = <<>> /\ (queue' = <<>> \/ queue' = valid) /\ pc' \in {"call", "ended"}
       /\ (pc' = "ended" => queue' = <<>>)
  BY <1>0, <1>2 DEF QueueOK
<1>12. \A id : Old(id) => Old(id)'
  BY <1>10 DEF Old
<1>13. \A id \in Named(a) : Old(id)'
  BY <1>0, <1>3, <1>10 DEF Old
\* Ids of this round are new.
<1>14. ASSUME NEW id, GivenOnce(id), Old(id) PROVE id \notin Named(a)
  <2>1. id[2] < round
    BY <1>14 DEF Old
  <2>. QED BY <1>0, <1>3, <1>14, <2>1
<1>15. QueueOK'
  <2>1. Apart(queue')
    BY <1>1, <1>10 DEF Apart
  <2>2. ASSUME NEW n \in DOMAIN queue', NEW id, id = queue'[n].id, GivenOnce(id)
        PROVE Unanswered(id)' /\ id \notin known'
    <3>1. n \in DOMAIN valid /\ id = valid[n].id /\ id \in Named(a)
      BY <1>1, <1>10, <2>2
    <3>2. ~inText
      BY <1>3, <2>2, <3>1
    <3>3. id \notin known'
      BY <1>0, <1>2, <1>14, <2>2, <3>1, <3>2 DEF AgesOK
    <3>4. ASSUME NEW i \in DOMAIN messages', IsResult(messages'[i], id) PROVE FALSE
      <4>1. CASE i \in DOMAIN messages
        <5>1. id \in messages[i].ids
          BY <1>9, <3>4, <4>1 DEF IsResult
        <5>2. Old(id)
          BY <1>0, <4>1, <5>1 DEF AgesOK
        <5>. QED BY <1>14, <2>2, <3>1, <5>2
      <4>2. CASE \E m \in DOMAIN refused : messages'[i].kind = "result" /\ messages'[i].ids = {refused[m].id}
        BY <1>1, <3>1, <3>4, <4>2 DEF IsResult
      <4>3. CASE messages'[i].kind = "calls"
        BY <3>4, <4>3 DEF IsResult
      <4>. QED BY <1>9, <4>1, <4>2, <4>3
    <3>. QED BY <3>3, <3>4 DEF Unanswered
  <2>3. (\A n \in DOMAIN queue : GivenOnce(queue[n].id) =>
           Unanswered(queue[n].id) /\ (queue[n].id \in known => pc = "running" /\ n = 1))'
    BY <2>2, Zenon DEF Unanswered, IsResult
  <2>. QED BY <1>10, <2>1, <2>3 DEF QueueOK
<1>16. AgesOK'
  <2>1. ASSUME NEW id \in known' PROVE Old(id)'
    <3>1. id \in known \/ id \in Named(a)
      BY <1>2
    <3>. QED BY <1>0, <1>12, <1>13, <3>1 DEF AgesOK
  <2>2. ASSUME NEW n \in DOMAIN queue', NEW id, id = queue'[n].id PROVE Old(id)'
    BY <1>1, <1>10, <1>13, <2>2
  <2>3. ASSUME NEW i \in DOMAIN messages', NEW id \in messages'[i].ids PROVE Old(id)'
    <3>1. CASE i \in DOMAIN messages
      BY <1>0, <1>9, <1>12, <2>3, <3>1 DEF AgesOK
    <3>2. CASE \E m \in DOMAIN refused : messages'[i].kind = "result" /\ messages'[i].ids = {refused[m].id}
      BY <1>1, <1>13, <2>3, <3>2
    <3>3. CASE messages'[i].kind = "calls" /\ messages'[i].ids = IdsOf(valid)
      BY <1>5, <1>13, <2>3, <3>3
    <3>. QED BY <1>9, <3>1, <3>2, <3>3
  <2>4. (\A n \in DOMAIN queue : Old(queue[n].id))'
    BY <2>2, Zenon DEF Old
  <2>. QED BY <2>1, <2>3, <2>4 DEF AgesOK
<1>17. CallsOK'
  <2>. SUFFICES ASSUME NEW i \in DOMAIN messages', messages'[i].kind = "calls",
                       NEW id \in messages'[i].ids, GivenOnce(id)
                PROVE  Waits(id)' \/ AnsweredOnce(id, i)'
    BY DEF CallsOK
  <2>1. CASE i \in DOMAIN messages
    <3>1. messages[i].kind = "calls" /\ id \in messages[i].ids /\ Old(id)
      BY <1>0, <1>9, <2>1 DEF AgesOK
    <3>2. AnsweredOnce(id, i)
      BY <1>0, <1>10, <2>1, <3>1 DEF CallsOK, Waits
    <3>3. id \notin Named(a)
      BY <1>14, <3>1
    <3>4. ASSUME NEW k \in DOMAIN messages', IsResult(messages'[k], id)
          PROVE k \in DOMAIN messages /\ IsResult(messages[k], id)
      <4>1. messages'[k].kind = "result" /\ messages'[k].ids = {id}
        BY <3>4 DEF IsResult
      <4>2. k \in DOMAIN messages
        <5>1. ASSUME NEW n \in DOMAIN refused PROVE messages'[k].ids /= {refused[n].id}
          BY <1>1, <3>3, <4>1
        <5>. QED BY <1>9, <4>1, <5>1
      <4>. QED BY <1>9, <4>1, <4>2 DEF IsResult
    <3>. QED BY <1>9, <3>2, <3>4 DEF AnsweredOnce
  <2>2. CASE i \notin DOMAIN messages
    <3>1. id \in IdsOf(valid) /\ queue' = valid
      BY <1>9, <2>2
    <3>. QED BY <1>4, <3>1 DEF Waits
  <2>. QED BY <2>1, <2>2
<1>18. /\ DOMAIN shown' = DOMAIN shown \cup (announced \cup IdsOf(valid)) \cup IdsOf(refused)
       /\ \A id \in DOMAIN shown' :
            shown'[id] = IF id \in IdsOf(refused) THEN "error"
                         ELSE IF id \in announced \cup IdsOf(valid) THEN "pending" ELSE shown[id]
  <2>. DEFINE once == Announce(announced \cup IdsOf(valid))
  <2>1. shown' = Mark(once, IdsOf(refused), "error")
    BY <1>2
  <2>2. DOMAIN once = DOMAIN shown \cup (announced \cup IdsOf(valid))
        /\ \A x \in DOMAIN once : once[x] = IF x \in announced \cup IdsOf(valid) THEN "pending" ELSE shown[x]
    BY DEF Announce, Mark
  <2>. HIDE DEF once
  <2>3. DOMAIN shown' = DOMAIN once \cup IdsOf(refused)
        /\ \A x \in DOMAIN shown' : shown'[x] = IF x \in IdsOf(refused) THEN "error" ELSE once[x]
    BY <2>1 DEF Mark
  <2>. QED BY <2>2, <2>3
<1>19. DOMAIN shown' \subseteq Ids /\ \A id \in DOMAIN shown' : shown'[id] \in {"pending", "error", "success"}
  BY <1>0, <1>5, <1>18 DEF TypeOK
<1>20. ShownOK'
  <2>. SUFFICES ASSUME NEW i \in DOMAIN messages', messages'[i].kind = "calls",
                       NEW id \in messages'[i].ids, GivenOnce(id)
                PROVE  ShownTo(id)'
    BY DEF ShownOK
  <2>1. CASE i \notin DOMAIN messages
    <3>1. id \in IdsOf(valid) /\ queue' = valid
      BY <1>9, <2>1
    <3>2. Waits(id)'
      BY <1>4, <3>1 DEF Waits
    <3>. QED BY <1>18, <3>1, <3>2 DEF ShownTo
  <2>2. CASE i \in DOMAIN messages
    <3>1. messages[i].kind = "calls" /\ id \in messages[i].ids /\ Old(id)
      BY <1>0, <1>9, <2>2 DEF AgesOK
    <3>2. id \notin announced \cup IdsOf(valid) /\ id \notin IdsOf(refused)
      BY <1>5, <1>14, <3>1
    <3>3. id \in DOMAIN shown /\ shown[id] /= "pending"
      BY <1>0, <1>10, <2>2, <3>1 DEF ShownOK, ShownTo, Waits
    <3>. QED BY <1>18, <3>2, <3>3 DEF ShownTo
  <2>. QED BY <2>1, <2>2
<1>21. bound' \in SUBSET Common /\ known' \in SUBSET Ids /\ outcome' \in {outcome, "answered"}
  BY <1>0, <1>2, <1>5
<1>22. queue' \in Seq(Queued)
  <2>1. <<>> \in Seq(Queued)
    OBVIOUS
  <2>. QED BY <1>1, <1>10, <2>1
<1>. QED BY <1>9, <1>10, <1>15, <1>16, <1>17, <1>19, <1>20, <1>21, <1>22

LEMMA QueuedIds == ASSUME TypeOK PROVE \A n \in DOMAIN queue : queue[n] \in Queued /\ queue[n].id \in Ids
<1>1. queue \in Seq(Queued)
  BY DEF TypeOK
<1>2. \A n \in DOMAIN queue : queue[n] \in Queued
  BY <1>1
<1>. QED BY <1>2 DEF Queued

LEMMA MessageIds == ASSUME TypeOK PROVE \A i \in DOMAIN messages : messages[i].ids \subseteq Ids
<1>1. messages \in Seq(Messages)
  BY DEF TypeOK
<1>2. \A i \in DOMAIN messages : messages[i] \in Messages
  BY <1>1
<1>. QED BY <1>2 DEF Messages

\* Calls are shown, of an answer that is still to be taken.
Announcing ==
  \E ids \in SUBSET Ids :
    /\ shown' = Announce(ids)
    /\ \A id \in ids : GivenOnce(id) => pc = "answer" /\ id[2] = round

LEMMA AnnouncingKeeps ==
  ASSUME Inv, UNCHANGED <<messages, queue>>, shown' = shown \/ Announcing
  PROVE  /\ ShownOK'
         /\ DOMAIN shown' \subseteq Ids
         /\ \A id \in DOMAIN shown' : shown'[id] \in {"pending", "error", "success"}
<1>0. TypeOK /\ AgesOK /\ ShownOK /\ round \in Nat
  BY RoundType DEF Inv
<1>1. CASE shown' = shown
  BY <1>0, <1>1 DEF TypeOK, ShownOK, ShownTo, Waits
<1>2. CASE Announcing
  <2>1. PICK ids \in SUBSET Ids : /\ shown' = Announce(ids)
                                  /\ \A id \in ids : GivenOnce(id) => pc = "answer" /\ id[2] = round
    BY <1>2 DEF Announcing
  <2>2. /\ DOMAIN shown' = DOMAIN shown \cup ids
        /\ \A id \in DOMAIN shown' : shown'[id] = IF id \in ids THEN "pending" ELSE shown[id]
    BY <2>1 DEF Announce, Mark
  <2>3. DOMAIN shown' \subseteq Ids /\ \A id \in DOMAIN shown' : shown'[id] \in {"pending", "error", "success"}
    BY <1>0, <2>2 DEF TypeOK
  <2>4. ASSUME NEW i \in DOMAIN messages, messages[i].kind = "calls", NEW id \in messages[i].ids, GivenOnce(id)
        PROVE  ShownTo(id)'
    <3>1. ShownTo(id) /\ Old(id)
      BY <1>0, <2>4 DEF ShownOK, AgesOK
    <3>2. id \notin ids
      <4>. SUFFICES ASSUME id \in ids PROVE FALSE
        OBVIOUS
      <4>1. pc = "answer" /\ id[2] = round /\ id[2] < round
        BY <2>1, <2>4, <3>1 DEF Old
      <4>. QED BY <1>0, <4>1
    <3>. QED BY <2>2, <3>1, <3>2 DEF ShownTo, Waits
  <2>. QED BY <2>3, <2>4 DEF ShownOK
<1>. QED BY <1>1, <1>2

\* What may be shown of an answer has the ids of this round.
LEMMA AnnouncedIds ==
  ASSUME NEW ids, NEW chunks \in Seq(Pieced(ids))
  PROVE  /\ Announced(chunks) \subseteq ids
         /\ \A n \in 0 .. Len(chunks) : Announced(SubSeq(chunks, 1, n)) \subseteq ids
<1>1. ASSUME NEW s \in Seq(Pieced(ids)) PROVE Announced(s) \subseteq ids
  <2>1. \A c \in ToSet(s) : c \in Pieced(ids)
    <3>. DEFINE C == Pieced(ids)
    <3>1. \A i \in DOMAIN s : s[i] \in C
      <4>1. s \in Seq(C)
        OBVIOUS
      <4>. HIDE DEF C
      <4>. QED BY <4>1
    <3>. HIDE DEF C
    <3>2. \A c \in ToSet(s) : c \in C
      BY <3>1 DEF ToSet
    <3>. QED BY <3>2 DEF C
  <2>2. \A c \in Pieced(ids) : c.id \in ids \cup {None}
    BY DEF Pieced
  <2>. QED BY <2>1, <2>2 DEF Announced
<1>2. ASSUME NEW n \in 0 .. Len(chunks) PROVE SubSeq(chunks, 1, n) \in Seq(Pieced(ids))
  <2>. DEFINE C == Pieced(ids)
  <2>1. chunks \in Seq(C)
    OBVIOUS
  <2>. HIDE DEF C
  <2>2. 1 \in Int /\ n \in Int /\ \A i \in 1 .. n : chunks[i] \in C
    BY <2>1
  <2>3. SubSeq(chunks, 1, n) \in Seq(C)
    BY <2>2, SubSeqProperties
  <2>. QED BY <2>3 DEF C
<1>. QED BY <1>1, <1>2

LEMMA HeardIds ==
  ASSUME TypeOK, NEW ids \in Heard
  PROVE  ids \in SUBSET Ids /\ \A id \in ids : GivenOnce(id) => id[2] = round
<1>1. CASE ids = {}
  BY <1>1
<1>2. CASE ids /= {}
  <2>1. PICK a \in Answers : \E n \in 1 .. Len(Chunks(Numbered(a))) : ids = Announced(SubSeq(Chunks(Numbered(a)), 1, n))
    BY <1>2 DEF Heard
  <2>2. PICK n \in 1 .. Len(Chunks(Numbered(a))) : ids = Announced(SubSeq(Chunks(Numbered(a)), 1, n))
    BY <2>1
  <2>. DEFINE chunks == Chunks(Numbered(a))
  <2>3. chunks \in Seq(Pieced(Named(a)))
    BY NumberedCalls, Chunked
  <2>4. n \in 1 .. Len(chunks) /\ ids = Announced(SubSeq(chunks, 1, n))
    BY <2>2
  <2>. HIDE DEF chunks
  <2>5. Len(chunks) \in Nat /\ n \in 0 .. Len(chunks)
    BY <2>3, <2>4
  <2>6. ids \subseteq Named(a)
    BY <2>3, <2>4, <2>5, AnnouncedIds
  <2>. QED BY <2>6, RoundType, GivenIds
<1>. QED BY <1>1, <1>2

\* A step that leaves the conversation alone.
LEMMA IdleKeeps ==
  ASSUME Inv, UNCHANGED <<messages, queue, known, cached, failures>>, shown' = shown \/ Announcing,
         pc' = pc \/ (queue = <<>> /\ pc' /= "running"),
         (round' = round /\ (pc' = "answer" => pc = "answer")) \/ round' = round + 1
  PROVE  QueueOK' /\ AgesOK' /\ CallsOK' /\ ShownOK' /\ KeysOK'
<1>0. TypeOK /\ QueueOK /\ AgesOK /\ CallsOK /\ ShownOK /\ KeysOK /\ round \in Nat
  BY RoundType DEF Inv
<1>1. QueueOK'
  <2>1. CASE pc' = pc
    BY <1>0, <2>1 DEF QueueOK, Unanswered, IsResult, Apart
  <2>2. CASE queue = <<>> /\ pc' /= "running"
    BY <2>2 DEF QueueOK, Apart
  <2>. QED BY <2>1, <2>2
<1>2. ASSUME NEW id \in Ids, Old(id) PROVE Old(id)'
  <2>1. CASE ~GivenOnce(id)
    BY <2>1 DEF Old, GivenOnce
  <2>2. CASE GivenOnce(id) /\ round' = round /\ (pc' = "answer" => pc = "answer")
    BY <1>2, <2>2 DEF Old
  <2>3. CASE GivenOnce(id) /\ round' = round + 1
    <3>1. id[2] <= round /\ id[2] \in Nat
      BY <1>2, <2>3 DEF Old, Ids
    <3>2. id[2] <= round' /\ id[2] < round'
      BY <1>0, <2>3, <3>1
    <3>. QED BY <3>2 DEF Old
  <2>. QED BY <2>1, <2>2, <2>3
<1>3. AgesOK'
  <2>1. \A id \in known : id \in Ids
    BY <1>0 DEF TypeOK
  <2>2. \A n \in DOMAIN queue : queue[n].id \in Ids
    BY <1>0, QueuedIds
  <2>3. \A i \in DOMAIN messages : \A id \in messages[i].ids : id \in Ids
    BY <1>0, MessageIds
  <2>4. (\A n \in DOMAIN queue : Old(queue[n].id))'
    <3>1. \A n \in DOMAIN queue : Old(queue[n].id)
      BY <1>0 DEF AgesOK
    <3>2. ASSUME NEW n \in DOMAIN queue, NEW id, id = queue[n].id PROVE Old(id)'
      BY <1>2, <2>2, <3>1, <3>2
    <3>. QED BY <3>2, Zenon DEF Old
  <2>. QED BY <1>0, <1>2, <2>1, <2>3, <2>4 DEF AgesOK
<1>4. CallsOK'
  <2>1. \A id : (Waits(id)' <=> Waits(id)) /\ \A i : AnsweredOnce(id, i) => AnsweredOnce(id, i)'
    BY DEF Waits, AnsweredOnce, IsResult
  <2>. QED BY <1>0, <2>1 DEF CallsOK
<1>5. ShownOK'
  BY AnnouncingKeeps
<1>6. KeysOK'
  BY <1>0 DEF KeysOK, QueueOK, First, Key
<1>. QED BY <1>1, <1>3, <1>4, <1>5, <1>6

LEMMA IdleSteps ==
  ASSUME Inv, Choose \/ Ask \/ Refuse \/ NoticeAbort \/ Done \/ Abort
  PROVE  Inv'
<1>0. TypeOK /\ QueueOK /\ round \in Nat /\ MaxIterations \in Nat /\ round \in 0 .. MaxIterations
  BY RoundType, TurnAssumption DEF Inv, TypeOK
<1>1. UNCHANGED <<messages, queue, known, cached, failures, world, provider>> /\ (shown' = shown \/ Announcing)
  <2>1. UNCHANGED <<messages, queue, known, cached, failures, world, provider>>
    BY DEF Choose, Ask, Refuse, NoticeAbort, Done, Abort, rest
  <2>2. CASE Refuse \/ NoticeAbort
    <3>1. pc = "answer" /\ \E ids \in Heard : shown' = Announce(ids)
      BY <2>2 DEF Refuse, NoticeAbort
    <3>. QED BY <1>0, <2>1, <3>1, HeardIds DEF Announcing
  <2>3. CASE Choose \/ Ask \/ Done \/ Abort
    BY <2>3 DEF Choose, Ask, Done, Abort, rest
  <2>. QED BY <2>1, <2>2, <2>3
<1>2. pc' = pc \/ (queue = <<>> /\ pc' /= "running")
  BY <1>0 DEF Choose, Ask, Refuse, NoticeAbort, Done, Abort, QueueOK, End
<1>3. (round' = round /\ (pc' = "answer" => pc = "answer")) \/ round' = round + 1
  BY DEF Choose, Ask, Refuse, NoticeAbort, Done, Abort, End, rest
<1>4. round' \in 0 .. MaxIterations
  <2>1. round' = round \/ (round' = round + 1 /\ round /= MaxIterations)
    BY DEF Choose, Ask, Refuse, NoticeAbort, Done, Abort, rest
  <2>. QED BY <1>0, <2>1
<1>5. bound' \in SUBSET Common
  BY <1>0 DEF Choose, Ask, Refuse, NoticeAbort, Done, Abort, rest, TypeOK
<1>6. pc' \in {"choose", "ask", "answer", "call", "running", "ended"}
  BY <1>0 DEF Choose, Ask, Refuse, NoticeAbort, Done, Abort, End, TypeOK
<1>7. outcome' \in {outcome, "too many", "aborted", "error"}
  BY DEF Choose, Ask, Refuse, NoticeAbort, Done, Abort, End, rest
<1>8. aborted' \in {aborted, TRUE} /\ troubles' \in {troubles, troubles + 1}
  BY DEF Choose, Ask, Refuse, NoticeAbort, Done, Abort, rest
<1>9. TypeOK'
  <2>0. DOMAIN shown' \subseteq Ids /\ \A id \in DOMAIN shown' : shown'[id] \in {"pending", "error", "success"}
    BY <1>1, AnnouncingKeeps
  <2>1. /\ provider' \in Providers /\ messages' \in Seq(Messages) /\ queue' \in Seq(Queued)
        /\ known' \in SUBSET Ids /\ DOMAIN shown' \subseteq Ids /\ world' \in Nat
        /\ \A id \in DOMAIN shown' : shown'[id] \in {"pending", "error", "success"}
        /\ \A key \in DOMAIN cached' : cached'[key] \in Results
        /\ \A key \in DOMAIN failures' : failures'[key] \in Nat
    BY <1>0, <1>1, <2>0 DEF TypeOK
  <2>2. aborted' \in BOOLEAN /\ troubles' \in Nat
    <3>1. aborted \in BOOLEAN /\ troubles \in Nat
      BY <1>0 DEF TypeOK
    <3>2. aborted' \in BOOLEAN
      BY <1>8, <3>1, Zenon
    <3>. QED BY <1>8, <3>1, <3>2
  <2>3. outcome' \in {"none", "answered", "too many", "aborted", "interrupted", "error", "repeated"}
    BY <1>0, <1>7 DEF TypeOK
  <2>. QED BY <1>4, <1>5, <1>6, <2>1, <2>2, <2>3 DEF TypeOK
<1>. QED BY <1>1, <1>2, <1>3, <1>9, IdleKeeps DEF Inv

\* The types that a step of the queue keeps besides those of AnsweringKeeps.
LEMMA AnsweringTypes ==
  ASSUME Inv, NEW result \in Results, Answering(result),
         UNCHANGED <<provider, bound, aborted, outcome>>,
         world' \in Nat, troubles' \in Nat,
         \A key \in DOMAIN cached' : cached'[key] \in Results,
         \A key \in DOMAIN failures' : failures'[key] \in Nat
  PROVE  TypeOK'
<1>0. TypeOK /\ QueueOK
  BY DEF Inv
<1>1. /\ pc' = "call" /\ round' = round /\ known' \in {known, known \cup {First.id}}
      /\ queue /= <<>>
  BY DEF Answering
<1>2. First.id \in Ids
  BY <1>0, <1>1, QueueParts DEF QueueOK
<1>3. messages' \in Seq(Messages) /\ queue' \in Seq(Queued)
  BY AnsweringKeeps
<1>4. DOMAIN shown' \subseteq Ids /\ \A x \in DOMAIN shown' : shown'[x] \in {"pending", "error", "success"}
  <2>1. PICK error \in BOOLEAN : Show(First.id, error)
    BY DEF Answering
  <2>. QED BY <1>0, <1>2, <2>1, ShownTypes
<1>5. known' \in SUBSET Ids /\ round' \in 0 .. MaxIterations
  BY <1>0, <1>1, <1>2 DEF TypeOK
<1>6. provider' \in Providers /\ bound' \in SUBSET Common /\ aborted' \in BOOLEAN
      /\ outcome' \in {"none", "answered", "too many", "aborted", "interrupted", "error", "repeated"}
  BY <1>0 DEF TypeOK
<1>. QED BY <1>1, <1>3, <1>4, <1>5, <1>6 DEF TypeOK

LEMMA FailedResult == ASSUME world \in Nat PROVE Failed(world) \in Results
  BY DEF Failed, Results

LEMMA AnsweringSteps ==
  ASSUME Inv, Repeat \/ TooLate \/ Throw
  PROVE  Inv'
<1>0. TypeOK /\ KeysOK /\ world \in Nat /\ troubles \in Nat
  BY DEF Inv, TypeOK
<1>1. PICK result \in Results : Answering(result)
  <2>1. CASE Repeat
    <3>1. cached[Key(First)] \in Results
      BY <1>0, <2>1 DEF Repeat, TypeOK
    <3>2. Answering(cached[Key(First)])
      <4>1. cached[Key(First)].error \in BOOLEAN
        BY <3>1 DEF Results
      <4>2. \E error \in BOOLEAN : Show(First.id, error)
        BY <2>1, <4>1, Zenon DEF Repeat
      <4>. QED BY <2>1, <4>2 DEF Repeat, Answering, rest
    <3>. QED BY <3>1, <3>2
  <2>2. CASE TooLate
    <3>1. Answering(Failed(world))
      BY <2>2 DEF TooLate, Answering, rest
    <3>. QED BY <1>0, <3>1, FailedResult
  <2>3. CASE Throw
    <3>1. queue /= <<>>
      BY <2>3 DEF Throw, Inv, QueueOK
    <3>2. Answering(Failed(world))
      BY <2>3, <3>1 DEF Throw, Answering, rest
    <3>. QED BY <1>0, <3>2, FailedResult
  <2>. QED BY <2>1, <2>2, <2>3
<1>2. UNCHANGED <<provider, bound, aborted, outcome, world, cached, failures>>
      /\ troubles' \in {troubles, troubles + 1}
  BY DEF Repeat, TooLate, Throw, rest
<1>3. QueueOK' /\ AgesOK' /\ CallsOK' /\ ShownOK'
  BY <1>1, AnsweringKeeps
<1>4. TypeOK'
  <2>1. world' \in Nat /\ troubles' \in Nat
    BY <1>0, <1>2
  <2>2. /\ \A key \in DOMAIN cached' : cached'[key] \in Results
        /\ \A key \in DOMAIN failures' : failures'[key] \in Nat
    BY <1>0, <1>2 DEF TypeOK
  <2>. QED BY <1>1, <1>2, <2>1, <2>2, AnsweringTypes
<1>5. KeysOK'
  <2>1. pc' = "call"
    BY <1>1 DEF Answering
  <2>. QED BY <1>0, <1>2, <2>1 DEF KeysOK
<1>. QED BY <1>3, <1>4, <1>5 DEF Inv

\* A tool returns: its result is kept or comes too late. It did not fail
\* before, since a result that says so is kept, and then it is not run.
LEMMA ReturnStep ==
  ASSUME Inv, Return
  PROVE  Inv'
<1>0. TypeOK /\ QueueOK /\ KeysOK /\ world \in Nat /\ troubles \in Nat
  BY DEF Inv, TypeOK
<1>. DEFINE key == Key(First)
<1>1. PICK failed \in BOOLEAN :
        LET count == (IF key \in DOMAIN failures THEN failures[key] ELSE 0) + 1
        IN
        /\ world' = IF First.tool \in Writers /\ ~failed THEN world + 1 ELSE world
        /\ IF aborted
           THEN /\ Tell(First.id, Failed(world)) /\ Show(First.id, TRUE)
                /\ queue' = Tail(queue) /\ pc' = "call"
                /\ UNCHANGED <<cached, failures, outcome>>
           ELSE /\ cached' = Update(cached, key, [error |-> failed, at |-> world'])
                /\ failures' = IF failed THEN Update(failures, key, count) ELSE failures
                /\ IF failed /\ count >= 3
                   THEN End("repeated") /\ UNCHANGED <<messages, shown, queue>>
                   ELSE /\ Tell(First.id, [error |-> failed, at |-> world']) /\ Show(First.id, failed)
                        /\ queue' = Tail(queue) /\ pc' = "call" /\ UNCHANGED outcome
  BY Zenon DEF Return
<1>2. pc = "running" /\ queue /= <<>> /\ UNCHANGED <<provider, round, bound, known, aborted, troubles>>
  BY <1>0 DEF Return, QueueOK
<1>3. key \notin DOMAIN cached /\ key \notin DOMAIN failures
  BY <1>0, <1>2 DEF KeysOK
<1>4. world' \in Nat
  BY <1>0, <1>1
<1>. HIDE DEF key
<1>5. \E result \in Results : Answering(result)
  <2>1. CASE aborted
    <3>1. Answering(Failed(world))
      BY <1>1, <1>2, <2>1 DEF Answering
    <3>. QED BY <1>0, <3>1, FailedResult
  <2>2. CASE ~aborted
    <3>1. [error |-> failed, at |-> world'] \in Results
      BY <1>4 DEF Results
    <3>2. Tell(First.id, [error |-> failed, at |-> world']) /\ Show(First.id, failed)
            /\ queue' = Tail(queue) /\ pc' = "call"
      BY <1>1, <1>3, <2>2
    <3>. QED BY <1>2, <3>1, <3>2 DEF Answering
  <2>. QED BY <2>1, <2>2
<1>6. /\ outcome' = outcome /\ pc' = "call"
      /\ \/ UNCHANGED <<cached, failures>>
         \/ /\ cached' = Update(cached, key, [error |-> failed, at |-> world'])
            /\ failures' = failures \/ failures' = Update(failures, key, 1)
  <2>1. CASE aborted
    BY <1>1, <2>1
  <2>2. CASE ~aborted
    <3>1. ~(failed /\ (IF key \in DOMAIN failures THEN failures[key] ELSE 0) + 1 >= 3)
      BY <1>3
    <3>2. outcome' = outcome /\ pc' = "call" /\ cached' = Update(cached, key, [error |-> failed, at |-> world'])
      BY <1>1, <2>2, <3>1
    <3>3. failures' = failures \/ failures' = Update(failures, key, 0 + 1)
      BY <1>1, <1>3, <2>2
    <3>. QED BY <3>2, <3>3
  <2>. QED BY <2>1, <2>2
<1>7. /\ \A k \in DOMAIN cached' : cached'[k] \in Results
      /\ \A k \in DOMAIN failures' : failures'[k] \in Nat
      /\ DOMAIN failures' \subseteq DOMAIN cached'
  <2>1. [error |-> failed, at |-> world'] \in Results
    BY <1>4 DEF Results
  <2>2. /\ \A k \in DOMAIN cached : cached[k] \in Results
        /\ \A k \in DOMAIN failures : failures[k] \in Nat
        /\ DOMAIN failures \subseteq DOMAIN cached
    BY <1>0 DEF TypeOK, KeysOK
  <2>. QED BY <1>6, <2>1, <2>2 DEF Update, Mark
<1>8. PICK result \in Results : Answering(result)
  BY <1>5
<1>9. QueueOK' /\ AgesOK' /\ CallsOK' /\ ShownOK'
  BY <1>8, AnsweringKeeps
<1>10. TypeOK'
  BY <1>0, <1>2, <1>4, <1>6, <1>7, <1>8, AnsweringTypes
<1>11. KeysOK'
  BY <1>6, <1>7 DEF KeysOK
<1>. QED BY <1>9, <1>10, <1>11 DEF Inv

LEMMA SkipStep == ASSUME Inv, Skip PROVE Inv'
<1>0. TypeOK /\ QueueOK /\ AgesOK /\ CallsOK /\ ShownOK /\ KeysOK
  BY DEF Inv
<1>1. /\ pc = "call" /\ queue /= <<>> /\ First.id \in known /\ queue' = Tail(queue)
      /\ UNCHANGED <<provider, bound, aborted, outcome, pc, round, messages, known, cached, failures, shown,
                     world, troubles>>
  BY DEF Skip, rest
<1>. DEFINE id0 == First.id
<1>2. /\ First \in Queued /\ id0 \in Ids
      /\ Tail(queue) \in Seq(Queued)
      /\ Len(queue) \in Nat \ {0} /\ DOMAIN queue = 1 .. Len(queue) /\ 1 \in DOMAIN queue
      /\ DOMAIN Tail(queue) = 1 .. Len(queue) - 1
      /\ \A n \in DOMAIN Tail(queue) :
           n + 1 \in DOMAIN queue /\ Tail(queue)[n] = queue[n + 1] /\ queue[n + 1].id /= id0
      /\ \A n \in DOMAIN queue : n /= 1 => n - 1 \in DOMAIN Tail(queue) /\ Tail(queue)[n - 1] = queue[n]
  BY <1>0, <1>1, QueueParts DEF QueueOK
<1>3. ~GivenOnce(id0)
  BY <1>0, <1>1, <1>2 DEF QueueOK, First
<1>4. \A id : GivenOnce(id) /\ Waits(id) => Waits(id)'
  BY <1>1, <1>2, <1>3 DEF Waits, First
<1>5. \A id, i : AnsweredOnce(id, i) => AnsweredOnce(id, i)'
  BY <1>1 DEF AnsweredOnce, IsResult
<1>6. QueueOK'
  <2>1. Apart(queue')
    <3>1. Apart(queue)
      BY <1>0 DEF QueueOK
    <3>. QED BY <1>1, <1>2, <3>1 DEF Apart
  <2>2. ASSUME NEW n \in DOMAIN queue', NEW id, id = queue'[n].id, GivenOnce(id)
        PROVE Unanswered(id)' /\ id \notin known'
    <3>1. n + 1 \in DOMAIN queue /\ id = queue[n + 1].id
      BY <1>1, <1>2, <2>2
    <3>2. Unanswered(id) /\ id \notin known
      BY <1>0, <1>1, <2>2, <3>1 DEF QueueOK
    <3>. QED BY <1>1, <3>2 DEF Unanswered, IsResult
  <2>3. (\A n \in DOMAIN queue : GivenOnce(queue[n].id) =>
           Unanswered(queue[n].id) /\ (queue[n].id \in known => pc = "running" /\ n = 1))'
    BY <2>2, Zenon DEF Unanswered, IsResult
  <2>. QED BY <1>1, <2>1, <2>3 DEF QueueOK
<1>7. AgesOK'
  <2>1. \A id : Old(id)' <=> Old(id)
    BY <1>1 DEF Old
  <2>2. ASSUME NEW n \in DOMAIN queue', NEW id, id = queue'[n].id PROVE Old(id)'
    BY <1>0, <1>1, <1>2, <2>1, <2>2 DEF AgesOK
  <2>3. (\A n \in DOMAIN queue : Old(queue[n].id))'
    BY <2>2, Zenon DEF Old
  <2>. QED BY <1>0, <1>1, <2>1, <2>3 DEF AgesOK
<1>8. CallsOK' /\ ShownOK'
  BY <1>0, <1>1, <1>4, <1>5 DEF CallsOK, ShownOK, ShownTo
<1>9. KeysOK'
  BY <1>0, <1>1 DEF KeysOK
<1>10. TypeOK'
  BY <1>0, <1>1, <1>2 DEF TypeOK
<1>. QED BY <1>6, <1>7, <1>8, <1>9, <1>10 DEF Inv

LEMMA RunStep == ASSUME Inv, Run PROVE Inv'
<1>0. TypeOK /\ QueueOK /\ AgesOK /\ CallsOK /\ ShownOK /\ KeysOK
  BY DEF Inv
<1>1. /\ pc = "call" /\ queue /= <<>> /\ Key(First) \notin DOMAIN cached /\ First.id \notin known
      /\ known' = known \cup {First.id} /\ pc' = "running"
      /\ UNCHANGED <<provider, bound, aborted, outcome, round, messages, queue, cached, failures, shown,
                     world, troubles>>
  BY DEF Run, rest
<1>2. First.id \in Ids /\ 1 \in DOMAIN queue
  BY <1>0, <1>1, QueueParts DEF QueueOK
<1>3. QueueOK'
  <2>1. Apart(queue)
    BY <1>0 DEF QueueOK
  <2>2. ASSUME NEW n \in DOMAIN queue, GivenOnce(queue[n].id)
        PROVE Unanswered(queue[n].id) /\ (queue[n].id \in known' => n = 1)
    <3>1. Unanswered(queue[n].id) /\ queue[n].id \notin known
      BY <1>0, <1>1, <2>2 DEF QueueOK
    <3>2. queue[n].id = First.id => n = 1
      BY <1>2, <2>1 DEF Apart, First
    <3>. QED BY <1>1, <3>1, <3>2
  <2>. QED BY <1>1, <2>1, <2>2 DEF QueueOK, Apart, Unanswered, IsResult
<1>4. AgesOK'
  <2>1. \A id : Old(id) => Old(id)'
    BY <1>1 DEF Old
  <2>2. Old(First.id)
    BY <1>0, <1>2 DEF AgesOK, First
  <2>3. (\A n \in DOMAIN queue : Old(queue[n].id))'
    <3>1. ASSUME NEW n \in DOMAIN queue', NEW id, id = queue'[n].id PROVE Old(id)'
      BY <1>0, <1>1, <2>1, <3>1 DEF AgesOK
    <3>. QED BY <3>1, Zenon DEF Old
  <2>. QED BY <1>0, <1>1, <2>1, <2>2, <2>3 DEF AgesOK
<1>5. \A id : (Waits(id)' <=> Waits(id)) /\ \A i : AnsweredOnce(id, i) => AnsweredOnce(id, i)'
  BY <1>1 DEF Waits, AnsweredOnce, IsResult
<1>6. CallsOK' /\ ShownOK'
  BY <1>0, <1>1, <1>5 DEF CallsOK, ShownOK, ShownTo
<1>7. KeysOK'
  BY <1>0, <1>1 DEF KeysOK, First, Key
<1>8. TypeOK'
  BY <1>0, <1>1, <1>2 DEF TypeOK
<1>. QED BY <1>3, <1>4, <1>6, <1>7, <1>8 DEF Inv

LEMMA TakingSteps ==
  ASSUME Inv, pc = "answer", NEW a \in Answers, NEW calls \in Seq(Pieced(Named(a))), Apart(calls),
         NEW inText \in BOOLEAN, inText => a.how = "text" /\ IdsOf(calls) \subseteq Named(a),
         NEW announced \in SUBSET Named(a), Take(calls, inText, announced),
         UNCHANGED <<provider, round, cached, failures, aborted, world>>, troubles' \in Nat
  PROVE  Inv'
<1>0. TypeOK /\ KeysOK
  BY DEF Inv
<1>1. /\ messages' \in Seq(Messages) /\ queue' \in Seq(Queued)
      /\ bound' \in SUBSET Common /\ known' \in SUBSET Ids
      /\ DOMAIN shown' \subseteq Ids
      /\ \A id \in DOMAIN shown' : shown'[id] \in {"pending", "error", "success"}
      /\ pc' \in {"call", "ended"} /\ outcome' \in {outcome, "answered"}
      /\ QueueOK' /\ AgesOK' /\ CallsOK' /\ ShownOK'
  BY TakingKeeps
<1>2. KeysOK'
  BY <1>0, <1>1 DEF KeysOK
<1>3. /\ provider' \in Providers /\ round' \in 0 .. MaxIterations /\ world' \in Nat /\ aborted' \in BOOLEAN
      /\ \A key \in DOMAIN cached' : cached'[key] \in Results
      /\ \A key \in DOMAIN failures' : failures'[key] \in Nat
  BY <1>0 DEF TypeOK
<1>4. outcome' \in {"none", "answered", "too many", "aborted", "interrupted", "error", "repeated"}
  BY <1>0, <1>1 DEF TypeOK
<1>5. TypeOK'
  BY <1>1, <1>3, <1>4 DEF TypeOK
<1>. QED BY <1>1, <1>2, <1>5 DEF Inv

LEMMA AnswerStep == ASSUME Inv, NEW a \in Answers, Answer(a) PROVE Inv'
<1>. DEFINE calls == Numbered(a)
            chunks == Chunks(calls)
            asked == Deduplicate(Aggregate(chunks))
<1>1. /\ pc = "answer"
      /\ UNCHANGED <<provider, round, cached, failures, aborted, world>>
      /\ IF a.how = "text" THEN Take(calls, TRUE, IdsOf(calls)) ELSE Take(asked, FALSE, Announced(chunks))
  BY DEF Answer
<1>2. troubles' \in Nat
  BY DEF Answer, Inv, TypeOK
<1>3. calls \in Seq(Pieced(Named(a))) /\ Apart(calls) /\ IdsOf(calls) \subseteq Named(a)
  BY NumberedCalls
<1>. HIDE DEF calls
<1>4. chunks \in Seq(Pieced(Named(a))) /\ asked \in Seq(Pieced(Named(a))) /\ Apart(asked)
  BY <1>3, Chunked, Aggregates, Deduplicates
<1>. HIDE DEF asked, chunks
<1>5. CASE a.how = "text"
  <2>1. Take(calls, TRUE, IdsOf(calls))
    BY <1>1, <1>5
  <2>. QED BY <1>1, <1>2, <1>3, <1>5, <2>1, TakingSteps
<1>6. CASE a.how /= "text"
  <2>1. Take(asked, FALSE, Announced(chunks)) /\ Announced(chunks) \in SUBSET Named(a)
    BY <1>1, <1>4, <1>6, AnnouncedIds
  <2>. QED BY <1>1, <1>2, <1>4, <1>6, <2>1, TakingSteps
<1>. QED BY <1>5, <1>6

LEMMA BreakStep == ASSUME Inv, NEW a \in Answers, Break(a) PROVE Inv'
<1>. DEFINE chunks == Chunks(Numbered(a))
            C == Pieced(Named(a))
<1>0. TypeOK /\ QueueOK
  BY DEF Inv
<1>1. PICK n \in 0 .. Len(chunks) :
        IF known /= {}
        THEN /\ End("interrupted") /\ shown' = Announce(Announced(SubSeq(chunks, 1, n)))
             /\ UNCHANGED <<bound, messages, queue, known>>
        ELSE Take(IF n = 0 THEN <<>> ELSE <<chunks[n]>>, FALSE, Announced(SubSeq(chunks, 1, n)))
  BY Zenon DEF Break
<1>2. pc = "answer" /\ troubles' = troubles + 1
      /\ UNCHANGED <<provider, round, cached, failures, aborted, world>>
  BY DEF Break
<1>3. chunks \in Seq(C)
  BY NumberedCalls, Chunked
<1>. HIDE DEF chunks
<1>. DEFINE heard == Announced(SubSeq(chunks, 1, n))
<1>8. heard \in SUBSET Named(a)
  BY <1>3, AnnouncedIds
<1>. HIDE DEF heard
<1>. DEFINE last == IF n = 0 THEN <<>> ELSE <<chunks[n]>>
<1>4. last \in Seq(C) /\ Apart(last)
  <2>1. CASE n = 0
    BY <2>1 DEF Apart
  <2>2. CASE n /= 0
    <3>1. n \in DOMAIN chunks /\ chunks[n] \in C
      <4>. HIDE DEF C
      <4>. QED BY <1>3, <2>2
    <3>. HIDE DEF C
    <3>. QED BY <2>2, <3>1 DEF Apart
  <2>. QED BY <2>1, <2>2
<1>5. troubles' \in Nat
  <2>1. troubles \in Nat
    BY <1>0 DEF TypeOK
  <2>. QED BY <1>2, <2>1
<1>6. CASE known /= {}
  <2>1. /\ pc' = "ended" /\ outcome' = "interrupted" /\ shown' = Announce(heard)
        /\ UNCHANGED <<messages, queue, known, cached, failures, bound, provider, round, aborted, world>>
    BY <1>1, <1>2, <1>6 DEF End, heard
  <2>2. queue = <<>> /\ pc' /= "running"
    BY <1>0, <1>2, <2>1 DEF QueueOK
  <2>5. Announcing
    <3>1. heard \in SUBSET Ids /\ \A id \in heard : GivenOnce(id) => id[2] = round
      BY <1>0, <1>8, RoundType, GivenIds
    <3>. QED BY <1>2, <2>1, <3>1 DEF Announcing
  <2>3. QueueOK' /\ AgesOK' /\ CallsOK' /\ ShownOK' /\ KeysOK'
    BY <2>1, <2>2, <2>5, IdleKeeps
  <2>6. DOMAIN shown' \subseteq Ids /\ \A id \in DOMAIN shown' : shown'[id] \in {"pending", "error", "success"}
    BY <2>1, <2>5, AnnouncingKeeps
  <2>4. TypeOK'
    BY <1>0, <1>5, <2>1, <2>6 DEF TypeOK
  <2>. QED BY <2>3, <2>4 DEF Inv
<1>7. CASE known = {}
  <2>1. Take(last, FALSE, heard)
    BY <1>1, <1>7 DEF heard
  <2>. HIDE DEF last
  <2>. QED BY <1>2, <1>4, <1>5, <1>8, <2>1, TakingSteps
<1>. QED BY <1>6, <1>7

LEMMA Stays == ASSUME Inv, UNCHANGED vars PROVE Inv'
<1>0. TypeOK
  BY DEF Inv
<1>1. UNCHANGED <<messages, queue, known, cached, failures, shown>> /\ pc' = pc /\ round' = round
  BY DEF vars
<1>2. QueueOK' /\ AgesOK' /\ CallsOK' /\ ShownOK' /\ KeysOK'
  BY <1>1, IdleKeeps
<1>3. TypeOK'
  BY <1>0 DEF vars, TypeOK
<1>. QED BY <1>2, <1>3 DEF Inv

LEMMA Starts == Init => Inv
<1>. SUFFICES ASSUME Init PROVE Inv
  OBVIOUS
<1>1. TypeOK
  <2>1. MaxIterations \in Nat
    BY TurnAssumption
  <2>2. /\ round \in 0 .. MaxIterations /\ messages \in Seq(Messages) /\ queue \in Seq(Queued)
        /\ world \in Nat /\ troubles \in Nat
    BY <2>1 DEF Init
  <2>3. DOMAIN shown = {} /\ DOMAIN cached = {} /\ DOMAIN failures = {}
    BY DEF Init
  <2>4. /\ provider \in Providers /\ pc = "choose" /\ bound = {} /\ known = {}
        /\ aborted = FALSE /\ outcome = "none"
    BY DEF Init
  <2>. QED BY <2>2, <2>3, <2>4 DEF TypeOK
<1>2. QueueOK /\ AgesOK /\ CallsOK /\ ShownOK /\ KeysOK
  BY DEF Init, QueueOK, AgesOK, CallsOK, ShownOK, KeysOK, Apart
<1>. QED BY <1>1, <1>2 DEF Inv

\* The invariant holds whatever the model answers and wherever it breaks off.
THEOREM TurnInvariant == Spec => []Inv
<1>1. ASSUME Inv, [Next]_vars PROVE Inv'
  <2>1. CASE Choose \/ Ask \/ Refuse \/ NoticeAbort \/ Done \/ Abort
    BY <1>1, <2>1, IdleSteps
  <2>2. CASE Repeat \/ TooLate \/ Throw
    BY <1>1, <2>2, AnsweringSteps
  <2>3. CASE Return
    BY <1>1, <2>3, ReturnStep
  <2>4. CASE Skip
    BY <1>1, <2>4, SkipStep
  <2>5. CASE Run
    BY <1>1, <2>5, RunStep
  <2>6. CASE \E a \in Answers : Answer(a) \/ Break(a)
    BY <1>1, <2>6, AnswerStep, BreakStep
  <2>7. CASE UNCHANGED vars
    BY <1>1, <2>7, Stays
  <2>. QED BY <1>1, <2>1, <2>2, <2>3, <2>4, <2>5, <2>6, <2>7 DEF Next, Step
<1>. QED BY <1>1, Starts, PTL DEF Spec

\* Every variable has its type.
THEOREM TypeCorrect == Spec => []TypeOK
<1>1. Inv => TypeOK
  BY DEF Inv
<1>. QED BY <1>1, TurnInvariant, PTL

\* One number is one.
LEMMA Unique == ASSUME NEW S, NEW x \in S, \A y \in S : y = x PROVE Cardinality(S) = 1
<1>1. S = {x}
  OBVIOUS
<1>. QED BY <1>1, FS_Singleton

\* The model is only asked when each of its calls has its one ToolMessage: a
\* call that waits has none, and the queue is empty by then.
THEOREM CallsGetAnswers == Spec => []CallsAnswered
<1>1. Inv => CallsAnswered
  <2>. SUFFICES ASSUME Inv, pc = "answer", NEW i \in DOMAIN messages, messages[i].kind = "calls",
                       NEW id \in messages[i].ids, GivenOnce(id)
                PROVE  Cardinality({j \in i + 1 .. Len(messages) :
                                      messages[j].kind = "result" /\ messages[j].ids = {id}}) = 1
    BY DEF CallsAnswered
  <2>. DEFINE S == {j \in i + 1 .. Len(messages) : messages[j].kind = "result" /\ messages[j].ids = {id}}
  <2>1. ~Waits(id)
    BY DEF Inv, QueueOK, Waits
  <2>2. AnsweredOnce(id, i)
    BY <2>1 DEF Inv, CallsOK
  <2>3. PICK j \in DOMAIN messages : /\ i < j
                                     /\ IsResult(messages[j], id)
                                     /\ \A k \in DOMAIN messages : IsResult(messages[k], id) => k = j
    BY <2>2 DEF AnsweredOnce
  <2>4. DOMAIN messages = 1 .. Len(messages) /\ Len(messages) \in Nat
    <3>1. messages \in Seq(Messages)
      BY DEF Inv, TypeOK
    <3>. QED BY <3>1
  <2>5. j \in S /\ \A k \in S : k = j
    BY <2>3, <2>4 DEF IsResult
  <2>. HIDE DEF S
  <2>6. Cardinality(S) = 1
    BY <2>5, Unique
  <2>. QED BY <2>6 DEF S
<1>. QED BY <1>1, TurnInvariant, PTL

\* When the turn ends, the client was told how each call ended that was taken
\* to be run: only calls that wait are still shown as pending of these.
THEOREM CallsAreSettled == Spec => []CallsSettled
<1>1. Inv => CallsSettled
  BY DEF Inv, ShownOK, ShownTo, QueueOK, Waits, CallsSettled
<1>. QED BY <1>1, TurnInvariant, PTL

-----------------------------------------------------------------------------
(* AgentTurn implements Turn: each step is one of Turn or leaves its        *)
(* variables alone, because a call is looked up in executedToolCalls and    *)
(* the signal is read in the step that starts the tool.                     *)

LEMMA KeyIsSome == ASSUME NEW c PROVE Key(c) /= NoKey
  BY DEF Key, NoKey

\* A result is put under its key, and nothing else is forgotten.
LEMMA UpdateDomain ==
  ASSUME NEW f, NEW k, NEW v PROVE DOMAIN Update(f, k, v) = DOMAIN f \cup {k}
  BY DEF Update, Mark

\* Steps that neither start nor finish a tool.
Still == pc /= "running" /\ pc' /= "running" /\ cached' = cached /\ aborted' = aborted

LEMMA QuietStep ==
  ASSUME Still, pc /= "ended"
  PROVE T!Next \/ UNCHANGED T!vars
<1>1. CASE pc' = "ended"
  <2>1. T!End
    BY <1>1 DEF Still, T!End, T!vars
  <2>. QED BY <2>1 DEF T!Next
<1>2. CASE pc' /= "ended"
  BY <1>2 DEF Still, T!vars
<1>. QED BY <1>1, <1>2

\* The promises of Turn, kept by chatStream: one tool at a time, none twice
\* for a call that returned, none after an abort or after the end.
THEOREM TurnKeepsPromises == Spec => KeepsPromises
<1>1. Init => T!Init
  BY DEF Init, T!Init, NoKey
<1>2. ASSUME [Next]_vars
      PROVE [T!Next]_T!vars
  <2>1. CASE Choose
    BY <2>1, QuietStep DEF Choose, Still
  <2>2. CASE Ask
    BY <2>2, QuietStep DEF Ask, Still, End
  <2>3. CASE Refuse
    BY <2>3, QuietStep DEF Refuse, Still, End
  <2>4. CASE NoticeAbort
    BY <2>4, QuietStep DEF NoticeAbort, Still, End
  <2>5. CASE Done
    BY <2>5, QuietStep DEF Done, Still, rest
  <2>6. CASE Repeat
    BY <2>6, QuietStep DEF Repeat, Still, rest
  <2>7. CASE Skip
    BY <2>7, QuietStep DEF Skip, Still, rest
  <2>8. CASE Run
    <3>1. T!Start
      BY <2>8, KeyIsSome DEF Run, rest, First, T!Start
    <3>. QED BY <3>1 DEF T!Next
  <2>9. CASE TooLate
    BY <2>9, QuietStep DEF TooLate, Still, rest
  <2>10. CASE Return
    <3>1. Key(First) /= NoKey /\ pc = "running" /\ aborted' = aborted
      BY <2>10, KeyIsSome DEF Return
    <3>2. ASSUME NEW v, cached' = Update(cached, Key(First), v)
          PROVE DOMAIN cached' = DOMAIN cached \cup {Key(First)}
      BY <3>2, UpdateDomain
    <3>3. DOMAIN cached' \in {DOMAIN cached, DOMAIN cached \cup {Key(First)}}
      <4>1. cached' = cached \/ \E v : cached' = Update(cached, Key(First), v)
        BY <2>10 DEF Return
      <4>. QED BY <3>2, <4>1
    <3>4. pc' = "call" \/ pc' = "ended"
      BY <2>10 DEF Return, End
    <3>5. CASE pc' = "call"
      BY <3>1, <3>3, <3>5 DEF T!Next, T!Finish
    <3>6. CASE pc' = "ended"
      BY <3>1, <3>3, <3>6 DEF T!Next, T!FinishAndEnd
    <3>. QED BY <3>4, <3>5, <3>6
  <2>11. CASE Throw
    <3>1. T!Finish
      BY <2>11, KeyIsSome DEF Throw, rest, T!Finish
    <3>. QED BY <3>1 DEF T!Next
  <2>12. CASE Abort
    <3>1. T!Stop
      BY <2>12 DEF Abort, T!Stop, First
    <3>. QED BY <3>1 DEF T!Next
  <2>13. ASSUME NEW a \in Answers, Answer(a)
         PROVE T!Next \/ UNCHANGED T!vars
    <3>1. pc' = "ended" \/ pc' = "call"
      BY <2>13 DEF Answer, Take
    <3>. QED BY <2>13, <3>1, QuietStep DEF Answer, Still
  <2>14. ASSUME NEW a \in Answers, Break(a)
         PROVE T!Next \/ UNCHANGED T!vars
    <3>1. pc' = "ended" \/ pc' = "call"
      BY <2>14 DEF Break, Take, End
    <3>. QED BY <2>14, <3>1, QuietStep DEF Break, Still
  <2>15. CASE UNCHANGED vars
    BY <2>15 DEF vars, T!vars, First
  <2>. QED
    BY <1>2, <2>1, <2>2, <2>3, <2>4, <2>5, <2>6, <2>7, <2>8, <2>9, <2>10, <2>11, <2>12, <2>13,
       <2>14, <2>15 DEF Next, Step
<1>. QED BY <1>1, <1>2, PTL DEF Spec, KeepsPromises, T!Spec
-----------------------------------------------------------------------------
(* What loops pick and push                                                 *)

\* A loop over the sequence, step by step.
Picking(f, C, s, wanted) ==
  /\ f[0] = <<>> /\ \A n \in 0 .. Len(s) : f[n] \in Seq(C)
  /\ \A n \in 1 .. Len(s) : f[n] = IF s[n] \in wanted THEN Append(f[n - 1], s[n]) ELSE f[n - 1]
Pushing(f, C, s) ==
  /\ f[0] = <<>> /\ \A n \in 0 .. Len(s) : f[n] \in Seq(C)
  /\ \A n \in 1 .. Len(s) : f[n] = Push(f[n - 1], s[n])

LEMMA Picks ==
  ASSUME NEW C, NEW s \in Seq(C), NEW wanted
  PROVE  \E f : Picking(f, C, s, wanted) /\ Picked(s, wanted) = f[Len(s)]
<1>. DEFINE k == Len(s)
            S == Seq(C)
            Pick(t, x) == IF x \in wanted THEN Append(t, x) ELSE t
            step == [n \in 1 .. k |-> [t \in S |-> Pick(t, s[n])]]
            Collects(f) == f = [n \in 0 .. k |-> IF n = 0 THEN <<>> ELSE Pick(f[n - 1], s[n])]
            done == CHOOSE f : Collects(f)
<1>0. k \in Nat /\ <<>> \in S /\ \A n \in 1 .. k : s[n] \in C
  OBVIOUS
<1>1. \A n \in 1 .. k : \A t \in S : Pick(t, s[n]) \in S
  BY <1>0
<1>2. Steps(S, k, step)
  BY <1>1 DEF Steps
<1>3. PICK g : Walk(g, S, <<>>, k, step)
  <2>. HIDE DEF k, S, step
  <2>. QED BY <1>0, <1>2, Iterates, Zenon
<1>. HIDE DEF Pick
<1>4. ASSUME NEW n \in 1 .. k PROVE g[n] = Pick(g[n - 1], s[n])
  <2>1. g[n - 1] \in S /\ g[n] = step[n][g[n - 1]]
    <3>1. n - 1 \in 0 .. k
      BY <1>0
    <3>. HIDE DEF k, S, step
    <3>. QED BY <1>3, <3>1 DEF Walk
  <2>2. step[n] = [t \in S |-> Pick(t, s[n])]
    OBVIOUS
  <2>. HIDE DEF step, S
  <2>. QED BY <2>1, <2>2
<1>5. Collects(g)
  BY <1>0, <1>3, <1>4 DEF Walk
<1>6. Collects(done)
  BY <1>5
<1>7. Picked(s, wanted) = done[k]
  BY DEF Picked, Collect, Pick
<1>. HIDE DEF done
<1>8. \A n \in 1 .. k : done[n] = Pick(done[n - 1], s[n])
  <2>. HIDE DEF S
  <2>. QED BY <1>0, <1>6
<1>9. done[0] = <<>>
  BY <1>0, <1>6
<1>10. ASSUME NEW n \in 0 .. k PROVE done[n] \in S
  <2>. DEFINE P == {m \in 0 .. k : done[m] \in S}
  <2>1. 0 \in P
    <3>. HIDE DEF S, k
    <3>. QED BY <1>0, <1>9
  <2>2. ASSUME NEW m \in 1 .. k, m - 1 \in P PROVE m \in P
    <3>1. done[m] = Pick(done[m - 1], s[m]) /\ done[m - 1] \in S
      BY <1>8, <2>2
    <3>. HIDE DEF S, done
    <3>. QED BY <1>1, <3>1
  <2>3. \A m \in 1 .. n : m - 1 \in P => m \in P
    BY <2>2, <1>0
  <2>4. n \in Nat
    BY <1>0
  <2>5. n \in P
    <3>. HIDE DEF P
    <3>. QED BY <2>1, <2>3, <2>4, Reaches
  <2>. QED BY <2>5
<1>. QED BY <1>7, <1>8, <1>9, <1>10 DEF Picking, Pick

LEMMA Pushes ==
  ASSUME NEW C, NEW s \in Seq(C)
  PROVE  \E f : Pushing(f, C, s) /\ Collect(Push, s) = f[Len(s)]
<1>. DEFINE k == Len(s)
            S == Seq(C)
            step == [n \in 1 .. k |-> [t \in S |-> Push(t, s[n])]]
            Collects(f) == f = [n \in 0 .. k |-> IF n = 0 THEN <<>> ELSE Push(f[n - 1], s[n])]
            done == CHOOSE f : Collects(f)
<1>0. k \in Nat /\ <<>> \in S /\ \A n \in 1 .. k : s[n] \in C
  OBVIOUS
<1>1. \A n \in 1 .. k : \A t \in S : Push(t, s[n]) \in S
  BY <1>0 DEF Push
<1>2. Steps(S, k, step)
  BY <1>1 DEF Steps
<1>3. PICK g : Walk(g, S, <<>>, k, step)
  <2>. HIDE DEF k, S, step
  <2>. QED BY <1>0, <1>2, Iterates, Zenon
<1>4. ASSUME NEW n \in 1 .. k PROVE g[n] = Push(g[n - 1], s[n])
  <2>1. g[n - 1] \in S /\ g[n] = step[n][g[n - 1]]
    <3>1. n - 1 \in 0 .. k
      BY <1>0
    <3>. HIDE DEF k, S, step
    <3>. QED BY <1>3, <3>1 DEF Walk
  <2>2. step[n] = [t \in S |-> Push(t, s[n])]
    OBVIOUS
  <2>. HIDE DEF step, S
  <2>. QED BY <2>1, <2>2
<1>5. Collects(g)
  BY <1>0, <1>3, <1>4 DEF Walk
<1>6. Collects(done)
  BY <1>5
<1>7. Collect(Push, s) = done[k]
  BY DEF Collect
<1>. HIDE DEF done
<1>8. \A n \in 1 .. k : done[n] = Push(done[n - 1], s[n])
  <2>. HIDE DEF S
  <2>. QED BY <1>0, <1>6
<1>9. done[0] = <<>>
  BY <1>0, <1>6
<1>10. ASSUME NEW n \in 0 .. k PROVE done[n] \in S
  <2>. DEFINE P == {m \in 0 .. k : done[m] \in S}
  <2>1. 0 \in P
    <3>. HIDE DEF S, k
    <3>. QED BY <1>0, <1>9
  <2>2. ASSUME NEW m \in 1 .. k, m - 1 \in P PROVE m \in P
    <3>1. done[m] = Push(done[m - 1], s[m]) /\ done[m - 1] \in S
      BY <1>8, <2>2
    <3>. HIDE DEF S, done
    <3>. QED BY <1>1, <3>1
  <2>3. \A m \in 1 .. n : m - 1 \in P => m \in P
    BY <2>2, <1>0
  <2>4. n \in Nat
    BY <1>0
  <2>5. n \in P
    <3>. HIDE DEF P
    <3>. QED BY <2>1, <2>3, <2>4, Reaches
  <2>. QED BY <2>5
<1>. QED BY <1>7, <1>8, <1>9, <1>10 DEF Pushing

\* The elements of what is picked are the wanted ones.
LEMMA PickedElements ==
  ASSUME NEW C, NEW s \in Seq(C), NEW wanted
  PROVE  Picked(s, wanted) \in Seq(C) /\ ToSet(Picked(s, wanted)) = ToSet(s) \cap wanted
<1>1. PICK f : Picking(f, C, s, wanted) /\ Picked(s, wanted) = f[Len(s)]
  BY Picks
<1>. DEFINE P == {n \in 0 .. Len(s) : \A x : x \in ToSet(f[n]) <=> x \in wanted /\ \E i \in 1 .. n : x = s[i]}
<1>2. 0 \in P
  <2>1. 0 \in 0 .. Len(s) /\ f[0] = <<>> /\ 1 .. 0 = {}
    BY <1>1 DEF Picking
  <2>2. ToSet(<<>>) = {}
    BY DEF ToSet
  <2>. QED BY <2>1, <2>2
<1>3. ASSUME NEW n \in 1 .. Len(s), n - 1 \in P PROVE n \in P
  <2>1. f[n - 1] \in Seq(C) /\ s[n] \in C
    BY <1>1, <1>3 DEF Picking
  <2>2. f[n] = IF s[n] \in wanted THEN Append(f[n - 1], s[n]) ELSE f[n - 1]
    BY <1>1 DEF Picking
  <2>3. ASSUME NEW t \in Seq(C) PROVE ToSet(Append(t, s[n])) = ToSet(t) \cup {s[n]}
    <3>1. DOMAIN Append(t, s[n]) = DOMAIN t \cup {Len(t) + 1} /\ Len(t) + 1 \notin DOMAIN t
      BY <2>1
    <3>2. Append(t, s[n])[Len(t) + 1] = s[n] /\ \A i \in DOMAIN t : Append(t, s[n])[i] = t[i]
      BY <2>1
    <3>. QED BY <3>1, <3>2 DEF ToSet
  <2>4. 1 .. n = (1 .. n - 1) \cup {n}
    OBVIOUS
  <2>5. \A x : x \in ToSet(f[n - 1]) <=> x \in wanted /\ \E i \in 1 .. n - 1 : x = s[i]
    BY <1>3
  <2>6. ToSet(Append(f[n - 1], s[n])) = ToSet(f[n - 1]) \cup {s[n]}
    BY <2>1, <2>3
  <2>7. \A x : x \in ToSet(f[n]) <=> x \in wanted /\ \E i \in 1 .. n : x = s[i]
    BY <2>2, <2>4, <2>5, <2>6
  <2>. QED BY <2>7
<1>4. Len(s) \in P
  <2>. HIDE DEF P
  <2>. QED BY <1>2, <1>3, Reaches, LenProperties
<1>5. \A x : x \in ToSet(f[Len(s)]) <=> x \in wanted /\ \E i \in 1 .. Len(s) : x = s[i]
  BY <1>4
<1>6. DOMAIN s = 1 .. Len(s) /\ Len(s) \in Nat
  OBVIOUS
<1>7. ToSet(f[Len(s)]) = ToSet(s) \cap wanted
  BY <1>5, <1>6 DEF ToSet
<1>8. f[Len(s)] \in Seq(C)
  BY <1>1, <1>6 DEF Picking
<1>. QED BY <1>1, <1>7, <1>8

\* What is pushed are elements of the sequence.
LEMMA PushedElements ==
  ASSUME NEW C, NEW s \in Seq(C)
  PROVE  Collect(Push, s) \in Seq(C)
<1>1. PICK f : Pushing(f, C, s) /\ Collect(Push, s) = f[Len(s)]
  BY Pushes
<1>. QED BY <1>1 DEF Pushing

\* The last step of a loop.
LEMMA PushedLast ==
  ASSUME NEW C, NEW s \in Seq(C), s /= <<>>
  PROVE  \E f : /\ Pushing(f, C, s) /\ Collect(Push, s) = f[Len(s)]
                /\ f[Len(s)] = Push(f[Len(s) - 1], s[Len(s)])
                /\ Len(s) > 1 => f[Len(s) - 1] = Push(f[Len(s) - 2], s[Len(s) - 1])
<1>1. PICK f : Pushing(f, C, s) /\ Collect(Push, s) = f[Len(s)]
  BY Pushes
<1>2. Len(s) \in Nat \ {0}
  OBVIOUS
<1>3. f[Len(s)] = Push(f[Len(s) - 1], s[Len(s)])
  BY <1>1, <1>2 DEF Pushing
<1>4. Len(s) > 1 => f[Len(s) - 1] = Push(f[Len(s) - 2], s[Len(s) - 1])
  <2>. SUFFICES ASSUME Len(s) > 1 PROVE f[Len(s) - 1] = Push(f[Len(s) - 2], s[Len(s) - 1])
    OBVIOUS
  <2>1. Len(s) - 1 \in 1 .. Len(s) /\ (Len(s) - 1) - 1 = Len(s) - 2
    BY <1>2
  <2>. QED BY <1>1, <2>1 DEF Pushing
<1>. QED BY <1>1, <1>3, <1>4

\* What is wanted is one stretch of the sequence: what is picked is it.
Stretch(s, wanted, a, b) == \A i \in DOMAIN s : s[i] \in wanted <=> a < i /\ i <= b

LEMMA PickedStretch ==
  ASSUME NEW C, NEW s \in Seq(C), NEW wanted, NEW a \in Nat, NEW b \in Nat, b <= Len(s),
         Stretch(s, wanted, a, b)
  PROVE  Picked(s, wanted) = SubSeq(s, a + 1, b)
<1>1. PICK f : Picking(f, C, s, wanted) /\ Picked(s, wanted) = f[Len(s)]
  BY Picks
<1>. DEFINE top(n) == IF n < b THEN n ELSE b
            P == {n \in 0 .. Len(s) : f[n] = SubSeq(s, a + 1, top(n))}
<1>2. 0 \in P
  <2>1. 0 \in 0 .. Len(s) /\ f[0] = <<>> /\ top(0) = 0
    BY <1>1 DEF Picking
  <2>2. SubSeq(s, a + 1, 0) = <<>>
    BY SubSeqEmpty
  <2>. QED BY <2>1, <2>2
<1>3. ASSUME NEW n \in 1 .. Len(s), n - 1 \in P PROVE n \in P
  <2>1. f[n - 1] = SubSeq(s, a + 1, top(n - 1))
    BY <1>3
  <2>2. f[n] = IF s[n] \in wanted THEN Append(f[n - 1], s[n]) ELSE f[n - 1]
    BY <1>1 DEF Picking
  <2>3. s[n] \in wanted <=> a < n /\ n <= b
    BY DEF Stretch
  <2>4. CASE a < n /\ n <= b
    <3>1. top(n) = n /\ top(n - 1) = n - 1
      BY <2>4
    <3>2. SubSeq(s, a + 1, n) = SubSeq(s, a + 1, n - 1) \o << s[n] >>
      <4>1. a + 1 \in 1 .. Len(s) /\ n \in a + 1 .. Len(s)
        BY <2>4
      <4>. QED BY <4>1, SubSeqRecursiveSecond
    <3>3. SubSeq(s, a + 1, n - 1) \in Seq(C)
      <4>1. a + 1 \in Int /\ n - 1 \in Int /\ \A i \in a + 1 .. n - 1 : s[i] \in C
        OBVIOUS
      <4>. QED BY <4>1, SubSeqProperties
    <3>4. Append(SubSeq(s, a + 1, n - 1), s[n]) = SubSeq(s, a + 1, n - 1) \o << s[n] >>
      BY <3>3, AppendIsConcat
    <3>5. f[n] = SubSeq(s, a + 1, n)
      BY <2>1, <2>2, <2>3, <2>4, <3>1, <3>2, <3>4
    <3>. QED BY <3>1, <3>5
  <2>5. CASE n <= a
    <3>1. SubSeq(s, a + 1, top(n)) = <<>> /\ SubSeq(s, a + 1, top(n - 1)) = <<>>
      <4>1. top(n) \in Int /\ top(n - 1) \in Int /\ top(n) < a + 1 /\ top(n - 1) < a + 1 /\ a + 1 \in Int
        BY <2>5
      <4>. HIDE DEF top
      <4>. QED BY <4>1, SubSeqEmpty
    <3>2. f[n] = f[n - 1]
      BY <2>2, <2>3, <2>5
    <3>3. f[n] = SubSeq(s, a + 1, top(n))
      <4>. HIDE DEF top
      <4>. QED BY <2>1, <3>1, <3>2
    <3>. QED BY <3>3
  <2>6. CASE b < n
    <3>1. top(n) = b /\ top(n - 1) = b
      BY <2>6
    <3>2. f[n] = f[n - 1]
      BY <2>2, <2>3, <2>6
    <3>3. f[n] = SubSeq(s, a + 1, top(n))
      <4>. HIDE DEF top
      <4>. QED BY <2>1, <3>1, <3>2
    <3>. QED BY <3>3
  <2>. QED BY <2>4, <2>5, <2>6
<1>4. Len(s) \in P
  <2>. HIDE DEF P
  <2>. QED BY <1>2, <1>3, Reaches, LenProperties
<1>5. top(Len(s)) = b
  BY LenProperties
<1>. QED BY <1>1, <1>4, <1>5

\* The end of a sequence.
Suffix(t, s) == \E a \in 1 .. Len(s) : t = SubSeq(s, a, Len(s))

LEMMA LastOfType ==
  ASSUME NEW C, NEW s \in Seq(C), NEW n \in Nat
  PROVE  /\ LastOf(s, n) \in Seq(C)
         /\ Len(LastOf(s, n)) = IF Len(s) > n THEN n ELSE Len(s)
         /\ \A i \in 1 .. Len(s) : i > Len(s) - n => s[i] \in ToSet(LastOf(s, n))
<1>. DEFINE a == IF Len(s) > n THEN Len(s) - n + 1 ELSE 1
            t == SubSeq(s, a, Len(s))
<1>1. a \in Int /\ Len(s) \in Nat /\ \A i \in a .. Len(s) : s[i] \in C
  OBVIOUS
<1>2. /\ t \in Seq(C)
      /\ Len(t) = IF a <= Len(s) THEN Len(s) - a + 1 ELSE 0
      /\ \A i \in 1 .. Len(s) - a + 1 : t[i] = s[a + i - 1]
  <2>. HIDE DEF a
  <2>. QED BY <1>1, SubSeqProperties
<1>3. Len(t) = IF Len(s) > n THEN n ELSE Len(s)
  <2>1. Len(t) = IF a <= Len(s) THEN Len(s) - a + 1 ELSE 0
    BY <1>2
  <2>2. Len(s) \in Nat
    BY <1>1
  <2>. HIDE DEF t
  <2>3. CASE Len(s) > n
    <3>1. a = Len(s) - n + 1
      BY <2>3
    <3>. HIDE DEF a
    <3>. QED BY <2>1, <2>2, <2>3, <3>1
  <2>4. CASE ~(Len(s) > n)
    <3>1. a = 1
      BY <2>4
    <3>. HIDE DEF a
    <3>. QED BY <2>1, <2>2, <2>4, <3>1
  <2>. QED BY <2>3, <2>4
<1>4. ASSUME NEW i \in 1 .. Len(s), i > Len(s) - n PROVE s[i] \in ToSet(t)
  <2>1. a <= i /\ i - a + 1 \in 1 .. Len(s) - a + 1 /\ a + (i - a + 1) - 1 = i
    BY <1>1, <1>4
  <2>2. t[i - a + 1] = s[i]
    <3>. HIDE DEF t, a
    <3>. QED BY <1>1, <1>2, <2>1
  <2>3. i - a + 1 \in DOMAIN t
    <3>1. DOMAIN t = 1 .. Len(t)
      BY <1>2, LenProperties
    <3>2. Len(t) = IF a <= Len(s) THEN Len(s) - a + 1 ELSE 0
      BY <1>2
    <3>3. a <= Len(s)
      BY <1>1, <2>1
    <3>. HIDE DEF t, a
    <3>. QED BY <2>1, <3>1, <3>2, <3>3
  <2>. HIDE DEF t
  <2>. QED BY <2>2, <2>3 DEF ToSet
<1>5. LastOf(s, n) = t
  BY DEF LastOf
<1>. HIDE DEF t
<1>. QED BY <1>2, <1>3, <1>4, <1>5

LEMMA LastOfSuffix ==
  ASSUME NEW C, NEW s \in Seq(C), NEW t, Suffix(t, s), NEW n \in Nat \ {0}
  PROVE  Suffix(LastOf(t, n), s)
<1>1. PICK a \in 1 .. Len(s) : t = SubSeq(s, a, Len(s))
  BY DEF Suffix
<1>2. /\ Len(s) \in Nat /\ a \in Int /\ Len(s) \in Int /\ a <= Len(s)
      /\ \A i \in a .. Len(s) : s[i] \in C
  OBVIOUS
<1>3. t \in Seq(C) /\ Len(t) = Len(s) - a + 1
  BY <1>1, <1>2, SubSeqProperties
<1>. DEFINE m == IF Len(t) > n THEN Len(t) - n + 1 ELSE 1
<1>4. m \in 1 .. Len(t) /\ Len(t) \in 1 .. Len(s) - a + 1 /\ Len(s) \in 1 .. Len(s) /\ a \in 1 .. Len(s)
  BY <1>2, <1>3
<1>5. m \in 1 .. Len(s) - a + 1
  BY <1>3, <1>4
<1>6. SubSeq(SubSeq(s, a, Len(s)), m, Len(t)) = SubSeq(s, a + m - 1, a + Len(t) - 1)
  <2>. HIDE DEF m
  <2>1. t \in Seq(C)
    BY <1>3
  <2>. QED BY <1>4, <1>5, <2>1, SubSeqOfSubSeq
<1>7. a + Len(t) - 1 = Len(s) /\ a + m - 1 \in 1 .. Len(s)
  BY <1>2, <1>3, <1>4
<1>8. LastOf(t, n) = SubSeq(s, a + m - 1, Len(s))
  BY <1>1, <1>6, <1>7 DEF LastOf
<1>. QED BY <1>7, <1>8 DEF Suffix

LEMMA SuffixEnds ==
  ASSUME NEW C, NEW s \in Seq(C), NEW t, Suffix(t, s)
  PROVE  /\ t \in Seq(C) /\ Len(t) \in 1 .. Len(s) /\ t[Len(t)] = s[Len(s)]
         /\ Len(t) > 1 => t[Len(t) - 1] = s[Len(s) - 1]
<1>1. PICK a \in 1 .. Len(s) : t = SubSeq(s, a, Len(s))
  BY DEF Suffix
<1>2. /\ Len(s) \in Nat /\ a \in Int /\ Len(s) \in Int /\ a <= Len(s)
      /\ \A i \in a .. Len(s) : s[i] \in C
  OBVIOUS
<1>3. t \in Seq(C) /\ Len(t) = Len(s) - a + 1 /\ \A i \in 1 .. Len(s) - a + 1 : t[i] = s[a + i - 1]
  BY <1>1, <1>2, SubSeqProperties
<1>4. t[Len(t)] = s[Len(s)]
  <2>1. Len(t) \in 1 .. Len(s) - a + 1 /\ a + Len(t) - 1 = Len(s)
    BY <1>2, <1>3
  <2>. QED BY <1>3, <2>1
<1>5. ASSUME Len(t) > 1 PROVE t[Len(t) - 1] = s[Len(s) - 1]
  <2>1. Len(t) - 1 \in 1 .. Len(s) - a + 1 /\ a + (Len(t) - 1) - 1 = Len(s) - 1
    BY <1>2, <1>3, <1>5
  <2>. QED BY <1>3, <2>1
<1>. QED BY <1>2, <1>3, <1>4, <1>5

\* The greatest of the numbers of a sequence.
LEMMA Greatest ==
  ASSUME NEW k \in Nat, NEW f, \A i \in 1 .. k : f[i] \in Nat
  PROVE  LET set == {0} \cup {f[i] : i \in 1 .. k}
         IN Max(set) \in set /\ \A x \in set : x <= Max(set)
<1>. DEFINE top(n) == {0} \cup {f[i] : i \in 1 .. n}
            P == {n \in 0 .. k : \E m \in top(n) : \A x \in top(n) : x <= m}
<1>1. 0 \in P
  <2>1. 0 \in 0 .. k /\ 1 .. 0 = {}
    OBVIOUS
  <2>2. top(0) = {0}
    BY <2>1
  <2>. HIDE DEF top
  <2>. QED BY <2>1, <2>2
<1>2. ASSUME NEW n \in 1 .. k, n - 1 \in P PROVE n \in P
  <2>1. top(n) = top(n - 1) \cup {f[n]}
    <3>1. 1 .. n = (1 .. n - 1) \cup {n}
      OBVIOUS
    <3>. QED BY <3>1
  <2>2. top(n - 1) \subseteq Nat /\ f[n] \in Nat
    OBVIOUS
  <2>3. PICK m \in top(n - 1) : \A x \in top(n - 1) : x <= m
    BY <1>2
  <2>. HIDE DEF top
  <2>4. CASE f[n] <= m
    BY <2>1, <2>2, <2>3, <2>4
  <2>5. CASE m <= f[n]
    BY <2>1, <2>2, <2>3, <2>5
  <2>. QED BY <2>2, <2>3, <2>4, <2>5
<1>3. k \in P
  <2>. HIDE DEF P
  <2>. QED BY <1>1, <1>2, Reaches
<1>4. \E m \in top(k) : \A x \in top(k) : m >= x
  <2>1. top(k) \subseteq Nat
    OBVIOUS
  <2>. HIDE DEF top
  <2>. QED BY <1>3, <2>1
<1>. DEFINE m == CHOOSE m \in top(k) : \A x \in top(k) : m >= x
<1>5. m \in top(k) /\ \A x \in top(k) : m >= x
  <2>. HIDE DEF top
  <2>. QED BY <1>4
<1>6. Max(top(k)) = m
  BY DEF Max
<1>7. top(k) \subseteq Nat
  OBVIOUS
<1>8. Max(top(k)) \in top(k) /\ \A x \in top(k) : x <= Max(top(k))
  <2>. HIDE DEF top, m
  <2>. QED BY <1>5, <1>6, <1>7
<1>. QED BY <1>8

LEMMA Lesser ==
  ASSUME NEW a \in Nat, NEW b \in Nat
  PROVE  Min({a, b}) \in Nat /\ Min({a, b}) = IF a < b THEN a ELSE b
<1>1. \E x \in {a, b} : \A y \in {a, b} : x <= y
  OBVIOUS
<1>. DEFINE m == CHOOSE x \in {a, b} : \A y \in {a, b} : x <= y
<1>2. m \in {a, b} /\ \A y \in {a, b} : m <= y
  BY <1>1
<1>. HIDE DEF m
<1>3. m = IF a < b THEN a ELSE b
  BY <1>2
<1>4. Min({a, b}) = m
  BY DEF Min, m
<1>. QED BY <1>3, <1>4

\* What is picked last, and before that.
LEMMA PickedLast ==
  ASSUME NEW C, NEW s \in Seq(C), s /= <<>>, NEW wanted, s[Len(s)] \in wanted
  PROVE  LET p == Picked(s, wanted) IN
         /\ p \in Seq(C) /\ Len(p) > 0 /\ p[Len(p)] = s[Len(s)]
         /\ Len(s) = 1 => Len(p) = 1
         /\ Len(s) > 1 /\ s[Len(s) - 1] \in wanted => Len(p) > 1 /\ p[Len(p) - 1] = s[Len(s) - 1]
<1>1. PICK f : Picking(f, C, s, wanted) /\ Picked(s, wanted) = f[Len(s)]
  BY Picks
<1>. DEFINE n == Len(s)
<1>2. n \in Nat \ {0} /\ n \in 1 .. n /\ n \in 0 .. n /\ n - 1 \in 0 .. n
  OBVIOUS
<1>3. f[n] = Append(f[n - 1], s[n]) /\ f[n] \in Seq(C) /\ f[n - 1] \in Seq(C) /\ s[n] \in C
  <2>1. f[n] = IF s[n] \in wanted THEN Append(f[n - 1], s[n]) ELSE f[n - 1]
    BY <1>1, <1>2 DEF Picking
  <2>2. f[n] \in Seq(C) /\ f[n - 1] \in Seq(C) /\ s[n] \in C
    BY <1>1, <1>2 DEF Picking
  <2>3. s[n] \in wanted
    OBVIOUS
  <2>. QED BY <2>1, <2>2, <2>3
<1>4. Len(f[n]) = Len(f[n - 1]) + 1 /\ f[n][Len(f[n])] = s[n]
      /\ \A i \in 1 .. Len(f[n - 1]) : f[n][i] = f[n - 1][i]
  <2>. HIDE DEF n
  <2>1. /\ Len(Append(f[n - 1], s[n])) = Len(f[n - 1]) + 1
        /\ Append(f[n - 1], s[n])[Len(f[n - 1]) + 1] = s[n]
        /\ \A i \in 1 .. Len(f[n - 1]) : Append(f[n - 1], s[n])[i] = f[n - 1][i]
    BY <1>3, AppendProperties
  <2>. QED BY <1>3, <2>1
<1>5. ASSUME n = 1 PROVE Len(f[n]) = 1
  <2>1. Len(f[n - 1]) = 0
    BY <1>1, <1>5 DEF Picking
  <2>2. Len(f[n]) = 1
    <3>. HIDE DEF n
    <3>. QED BY <1>4, <2>1
  <2>. QED BY <2>2
<1>6. ASSUME n > 1, s[n - 1] \in wanted PROVE Len(f[n]) > 1 /\ f[n][Len(f[n]) - 1] = s[n - 1]
  <2>1. n - 1 \in 1 .. n /\ n - 2 \in 0 .. n /\ (n - 1) - 1 = n - 2
    <3>. HIDE DEF n
    <3>. QED BY <1>2, <1>6
  <2>2. f[n - 1] = Append(f[n - 2], s[n - 1]) /\ f[n - 2] \in Seq(C) /\ s[n - 1] \in C
    <3>1. f[n - 1] = IF s[n - 1] \in wanted THEN Append(f[(n - 1) - 1], s[n - 1]) ELSE f[(n - 1) - 1]
      BY <1>1, <2>1 DEF Picking
    <3>2. f[n - 2] \in Seq(C) /\ s[n - 1] \in C
      BY <1>1, <2>1 DEF Picking
    <3>3. s[n - 1] \in wanted
      BY <1>6
    <3>. QED BY <2>1, <3>1, <3>2, <3>3
  <2>3. Len(f[n - 1]) = Len(f[n - 2]) + 1 /\ f[n - 1][Len(f[n - 1])] = s[n - 1] /\ Len(f[n - 2]) \in Nat
    <3>. HIDE DEF n
    <3>1. /\ Len(Append(f[n - 2], s[n - 1])) = Len(f[n - 2]) + 1
          /\ Append(f[n - 2], s[n - 1])[Len(f[n - 2]) + 1] = s[n - 1]
      BY <2>2, AppendProperties
    <3>. QED BY <2>2, <3>1, LenProperties
  <2>4. Len(f[n - 1]) \in 1 .. Len(f[n - 1]) /\ Len(f[n]) - 1 = Len(f[n - 1]) /\ Len(f[n]) > 1
    BY <1>4, <2>3
  <2>5. f[n][Len(f[n]) - 1] = s[n - 1]
    BY <1>4, <2>3, <2>4
  <2>. QED BY <2>4, <2>5
<1>7. Len(f[n]) > 0 /\ f[n][Len(f[n])] = s[n]
  <2>. HIDE DEF n
  <2>. QED BY <1>3, <1>4, LenProperties
<1>. QED BY <1>1, <1>3, <1>5, <1>6, <1>7

\* The ids grow along the sequence.
Grows(s) == \A i, j \in DOMAIN s : i < j => s[i].id < s[j].id

LEMMA PickedGrows ==
  ASSUME NEW C, NEW s \in Seq(C), \A x \in C : x.id \in Nat, Grows(s), NEW wanted
  PROVE  Grows(Picked(s, wanted))
<1>1. PICK f : Picking(f, C, s, wanted) /\ Picked(s, wanted) = f[Len(s)]
  BY Picks
<1>. DEFINE P == {n \in 0 .. Len(s) : Grows(f[n]) /\ \A j \in DOMAIN f[n] : \E i \in 1 .. n : f[n][j] = s[i]}
<1>2. 0 \in P
  <2>1. 0 \in 0 .. Len(s) /\ f[0] = <<>> /\ DOMAIN <<>> = {}
    BY <1>1 DEF Picking
  <2>. QED BY <2>1 DEF Grows
<1>3. ASSUME NEW n \in 1 .. Len(s), n - 1 \in P PROVE n \in P
  <2>1. f[n - 1] \in Seq(C) /\ s[n] \in C
    BY <1>1, <1>3 DEF Picking
  <2>2. f[n] = IF s[n] \in wanted THEN Append(f[n - 1], s[n]) ELSE f[n - 1]
    BY <1>1 DEF Picking
  <2>3. Grows(f[n - 1]) /\ \A j \in DOMAIN f[n - 1] : \E i \in 1 .. n - 1 : f[n - 1][j] = s[i]
    BY <1>3
  <2>4. n \in DOMAIN s /\ \A i \in 1 .. n - 1 : i \in DOMAIN s /\ i < n /\ i \in 1 .. n
    OBVIOUS
  <2>5. CASE s[n] \notin wanted
    <3>1. f[n] = f[n - 1]
      BY <2>2, <2>5
    <3>2. Grows(f[n]) /\ \A j \in DOMAIN f[n] : \E i \in 1 .. n : f[n][j] = s[i]
      BY <2>3, <2>4, <3>1
    <3>. QED BY <3>2
  <2>6. CASE s[n] \in wanted
    <3>. DEFINE t == f[n - 1]
    <3>0. t \in Seq(C) /\ Len(t) \in Nat /\ DOMAIN t = 1 .. Len(t)
      BY <2>1
    <3>1. f[n] = Append(t, s[n])
      BY <2>2, <2>6
    <3>. HIDE DEF t
    <3>2. DOMAIN f[n] = (DOMAIN t) \cup {Len(t) + 1} /\ f[n][Len(t) + 1] = s[n]
          /\ \A i \in DOMAIN t : f[n][i] = t[i] /\ i < Len(t) + 1
      BY <2>1, <3>0, <3>1, AppendProperties
    <3>3. \A j \in DOMAIN t : t[j].id < s[n].id
      BY <2>3, <2>4 DEF t, Grows
    <3>4. \A j \in DOMAIN f[n] : \E i \in 1 .. n : f[n][j] = s[i]
      BY <2>3, <2>4, <3>2 DEF t
    <3>5. ASSUME NEW i \in DOMAIN f[n], NEW j \in DOMAIN f[n], i < j PROVE f[n][i].id < f[n][j].id
      <4>1. CASE j \in DOMAIN t
        <5>1. i \in DOMAIN t
          BY <3>0, <3>2, <3>5, <4>1
        <5>. QED BY <2>3, <3>2, <3>5, <4>1, <5>1 DEF t, Grows
      <4>2. CASE j = Len(t) + 1
        <5>1. i \in DOMAIN t
          BY <3>0, <3>2, <3>5, <4>2
        <5>. QED BY <3>2, <3>3, <4>2, <5>1
      <4>. QED BY <3>2, <4>1, <4>2
    <3>6. Grows(f[n])
      BY <3>5 DEF Grows
    <3>. QED BY <3>4, <3>6
  <2>. QED BY <2>5, <2>6
<1>4. Len(s) \in P
  <2>. HIDE DEF P
  <2>. QED BY <1>2, <1>3, Reaches, LenProperties
<1>. QED BY <1>1, <1>4

\* Where a sequence whose ids grow is split by an id.
LEMMA Splits ==
  ASSUME NEW C, NEW s \in Seq(C), \A x \in C : x.id \in Nat, Grows(s), NEW since \in Nat
  PROVE  \E k \in 0 .. Len(s) : \A i \in DOMAIN s : s[i].id > since <=> k < i
<1>. DEFINE good(n, k) == \A i \in 1 .. n : s[i].id > since <=> k < i
            P == {n \in 0 .. Len(s) : \E k \in 0 .. n : good(n, k)}
<1>0. Len(s) \in Nat /\ DOMAIN s = 1 .. Len(s) /\ \A i \in 1 .. Len(s) : s[i].id \in Nat
  OBVIOUS
<1>1. 0 \in P
  <2>1. 0 \in 0 .. 0 /\ good(0, 0) /\ 0 \in 0 .. Len(s)
    BY <1>0
  <2>. QED BY <2>1
<1>2. ASSUME NEW n \in 1 .. Len(s), n - 1 \in P PROVE n \in P
  <2>1. PICK k \in 0 .. n - 1 : good(n - 1, k)
    BY <1>2
  <2>2. 1 .. n = (1 .. n - 1) \cup {n} /\ k < n /\ k \in 0 .. n /\ n \in 0 .. n
    OBVIOUS
  <2>3. CASE s[n].id > since
    <3>1. good(n, k)
      BY <2>1, <2>2, <2>3
    <3>. HIDE DEF good
    <3>. QED BY <2>2, <3>1
  <2>4. CASE ~(s[n].id > since)
    <3>1. ASSUME NEW i \in 1 .. n PROVE ~(s[i].id > since) /\ ~(n < i)
      <4>1. i \in DOMAIN s /\ n \in DOMAIN s /\ s[i].id \in Nat /\ s[n].id \in Nat
        BY <1>0
      <4>2. i = n \/ s[i].id < s[n].id
        BY <4>1 DEF Grows
      <4>. QED BY <2>4, <4>1, <4>2
    <3>2. good(n, n)
      BY <3>1
    <3>. HIDE DEF good
    <3>. QED BY <2>2, <3>2
  <2>. QED BY <2>3, <2>4
<1>3. Len(s) \in P
  <2>. HIDE DEF P
  <2>. QED BY <1>0, <1>1, <1>2, Reaches
<1>. QED BY <1>0, <1>3

-----------------------------------------------------------------------------
(* Conversations: the invariants                                            *)

Roles == {"user", "assistant"}
Kinds == {"question", "answer", "empty", "error", "partial"}
Postings == [id : Nat, role : Roles, of : Requests, kind : Kinds, sequence : Nat]
Facts == Roles \X Requests
Remembered == [registered : BOOLEAN, since : Nat, last : Nat, message : Nat,
               asked : Requests \cup {Nobody}, covers : SUBSET Facts,
               wrote : BOOLEAN, aborted : BOOLEAN, open : BOOLEAN]
Conversations == [summary : SUBSET Facts, since : Nat, count : Nat, late : SUBSET Nat]
Ending == {"partial", "keep", "count", "store", "finish", "ended"}
Stages == Ending \cup {"new", "config", "last", "ask", "history", "summary", "rewrite", "remove",
                       "renew", "stream", "answer", "error"}
Before == {"new", "config", "last", "ask"}
Asking == {"history", "summary", "rewrite", "remove"}
Finishing == {"stream", "answer", "error", "partial", "keep"}
Pausing == Before \cup {"renew", "count", "store", "finish", "ended"}
Early == Before \cup Asking \cup {"renew"}

ChatTypeOK ==
  /\ home \in [Requests -> Instances] /\ limit \in Nat \ {0}
  /\ thread \in Seq(Postings) /\ serial \in Nat
  /\ conversation \in Conversations
  /\ streams \in [Instances -> Requests \cup {Nobody}] /\ cancels \subseteq Instances
  /\ stage \in [Tasks -> Stages] /\ \A r \in Requests : stage[Closing(r)] \in Ending
  /\ req \in [Requests -> Remembered] /\ note \in [Tasks -> Nat]
  /\ mishaps \in Nat
  /\ history \subseteq {"overlap", "shared", "left", "unheard", "unsummarised", "clock", "provider"}

\* Messages have ids in the order they were made.
Dated ==
  /\ Grows(thread)
  /\ \A i \in DOMAIN thread : 0 < thread[i].id /\ thread[i].id <= serial

\* Whoever works alone works alone, and onClose runs for clients that left.
Apartness ==
  /\ "overlap" \notin history => \A q, r \in Requests : Busy(q) /\ Busy(r) => q = r
  /\ "left" \notin history => \A r \in Requests : stage[Closing(r)] = "ended"
  /\ \A r \in Requests : stage[Main(r)] \in Early => stage[Closing(r)] = "ended"

Said(r, role) == {m \in ToSet(thread) : m.of = r /\ m.role = role}
One(set) == \E m \in set : set = {m}

\* What a request has stored so far.
HasStored(r) ==
  LET s == stage[Main(r)]
      questions == Said(r, "user")
      answers == Said(r, "assistant")
  IN /\ s \in Before => req[r].message = 0
     /\ req[r].message = 0 => questions = {} /\ answers = {} /\ s \in Before \cup {"finish", "ended"}
     /\ s \in Asking => answers = {} /\ \E m \in questions : questions = {m} /\ m.id = req[r].message
     /\ s = "renew" => answers = {} /\ questions = {}
     /\ s \in Finishing => answers = {} /\ One(questions)
     /\ s \in {"count", "store", "finish", "ended"} /\ req[r].message /= 0 => One(answers) /\ One(questions)
StoredOnce == Spared({"left", "unheard"}) => \A r \in Requests : HasStored(r)

\* The last message there is.
AllAt(set) == \A r \in Requests : stage[Main(r)] \in set
IsQuestion(n, r) ==
  thread[n].role = "user" /\ thread[n].kind = "question" /\ thread[n].of = r
    /\ thread[n].id = req[r].message /\ thread[n].sequence = req[r].last + 1
LastIs ==
  Spared({"overlap", "unheard"}) =>
    /\ AllAt(Pausing) =>
         thread = <<>> \/ thread[Len(thread)].role = "assistant"
    /\ \A r \in Requests : stage[Main(r)] \in Asking =>
         /\ Len(thread) > 0 /\ IsQuestion(Len(thread), r)
         /\ Len(thread) = 1 \/ thread[Len(thread) - 1].role = "assistant"

Tidy == \A i \in DOMAIN thread : thread[i].kind \notin {"error", "empty"}
AskedIs ==
  Spared({"overlap", "unheard"}) /\ Tidy =>
    \A r \in Requests : stage[Main(r)] \in {"summary", "rewrite", "remove", "renew", "stream"} => req[r].asked = r

\* A number read and not used yet is the right one.
Ordered(s, n) == \A i, j \in DOMAIN s : i < j /\ j <= n => s[i].sequence < s[j].sequence
Below(n) == Len(thread) < Page => \A i \in DOMAIN thread : thread[i].sequence <= n
Placed(r) ==
  LET s == stage[Main(r)] IN
  /\ s \in {"ask", "renew"} => Below(req[r].last)
  /\ s \in Finishing \ {"keep"} => Len(thread) > 0 /\ thread[Len(thread)].sequence = req[r].last + 1
  /\ s = "keep" => note[Main(r)] > 0 /\ Below(note[Main(r)] - 1)
  /\ s = "store" => note[Main(r)] = Len(thread)
Counted == Before \cup {"finish", "ended"}
InOrderSoFar ==
  Spared({"overlap", "left", "unheard"}) =>
    /\ Ordered(thread, Page)
    /\ \A r \in Requests : Placed(r)
    /\ AllAt(Counted) /\ thread /= <<>> => conversation.count = Len(thread)

\* The first k messages are covered by the summary.
Split(k) ==
  /\ conversation.since <= serial
  /\ \A i \in 1 .. k : thread[i].id <= conversation.since
  /\ \A i \in k + 1 .. Len(thread) : thread[i].id > conversation.since
Summarised(k) ==
  /\ \A i \in 1 .. k : Fact(thread[i]) \in conversation.summary \/ (i = 1 /\ limit % 2 = 0)
  /\ 0 < k /\ k < Len(thread) => Fact(thread[k + 1]) \in conversation.summary
Unsummarised(n, k, most) == k % 2 = 0 /\ n - k <= most /\ (k = 0 \/ k < n)
Alternates == \A i \in 1 .. Len(thread) : thread[i].role = IF i % 2 = 1 THEN "user" ELSE "assistant"
Paused == Before \cup {"count", "store", "finish", "ended"}
Within(r, k) ==
  LET n == Len(thread)
      s == stage[Main(r)]
  IN /\ s \in {"config", "last", "ask", "history"} => req[r].since = conversation.since
     /\ s = "history" => n % 2 = 1 /\ Unsummarised(n, k, limit + 1)
     /\ s \in {"summary", "rewrite"} => n % 2 = 1 /\ Unsummarised(n, k, limit + 1) /\ limit <= n - k
     /\ s = "rewrite" => /\ conversation.summary \subseteq req[r].covers
                         /\ <<"user", r>> \in req[r].covers
                         /\ \A i \in 1 .. n : i > n - limit => Fact(thread[i]) \in req[r].covers
     /\ s = "remove" => n % 2 = 1 /\ k = n /\ <<"user", r>> \in conversation.summary
     /\ s = "renew" => n % 2 = 0 /\ k = n /\ <<"user", r>> \in conversation.summary
     /\ s \in Finishing => n % 2 = 1 /\ Unsummarised(n, k, limit - 1)
CoveredBy(k) ==
  /\ Split(k) /\ Summarised(k) /\ Alternates
  /\ AllAt(Paused) => Len(thread) % 2 = 0 /\ Unsummarised(Len(thread), k, limit)
  /\ \A r \in Requests : Within(r, k)
Covered ==
  Spared({"overlap", "left", "unheard", "unsummarised", "clock"}) /\ limit > 1 =>
    \E k \in 0 .. Len(thread) : CoveredBy(k)

-----------------------------------------------------------------------------
(* Types, order of the ids, who works                                       *)

LEMMA TheTasks ==
  /\ \A r \in Requests : Main(r) \in Tasks /\ Closing(r) \in Tasks
  /\ \A q, r \in Requests : Main(q) /= Closing(r)
  /\ \A q, r \in Requests : q /= r => Main(q) /= Main(r) /\ Closing(q) /= Closing(r)
  /\ \A t \in Tasks : \E r \in Requests :
       (t = Main(r) /\ t[1] = r /\ t[2] = "main") \/ (t = Closing(r) /\ t[1] = r /\ t[2] = "close")
<1>1. \A r \in Requests : Main(r) \in Tasks /\ Closing(r) \in Tasks
  BY DEF Main, Closing, Tasks
<1>2. \A q, r \in Requests : Main(q) /= Closing(r)
  BY DEF Main, Closing
<1>3. \A q, r \in Requests : q /= r => Main(q) /= Main(r) /\ Closing(q) /= Closing(r)
  BY DEF Main, Closing
<1>4. ASSUME NEW t \in Tasks
      PROVE \E r \in Requests :
       (t = Main(r) /\ t[1] = r /\ t[2] = "main") \/ (t = Closing(r) /\ t[1] = r /\ t[2] = "close")
  BY DEF Main, Closing, Tasks
<1>. QED BY <1>1, <1>2, <1>3, <1>4

LEMMA Numbers == Requests \subseteq Nat \ {0} /\ Nobody \notin Requests /\ Page \in Nat \ {0}
  BY ChatAssumption DEF Requests, Nobody

\* What a task that goes on leaves alone.
LEMMA Going ==
  ASSUME ChatTypeOK, NEW t \in Tasks, NEW label, Goto(t, label)
  PROVE  stage'[t] = label /\ \A u \in Tasks : u /= t => stage'[u] = stage[u]
  BY DEF ChatTypeOK, Goto

LEMMA GoingTypes ==
  ASSUME ChatTypeOK, NEW t \in Tasks, NEW label \in Stages, t[2] = "close" => label \in Ending,
         Goto(t, label)
  PROVE  stage' \in [Tasks -> Stages] /\ \A r \in Requests : stage'[Closing(r)] \in Ending
<1>1. stage' \in [Tasks -> Stages]
  BY DEF ChatTypeOK, Goto
<1>2. ASSUME NEW r \in Requests PROVE stage'[Closing(r)] \in Ending
  <2>1. stage[Closing(r)] \in Ending /\ Closing(r) \in Tasks
    BY TheTasks DEF ChatTypeOK
  <2>2. Closing(r)[2] = "close"
    BY DEF Closing
  <2>. QED BY <2>1, <2>2, Going
<1>. QED BY <1>1, <1>2

LEMMA TheThread ==
  ASSUME ChatTypeOK
  PROVE  /\ thread \in Seq(Postings) /\ Len(thread) \in Nat /\ DOMAIN thread = 1 .. Len(thread)
         /\ \A i \in DOMAIN thread : thread[i] \in Postings
         /\ ToSet(thread) \subseteq Postings
         /\ \A x \in Postings : x.id \in Nat /\ x.sequence \in Nat /\ x.of \in Requests /\ x.role \in Roles
<1>1. thread \in Seq(Postings)
  BY DEF ChatTypeOK
<1>2. Len(thread) \in Nat /\ DOMAIN thread = 1 .. Len(thread) /\ \A i \in DOMAIN thread : thread[i] \in Postings
  BY <1>1
<1>3. ToSet(thread) \subseteq Postings
  BY <1>2 DEF ToSet
<1>4. \A x \in Postings : x.id \in Nat /\ x.sequence \in Nat /\ x.of \in Requests /\ x.role \in Roles
  BY DEF Postings
<1>. QED BY <1>1, <1>2, <1>3, <1>4

LEMMA LastSequenceIs ==
  ASSUME ChatTypeOK
  PROVE  /\ LastSequence \in Nat
         /\ \A i \in DOMAIN thread : i <= Page => thread[i].sequence <= LastSequence
         /\ LastSequence = 0 \/ \E i \in DOMAIN thread : i <= Page /\ LastSequence = thread[i].sequence
<1>. DEFINE k == Min({Page, Len(thread)})
            f == [i \in 1 .. k |-> thread[i].sequence]
            set == {0} \cup {f[i] : i \in 1 .. k}
<1>1. Len(thread) \in Nat /\ \A i \in DOMAIN thread : i \in 1 .. Len(thread) /\ thread[i].sequence \in Nat
  BY TheThread
<1>2. k \in Nat /\ k = IF Page < Len(thread) THEN Page ELSE Len(thread)
  BY <1>1, Numbers, Lesser
<1>. HIDE DEF k
<1>3. \A i \in 1 .. k : i \in DOMAIN thread /\ i <= Page
  BY <1>1, <1>2, Numbers
<1>4. \A i \in 1 .. k : f[i] \in Nat /\ f[i] = thread[i].sequence
  BY <1>1, <1>3
<1>. HIDE DEF f
<1>5. Max(set) \in set /\ \A x \in set : x <= Max(set)
  BY <1>2, <1>4, Greatest
<1>6. LastSequence = Max(set)
  <2>1. set = {0} \cup {thread[i].sequence : i \in 1 .. k}
    BY <1>4
  <2>. HIDE DEF set
  <2>. QED BY <2>1 DEF LastSequence, k
<1>7. \A i \in DOMAIN thread : i <= Page => i \in 1 .. k
  BY <1>1, <1>2, Numbers
<1>. HIDE DEF set
<1>8. LastSequence = 0 \/ \E i \in 1 .. k : LastSequence = f[i]
  BY <1>5, <1>6 DEF set
<1>9. \A i \in 1 .. k : f[i] <= LastSequence
  BY <1>5, <1>6 DEF set
<1>. QED BY <1>3, <1>4, <1>7, <1>8, <1>9

\* A message that is made is the last one.
LEMMA Gives ==
  ASSUME ChatTypeOK, NEW role \in Roles, NEW r \in Requests, NEW kind \in Kinds, NEW n \in Nat,
         CreateMessage(role, r, kind, n)
  PROVE  LET m == Message(role, r, kind, n)  k == Len(thread) + 1 IN
         /\ m \in Postings /\ m.id = serial + 1 /\ m.role = role /\ m.of = r /\ m.kind = kind /\ m.sequence = n
         /\ thread' \in Seq(Postings) /\ Len(thread') = k /\ DOMAIN thread' = DOMAIN thread \cup {k}
         /\ k \notin DOMAIN thread /\ \A i \in DOMAIN thread : thread'[i] = thread[i] /\ i < k
         /\ thread'[k] = m
         /\ ToSet(thread') = ToSet(thread) \cup {m}
         /\ serial' = serial + 1 /\ serial' \in Nat
<1>. DEFINE m == Message(role, r, kind, n)
<1>1. m \in Postings /\ m.id = serial + 1 /\ m.role = role /\ m.of = r /\ m.kind = kind /\ m.sequence = n
  BY DEF Message, Postings, ChatTypeOK
<1>. HIDE DEF m
<1>2. thread' = Append(thread, m) /\ serial' = serial + 1 /\ serial \in Nat
  BY DEF CreateMessage, m, ChatTypeOK
<1>3. /\ thread' \in Seq(Postings) /\ Len(thread') = Len(thread) + 1
      /\ \A i \in 1 .. Len(thread) : thread'[i] = thread[i]
      /\ thread'[Len(thread) + 1] = m
  BY <1>1, <1>2, TheThread, AppendProperties
<1>4. DOMAIN thread' = 1 .. Len(thread) + 1
  BY <1>3, LenProperties
<1>5. /\ DOMAIN thread' = DOMAIN thread \cup {Len(thread) + 1} /\ Len(thread) + 1 \notin DOMAIN thread
      /\ \A i \in DOMAIN thread : i < Len(thread) + 1
  BY <1>4, TheThread
<1>6. ToSet(thread') = ToSet(thread) \cup {m}
  BY <1>3, <1>5, TheThread DEF ToSet
<1>. QED BY <1>1, <1>2, <1>3, <1>5, <1>6, TheThread DEF m

LEMMA MakingKeepsDates ==
  ASSUME ChatTypeOK, Dated, NEW role \in Roles, NEW r \in Requests, NEW kind \in Kinds, NEW n \in Nat,
         CreateMessage(role, r, kind, n), UNCHANGED conversation
  PROVE  Dated'
<1>. DEFINE k == Len(thread) + 1
<1>1. /\ DOMAIN thread' = DOMAIN thread \cup {k} /\ serial' = serial + 1 /\ thread'[k].id = serial + 1
      /\ \A i \in DOMAIN thread : thread'[i] = thread[i] /\ i < k
  BY Gives
<1>2. \A i \in DOMAIN thread : thread[i].id \in Nat /\ i \in Nat
  BY TheThread
<1>3. k \in Nat /\ serial \in Nat /\ conversation.since \in Nat
  BY TheThread DEF ChatTypeOK, Conversations
<1>. HIDE DEF k
<1>. QED BY <1>1, <1>2, <1>3 DEF Dated, Grows

\* What the model is asked.
LEMMA AsksWhom ==
  ASSUME ChatTypeOK, NEW view \in Seq(Postings)
  PROVE  /\ Questioned(view) \in Requests \cup {Nobody}
         /\ (/\ view /= <<>> /\ view[Len(view)].role = "user"
             /\ Len(view) > 1 => /\ view[Len(view) - 1].role = "assistant"
                                 /\ view[Len(view) - 1].kind \notin {"error", "empty"})
            => Questioned(view) = view[Len(view)].of
<1>. DEFINE wanted == Questions(view) \cup {view[i] : i \in {j \in DOMAIN view : j > Len(view) - 12}}
            p == Picked(view, wanted)
            b == Built(view)
            q == Picked(b, Questions(b))
<1>0. \A x \in Postings : x.of \in Requests /\ x.role \in Roles
  BY DEF Postings
<1>1. p \in Seq(Postings)
  <2>. HIDE DEF wanted
  <2>. QED BY PickedElements
<1>2. b = Collect(Push, p)
  BY DEF Built
<1>3. b \in Seq(Postings)
  <2>. HIDE DEF p, b
  <2>. QED BY <1>1, <1>2, PushedElements
<1>4. q \in Seq(Postings)
  <2>. HIDE DEF b
  <2>. QED BY <1>3, PickedElements
<1>5. Questioned(view) = IF q = <<>> THEN Nobody ELSE q[Len(q)].of
  BY DEF Questioned, Last
<1>6. Questioned(view) \in Requests \cup {Nobody}
  <2>1. q /= <<>> => Len(q) \in DOMAIN q
    <3>. HIDE DEF q
    <3>. QED BY <1>4
  <2>2. q /= <<>> => q[Len(q)] \in Postings
    <3>. HIDE DEF q
    <3>. QED BY <1>4
  <2>. HIDE DEF q
  <2>. QED BY <1>0, <1>5, <2>2
<1>7. ASSUME view /= <<>>, view[Len(view)].role = "user",
             Len(view) > 1 => /\ view[Len(view) - 1].role = "assistant"
                              /\ view[Len(view) - 1].kind \notin {"error", "empty"}
      PROVE Questioned(view) = view[Len(view)].of
  <2>. DEFINE n == Len(view)
  <2>1. n \in Nat \ {0} /\ DOMAIN view = 1 .. n
    BY <1>7
  <2>2. \A j \in DOMAIN view : j > n - 12 => view[j] \in wanted
    OBVIOUS
  <2>3. view[n] \in wanted /\ (n > 1 => view[n - 1] \in wanted)
    <3>. HIDE DEF wanted, n
    <3>1. n \in DOMAIN view /\ n > n - 12
      BY <2>1
    <3>2. n > 1 => n - 1 \in DOMAIN view /\ n - 1 > n - 12
      BY <2>1
    <3>. QED BY <2>2, <3>1, <3>2
  <2>4. /\ Len(p) > 0 /\ p[Len(p)] = view[n]
        /\ n = 1 => Len(p) = 1
        /\ n > 1 => Len(p) > 1 /\ p[Len(p) - 1] = view[n - 1]
    <3>. HIDE DEF wanted
    <3>. QED BY <1>7, <2>3, PickedLast
  <2>. DEFINE k == Len(p)
  <2>5. PICK f : /\ Pushing(f, Postings, p) /\ b = f[k]
                 /\ f[k] = Push(f[k - 1], p[k])
                 /\ k > 1 => f[k - 1] = Push(f[k - 2], p[k - 1])
    <3>1. p /= <<>>
      BY <2>4
    <3>. HIDE DEF p, b
    <3>. QED BY <1>1, <1>2, <3>1, PushedLast
  <2>6. k \in Nat \ {0} /\ p[k] \in Postings
    <3>. HIDE DEF p
    <3>. QED BY <1>1, <2>4
  <2>7. f[k - 1] \in Seq(Postings) /\ (k = 1 => f[k - 1] = <<>>) /\ (k > 1 => f[k - 2] \in Seq(Postings))
    <3>1. k - 1 \in 0 .. k /\ (k > 1 => k - 2 \in 0 .. k) /\ (k = 1 => k - 1 = 0)
      <4>. HIDE DEF k
      <4>. QED BY <2>6
    <3>. HIDE DEF k, p
    <3>. QED BY <2>5, <3>1 DEF Pushing, k
  <2>. HIDE DEF p, b, wanted
  <2>8. f[k - 1] = <<>> \/ Last(f[k - 1]).role = "assistant"
    <3>1. CASE k = 1
      BY <2>7, <3>1
    <3>2. CASE k > 1
      <4>1. p[k - 1].role = "assistant" /\ p[k - 1].kind \notin {"error", "empty"} /\ p[k - 1] \in Postings
        <5>1. k - 1 \in 1 .. k
          BY <2>6, <3>2
        <5>2. n > 1
          BY <2>1, <2>4, <3>2
        <5>3. p[k - 1] = view[n - 1]
          BY <2>4, <5>2
        <5>. QED BY <1>1, <1>7, <5>1, <5>2, <5>3
      <4>2. f[k - 1] = Append(f[k - 2], p[k - 1])
        BY <2>5, <3>2, <4>1 DEF Push
      <4>3. f[k - 2] \in Seq(Postings)
        BY <2>7, <3>2
      <4>4. Last(Append(f[k - 2], p[k - 1])) = p[k - 1]
        BY <4>1, <4>3, AppendProperties DEF Last
      <4>. QED BY <4>1, <4>2, <4>4
    <3>3. k = 1 \/ k > 1
      <4>. HIDE DEF k
      <4>. QED BY <2>6
    <3>. QED BY <3>1, <3>2, <3>3
  <2>9. b = Append(f[k - 1], p[k])
    <3>1. p[k].role = "user"
      BY <1>7, <2>4
    <3>. QED BY <2>5, <2>8, <3>1 DEF Push
  <2>10. b /= <<>> /\ b[Len(b)] = view[n]
    <3>1. b = Append(f[k - 1], view[n]) /\ view[n] \in Postings
      BY <2>9, <2>4, <2>6
    <3>. QED BY <2>7, <3>1, AppendProperties
  <2>11. b[Len(b)] \in Questions(b)
    <3>1. Len(b) \in DOMAIN b
      BY <1>3, <2>10
    <3>2. b[Len(b)] \in ToSet(b)
      BY <3>1 DEF ToSet
    <3>. QED BY <1>7, <2>10, <3>2 DEF Questions
  <2>12. Len(q) > 0 /\ q[Len(q)] = b[Len(b)]
    <3>. QED BY <1>3, <2>10, <2>11, PickedLast
  <2>13. q /= <<>>
    BY <2>12
  <2>. HIDE DEF q
  <2>. QED BY <1>5, <2>10, <2>12, <2>13
<1>. QED BY <1>6, <1>7

-----------------------------------------------------------------------------
(* The steps keep the types, the order and who works                        *)

ChatBase == ChatTypeOK /\ Dated /\ Apartness
Kept == {"overlap", "shared", "left", "unheard", "unsummarised", "clock", "provider"}

LEMMA MishapIs ==
  ASSUME ChatTypeOK, NEW kind \in Kept, Mishap(kind)
  PROVE  /\ mishaps' \in Nat /\ history' = history \cup {kind} /\ history' \subseteq Kept /\ "overlap" \notin history
  BY DEF ChatTypeOK, Mishap, Kept

LEMMA CalmIs == ASSUME ChatTypeOK, Calm PROVE mishaps' \in Nat /\ history' = history /\ history' \subseteq Kept
  BY DEF ChatTypeOK, Calm, Kept

LEMMA UnregisteredIs ==
  ASSUME ChatTypeOK, NEW r \in Requests
  PROVE  Unregistered(r) \in [Instances -> Requests \cup {Nobody}]
  BY DEF ChatTypeOK, Unregistered

\* What holds of the types that a step leaves alone.
LEMMA TypesKept ==
  ASSUME ChatTypeOK, UNCHANGED settings,
         thread' \in Seq(Postings), serial' \in Nat, conversation' \in Conversations,
         streams' \in [Instances -> Requests \cup {Nobody}], cancels' \subseteq Instances,
         stage' \in [Tasks -> Stages], \A r \in Requests : stage'[Closing(r)] \in Ending,
         req' \in [Requests -> Remembered], note' \in [Tasks -> Nat],
         mishaps' \in Nat, history' \subseteq Kept
  PROVE  ChatTypeOK'
  BY DEF ChatTypeOK, settings, Kept

LEMMA TypesAre ==
  ASSUME ChatTypeOK
  PROVE  /\ thread \in Seq(Postings) /\ serial \in Nat /\ conversation \in Conversations
         /\ streams \in [Instances -> Requests \cup {Nobody}] /\ cancels \subseteq Instances
         /\ stage \in [Tasks -> Stages] /\ \A r \in Requests : stage[Closing(r)] \in Ending
         /\ req \in [Requests -> Remembered] /\ note \in [Tasks -> Nat]
         /\ mishaps \in Nat /\ history \subseteq Kept /\ limit \in Nat \ {0}
         /\ home \in [Requests -> Instances]
  BY DEF ChatTypeOK, Kept

LEMMA DatesKept ==
  ASSUME Dated, thread' = thread, serial' = serial
  PROVE  Dated'
  BY DEF Dated, Grows

\* A task at work that goes on leaves the others apart.
LEMMA ApartKept ==
  ASSUME ChatTypeOK, Apartness, history \subseteq history', NEW t \in Tasks, NEW label, Goto(t, label),
         stage[t] \notin {"new", "ended"}, t[2] = "main" /\ label \in Early => stage[t] \in Early
  PROVE  Apartness'
<1>1. stage'[t] = label /\ \A u \in Tasks : u /= t => stage'[u] = stage[u]
  BY Going
<1>2. PICK r \in Requests :
       (t = Main(r) /\ t[1] = r /\ t[2] = "main") \/ (t = Closing(r) /\ t[1] = r /\ t[2] = "close")
  BY TheTasks
<1>3. ASSUME NEW q \in Requests PROVE Busy(q)' => Busy(q)
  <2>1. q /= r => stage'[Main(q)] = stage[Main(q)] /\ stage'[Closing(q)] = stage[Closing(q)]
    BY <1>1, <1>2, TheTasks
  <2>2. Busy(r)
    BY <1>2 DEF Busy, Open
  <2>. QED BY <2>1, <2>2 DEF Busy, Open, Main, Closing
<1>4. ASSUME "left" \notin history', NEW q \in Requests PROVE stage'[Closing(q)] = "ended"
  <2>1. stage[Closing(q)] = "ended"
    BY <1>4 DEF Apartness
  <2>. QED BY <1>1, <2>1, TheTasks
<1>5. ASSUME NEW q \in Requests, stage'[Main(q)] \in Early PROVE stage'[Closing(q)] = "ended"
  <2>1. stage[Main(q)] \in Early
    BY <1>1, <1>2, <1>5, TheTasks
  <2>2. stage[Closing(q)] = "ended"
    BY <2>1 DEF Apartness, Early
  <2>. QED BY <1>1, <2>2, TheTasks
<1>6. "overlap" \notin history' => \A p, q \in Requests : Busy(p) /\ Busy(q) => p = q
  BY DEF Apartness
<1>7. "overlap" \notin history' => \A p, q \in Requests : Busy(p)' /\ Busy(q)' => p = q
  BY <1>3, <1>6
<1>. QED BY <1>4, <1>5, <1>7 DEF Apartness, Early, Main, Closing

LEMMA ApartStays ==
  ASSUME Apartness, UNCHANGED <<stage, history>>
  PROVE  Apartness'
  BY DEF Apartness, Busy, Open, Main, Closing

\* What a request remembers, with one thing changed.
LEMMA Remembering ==
  ASSUME NEW m \in Remembered
  PROVE  /\ \A b \in BOOLEAN : /\ [m EXCEPT !.registered = b] \in Remembered /\ [m EXCEPT !.wrote = b] \in Remembered
                               /\ [m EXCEPT !.aborted = b] \in Remembered /\ [m EXCEPT !.open = b] \in Remembered
         /\ \A n \in Nat : /\ [m EXCEPT !.since = n] \in Remembered /\ [m EXCEPT !.last = n] \in Remembered
                           /\ [m EXCEPT !.message = n] \in Remembered
         /\ \A q \in Requests \cup {Nobody} : [m EXCEPT !.asked = q] \in Remembered
         /\ \A c \in SUBSET Facts : [m EXCEPT !.covers = c] \in Remembered
  BY DEF Remembered

LEMMA RequestIs ==
  ASSUME ChatTypeOK, NEW r \in Requests
  PROVE  /\ req[r] \in Remembered /\ req[r].wrote \in BOOLEAN /\ req[r].covers \subseteq Facts
         /\ req[r].since \in Nat /\ req[r].last \in Nat /\ req[r].message \in Nat
         /\ \A m \in Remembered : [req EXCEPT ![r] = m] \in [Requests -> Remembered]
<1>1. req \in [Requests -> Remembered]
  BY TypesAre
<1>2. req[r] \in Remembered
  BY <1>1
<1>. QED BY <1>1, <1>2 DEF Remembered

LEMMA CatchBase ==
  ASSUME ChatBase, NEW r \in Requests, NEW kind \in Kept, Catch(r, kind),
         stage[Main(r)] \notin {"new", "ended"}
  PROVE  ChatBase'
<1>. DEFINE label == IF stage[Main(r)] \in {"config", "last"} THEN "finish" ELSE "error"
<1>1. /\ Goto(Main(r), label) /\ streams' = Unregistered(r)
      /\ UNCHANGED <<database, settings, cancels, req, note>>
      /\ mishaps' \in Nat /\ history' = history \cup {kind} /\ history' \subseteq Kept
  BY MishapIs DEF Catch, ChatBase
<1>2. Main(r) \in Tasks /\ Main(r)[2] = "main" /\ label \in Stages /\ label \notin Early
  BY TheTasks DEF Main, Stages, Ending, Early, Before, Asking
<1>. HIDE DEF label
<1>3. ChatTypeOK'
  BY <1>1, <1>2, GoingTypes, UnregisteredIs, TypesAre, TypesKept DEF database, ChatBase
<1>4. Dated'
  BY <1>1, DatesKept DEF database, ChatBase
<1>5. Apartness'
  BY <1>1, <1>2, ApartKept DEF ChatBase
<1>. QED BY <1>3, <1>4, <1>5 DEF ChatBase

LEMMA GiveUpBase ==
  ASSUME ChatBase, NEW t \in Tasks, GiveUp(t), stage[t] \notin {"new", "ended"}
  PROVE  ChatBase'
<1>1. /\ Goto(t, "finish") /\ UNCHANGED <<database, settings, streams, cancels, req, note>>
      /\ mishaps' \in Nat /\ history' = history \cup {"unheard"} /\ history' \subseteq Kept
  BY MishapIs DEF GiveUp, ChatBase, Kept
<1>2. "finish" \in Stages /\ "finish" \in Ending /\ "finish" \notin Early
  BY DEF Stages, Ending, Early, Before, Asking
<1>3. ChatTypeOK'
  BY <1>1, <1>2, GoingTypes, TypesAre, TypesKept DEF database, ChatBase
<1>4. Dated'
  BY <1>1, DatesKept DEF database, ChatBase
<1>5. Apartness'
  BY <1>1, <1>2, ApartKept DEF ChatBase
<1>. QED BY <1>3, <1>4, <1>5 DEF ChatBase

\* A message is made, and the task goes on.
LEMMA MakesBase ==
  ASSUME ChatBase, NEW t \in Tasks, NEW label \in Ending \cup {"history", "stream"}, Goto(t, label),
         t[2] = "close" => label \in Ending, label = "history" => stage[t] \in Early,
         stage[t] \notin {"new", "ended"}, NEW role \in Roles, NEW r \in Requests, NEW kind \in Kinds, NEW n \in Nat,
         CreateMessage(role, r, kind, n), req' \in [Requests -> Remembered], Calm,
         UNCHANGED <<conversation, settings, streams, cancels, note>>
  PROVE  ChatBase'
<1>1. mishaps' \in Nat /\ history' = history /\ history' \subseteq Kept
  BY CalmIs DEF ChatBase
<1>2. thread' \in Seq(Postings) /\ serial' \in Nat
  BY Gives DEF ChatBase
<1>3. label \in Stages /\ (label \in Early => stage[t] \in Early)
  BY DEF Stages, Ending, Early, Before, Asking
<1>4. ChatTypeOK'
  BY <1>1, <1>2, <1>3, GoingTypes, TypesAre, TypesKept DEF ChatBase
<1>5. Dated'
  BY MakingKeepsDates DEF ChatBase
<1>6. Apartness'
  BY <1>1, <1>3, ApartKept DEF ChatBase
<1>. QED BY <1>4, <1>5, <1>6 DEF ChatBase

\* A task goes on, and the messages stay.
LEMMA GoesBase ==
  ASSUME ChatBase, NEW t \in Tasks, NEW label \in Stages, Goto(t, label),
         t[2] = "close" => label \in Ending, label \in Early => stage[t] \in Early,
         stage[t] \notin {"new", "ended"},
         UNCHANGED <<thread, serial, settings, cancels>>,
         conversation' \in Conversations,
         streams' \in [Instances -> Requests \cup {Nobody}],
         req' \in [Requests -> Remembered], note' \in [Tasks -> Nat],
         mishaps' \in Nat, history \subseteq history', history' \subseteq Kept
  PROVE  ChatBase'
<1>1. ChatTypeOK'
  BY GoingTypes, TypesAre, TypesKept DEF ChatBase
<1>2. Dated'
  BY TypesAre DEF ChatBase, Dated, Grows
<1>3. Apartness'
  BY ApartKept DEF ChatBase
<1>. QED BY <1>1, <1>2, <1>3 DEF ChatBase

LEMMA BeginBase == ASSUME ChatBase, NEW r \in Requests, Begin(r) PROVE ChatBase'
<1>. DEFINE others == {q \in Requests : Busy(q)}
<1>1. /\ stage[Main(r)] = "new"
      /\ history' = history \cup (IF others /= {} THEN {"overlap"} ELSE {})
                            \cup (IF \E q \in others : home[q] = home[r] THEN {"shared"} ELSE {})
      /\ UNCHANGED <<database, settings, cancels, note, mishaps>>
      /\ \/ /\ req' = [req EXCEPT ![r].registered = TRUE, ![r].since = conversation.since]
            /\ streams' = [streams EXCEPT ![home[r]] = r]
            /\ Goto(Main(r), "config")
         \/ Goto(Main(r), "finish") /\ UNCHANGED <<req, streams>>
  BY DEF Begin
<1>2. PICK label \in {"config", "finish"} : Goto(Main(r), label)
  BY <1>1
<1>3. Main(r) \in Tasks /\ Main(r)[2] = "main" /\ label \in Stages
  BY TheTasks DEF Main, Stages, Ending
<1>4. stage'[Main(r)] = label /\ \A u \in Tasks : u /= Main(r) => stage'[u] = stage[u]
  BY <1>2, <1>3, Going DEF ChatBase
<1>5. ChatTypeOK'
  <2>1. req' \in [Requests -> Remembered]
    <3>1. conversation.since \in Nat
      BY TypesAre DEF ChatBase, Conversations
    <3>2. [[req[r] EXCEPT !.registered = TRUE] EXCEPT !.since = conversation.since] \in Remembered
      <4>1. [req[r] EXCEPT !.registered = TRUE] \in Remembered
        BY Remembering, RequestIs DEF ChatBase
      <4>. QED BY <3>1, <4>1, Remembering
    <3>3. [req EXCEPT ![r].registered = TRUE, ![r].since = conversation.since]
            = [req EXCEPT ![r] = [[req[r] EXCEPT !.registered = TRUE] EXCEPT !.since = conversation.since]]
      BY TypesAre DEF ChatBase
    <3>4. req' = req \/ req' = [req EXCEPT ![r] = [[req[r] EXCEPT !.registered = TRUE] EXCEPT !.since = conversation.since]]
      BY <1>1, <3>3
    <3>. QED BY <3>2, <3>4, RequestIs, TypesAre DEF ChatBase
  <2>2. streams' \in [Instances -> Requests \cup {Nobody}]
    BY <1>1, TypesAre DEF ChatBase
  <2>3. history' \subseteq Kept
    BY <1>1, TypesAre DEF ChatBase, Kept
  <2>4. stage' \in [Tasks -> Stages] /\ \A q \in Requests : stage'[Closing(q)] \in Ending
    BY <1>2, <1>3, GoingTypes DEF ChatBase
  <2>5. /\ thread' \in Seq(Postings) /\ serial' \in Nat /\ conversation' \in Conversations
        /\ cancels' \subseteq Instances /\ note' \in [Tasks -> Nat] /\ mishaps' \in Nat /\ UNCHANGED settings
    BY <1>1, TypesAre DEF database, ChatBase
  <2>. QED BY <2>1, <2>2, <2>3, <2>4, <2>5, TypesKept DEF ChatBase
<1>6. Dated'
  BY <1>1, DatesKept DEF database, ChatBase
<1>7. Apartness'
  <2>1. ASSUME "overlap" \notin history', NEW p \in Requests, Busy(p)' PROVE p = r
    <3>1. others = {}
      BY <1>1, <2>1
    <3>2. ~Busy(p)
      BY <3>1
    <3>3. p /= r => stage'[Main(p)] = stage[Main(p)] /\ stage'[Closing(p)] = stage[Closing(p)]
      BY <1>4, TheTasks
    <3>. QED BY <2>1, <3>2, <3>3 DEF Busy, Open, Main, Closing
  <2>2. ASSUME NEW q \in Requests PROVE stage'[Closing(q)] = stage[Closing(q)]
    BY <1>4, TheTasks
  <2>3. "left" \notin history' => \A q \in Requests : stage'[Closing(q)] = "ended"
    BY <1>1, <2>2 DEF ChatBase, Apartness
  <2>4. ASSUME NEW q \in Requests, stage'[Main(q)] \in Early PROVE stage'[Closing(q)] = "ended"
    <3>1. stage[Main(q)] \in Early
      <4>1. CASE q = r
        BY <1>1, <4>1 DEF Early, Before
      <4>2. CASE q /= r
        BY <1>4, <2>4, <4>2, TheTasks
      <4>. QED BY <4>1, <4>2
    <3>. QED BY <3>1, <2>2 DEF ChatBase, Apartness
  <2>. QED BY <2>1, <2>3, <2>4 DEF Apartness, Main, Closing
<1>. QED BY <1>5, <1>6, <1>7 DEF ChatBase

\* Steps after which all tasks are where they were.
LEMMA StaysBase ==
  ASSUME ChatBase, UNCHANGED <<database, settings, stage, note, mishaps, history>>,
         streams' \in [Instances -> Requests \cup {Nobody}], cancels' \subseteq Instances,
         req' \in [Requests -> Remembered]
  PROVE  ChatBase'
<1>1. ChatTypeOK'
  BY TypesAre, TypesKept DEF ChatBase, database
<1>2. Dated'
  BY DatesKept DEF ChatBase, database
<1>3. Apartness'
  BY ApartStays DEF ChatBase
<1>. QED BY <1>1, <1>2, <1>3 DEF ChatBase

LEMMA CancelBase == ASSUME ChatBase, NEW i \in Instances, Cancel(i) PROVE ChatBase'
<1>1. req' \in [Requests -> Remembered]
  <2>1. streams[i] \in Requests
    BY TypesAre DEF ChatBase, Cancel
  <2>2. [req[streams[i]] EXCEPT !.aborted = TRUE] \in Remembered
    BY <2>1, Remembering, RequestIs DEF ChatBase
  <2>. QED BY <2>1, <2>2, RequestIs DEF ChatBase, Cancel
<1>2. streams' \in [Instances -> Requests \cup {Nobody}] /\ cancels' \subseteq Instances
  BY TypesAre DEF ChatBase, Cancel
<1>. QED BY <1>1, <1>2, StaysBase DEF Cancel

LEMMA DeliverBase == ASSUME ChatBase, NEW i \in Instances, Deliver(i) PROVE ChatBase'
<1>1. req' \in [Requests -> Remembered]
  <2>1. req' = [r \in Requests |-> IF streams[i] = r THEN [req[r] EXCEPT !.aborted = TRUE] ELSE req[r]]
    BY DEF Deliver
  <2>2. \A r \in Requests : req[r] \in Remembered /\ [req[r] EXCEPT !.aborted = TRUE] \in Remembered
    BY TypesAre DEF ChatBase, Remembered
  <2>. QED BY <2>1, <2>2
<1>2. streams' \in [Instances -> Requests \cup {Nobody}] /\ cancels' \subseteq Instances
  BY TypesAre DEF ChatBase, Deliver
<1>. QED BY <1>1, <1>2, StaysBase DEF Deliver

LEMMA SayBase == ASSUME ChatBase, NEW r \in Requests, Say(r) PROVE ChatBase'
<1>1. req' \in [Requests -> Remembered]
  <2>1. [req[r] EXCEPT !.wrote = TRUE] \in Remembered
    BY Remembering, RequestIs DEF ChatBase
  <2>. QED BY <2>1, RequestIs DEF ChatBase, Say
<1>2. streams' \in [Instances -> Requests \cup {Nobody}] /\ cancels' \subseteq Instances
  BY TypesAre DEF ChatBase, Say
<1>. QED BY <1>1, <1>2, StaysBase DEF Say

LEMMA ConfigBase == ASSUME ChatBase, NEW r \in Requests, Config(r) PROVE ChatBase'
<1>1. PICK label \in {"last", "finish"} : Goto(Main(r), label)
  BY DEF Config
<1>2. stage[Main(r)] = "config" /\ Main(r) \in Tasks /\ Main(r)[2] = "main" /\ label \in Stages /\ "config" \in Early
  BY TheTasks DEF Config, Main, Stages, Ending, Early, Before
<1>. QED BY <1>1, <1>2, GoesBase, TypesAre DEF Config, ChatBase, database

LEMMA FindLastBase == ASSUME ChatBase, NEW r \in Requests, FindLast(r) PROVE ChatBase'
<1>1. stage[Main(r)] = "last" /\ Main(r) \in Tasks /\ Main(r)[2] = "main" /\ "ask" \in Stages /\ "last" \in Early
  BY TheTasks DEF FindLast, Main, Stages, Ending, Early, Before
<1>2. CASE Catch(r, "unheard")
  BY <1>1, <1>2, CatchBase DEF Kept
<1>3. CASE /\ req' = [req EXCEPT ![r].last = LastSequence]
           /\ Goto(Main(r), "ask")
           /\ Calm /\ UNCHANGED <<database, settings, streams, cancels, note>>
  <2>1. [req[r] EXCEPT !.last = LastSequence] \in Remembered
    BY LastSequenceIs, RequestIs, Remembering DEF ChatBase
  <2>2. req' \in [Requests -> Remembered]
    BY <1>3, <2>1, RequestIs DEF ChatBase
  <2>. QED BY <1>1, <1>3, <2>2, GoesBase, CalmIs, TypesAre DEF ChatBase, database
<1>. QED BY <1>2, <1>3 DEF FindLast

LEMMA StoreQuestionBase == ASSUME ChatBase, NEW r \in Requests, StoreQuestion(r) PROVE ChatBase'
<1>1. stage[Main(r)] = "ask" /\ Main(r) \in Tasks /\ Main(r)[2] = "main" /\ "ask" \in Early
  BY TheTasks DEF StoreQuestion, Main, Early, Before
<1>2. CASE Catch(r, "unheard")
  BY <1>1, <1>2, CatchBase DEF Kept
<1>3. CASE /\ CreateMessage("user", r, "question", req[r].last + 1)
           /\ req' = [req EXCEPT ![r].message = serial + 1]
           /\ Goto(Main(r), "history")
           /\ Calm /\ UNCHANGED <<conversation, settings, streams, cancels, note>>
  <2>0. serial + 1 \in Nat
    BY TypesAre DEF ChatBase
  <2>1. [req[r] EXCEPT !.message = serial + 1] \in Remembered
    BY <2>0, RequestIs, Remembering DEF ChatBase
  <2>2. req' \in [Requests -> Remembered]
    BY <1>3, <2>1, RequestIs DEF ChatBase
  <2>3. "user" \in Roles /\ "question" \in Kinds /\ req[r].last + 1 \in Nat
    BY RequestIs DEF ChatBase, Roles, Kinds
  <2>. QED BY <1>1, <1>3, <2>2, <2>3, MakesBase
<1>. QED BY <1>2, <1>3 DEF StoreQuestion

LEMMA RecentType ==
  ASSUME ChatTypeOK, NEW since \in Nat
  PROVE  Recent(since) \in Seq(Postings)
<1>1. Picked(thread, Since(since)) \in Seq(Postings)
  BY PickedElements, TheThread
<1>. QED BY <1>1, LastOfType, TypesAre DEF Recent

\* The messages the handler makes the history from.
View(r) ==
  LET found == Recent(req[r].since)
      own == Picked(thread, {m \in ToSet(thread) : m.id = req[r].message})
  IN IF \E i \in DOMAIN found : found[i].id = req[r].message THEN found ELSE found \o own
Shown(r) == IF Len(View(r)) >= limit THEN LastOf(View(r), Min({limit, 14})) ELSE View(r)

LEMMA ViewTypes ==
  ASSUME ChatTypeOK, NEW r \in Requests
  PROVE  View(r) \in Seq(Postings) /\ Shown(r) \in Seq(Postings) /\ Min({limit, 14}) \in Nat \ {0}
<1>1. Recent(req[r].since) \in Seq(Postings)
  BY RecentType, RequestIs
<1>2. Picked(thread, {m \in ToSet(thread) : m.id = req[r].message}) \in Seq(Postings)
  BY PickedElements, TheThread
<1>3. View(r) \in Seq(Postings)
  BY <1>1, <1>2 DEF View
<1>4. Min({limit, 14}) \in Nat \ {0}
  <2>1. limit \in Nat \ {0} /\ 14 \in Nat
    BY TypesAre
  <2>2. Min({limit, 14}) = IF limit < 14 THEN limit ELSE 14
    BY <2>1, Lesser
  <2>. QED BY <2>1, <2>2
<1>5. Shown(r) \in Seq(Postings)
  BY <1>3, <1>4, LastOfType DEF Shown
<1>. QED BY <1>3, <1>4, <1>5

\* ReadHistory in these terms.
LEMMA ReadsView ==
  ASSUME NEW r \in Requests, ReadHistory(r)
  PROVE  \/ Catch(r, "unheard")
         \/ /\ Calm /\ UNCHANGED <<database, settings, streams, cancels, note>>
            /\ \/ Last(View(r)).role /= "user" /\ Goto(Main(r), "error") /\ UNCHANGED req
               \/ /\ Last(View(r)).role = "user"
                  /\ Goto(Main(r), IF Len(View(r)) >= limit THEN "summary" ELSE "stream")
                  /\ req' = [req EXCEPT ![r].asked = Questioned(Shown(r))]
  BY DEF ReadHistory, View, Shown

LEMMA ReadHistoryBase == ASSUME ChatBase, NEW r \in Requests, ReadHistory(r) PROVE ChatBase'
<1>1. stage[Main(r)] = "history" /\ Main(r) \in Tasks /\ Main(r)[2] = "main" /\ "history" \in Early
  BY TheTasks DEF ReadHistory, Main, Early, Asking
<1>2. CASE Catch(r, "unheard")
  BY <1>1, <1>2, CatchBase DEF Kept
<1>3. CASE /\ Calm /\ UNCHANGED <<database, settings, streams, cancels, note>>
           /\ \/ Last(View(r)).role /= "user" /\ Goto(Main(r), "error") /\ UNCHANGED req
              \/ /\ Last(View(r)).role = "user"
                 /\ Goto(Main(r), IF Len(View(r)) >= limit THEN "summary" ELSE "stream")
                 /\ req' = [req EXCEPT ![r].asked = Questioned(Shown(r))]
  <2>1. [req[r] EXCEPT !.asked = Questioned(Shown(r))] \in Remembered
    BY RequestIs, Remembering, ViewTypes, AsksWhom DEF ChatBase
  <2>2. req' \in [Requests -> Remembered]
    BY <1>3, <2>1, RequestIs, TypesAre DEF ChatBase
  <2>3. PICK label \in {"error", "summary", "stream"} : Goto(Main(r), label)
    BY <1>3
  <2>4. label \in Stages
    BY DEF Stages
  <2>. QED BY <1>1, <1>3, <2>2, <2>3, <2>4, GoesBase, CalmIs, TypesAre DEF ChatBase, database
<1>. QED BY <1>2, <1>3, ReadsView

LEMMA ReadForSummaryBase == ASSUME ChatBase, NEW r \in Requests, ReadForSummary(r) PROVE ChatBase'
<1>1. stage[Main(r)] = "summary" /\ Main(r) \in Tasks /\ Main(r)[2] = "main" /\ "summary" \in Early /\ "rewrite" \in Stages
  BY TheTasks DEF ReadForSummary, Main, Early, Asking, Stages
<1>2. CASE Catch(r, "unsummarised")
  BY <1>1, <1>2, CatchBase DEF Kept
<1>. DEFINE covers == {Fact(m) : m \in ToSet(Recent(0))} \cup {<<"user", r>>} \cup conversation.summary
<1>3. CASE /\ req' = [req EXCEPT ![r].covers = covers]
           /\ Goto(Main(r), "rewrite")
           /\ Calm /\ UNCHANGED <<database, settings, streams, cancels, note>>
  <2>1. covers \in SUBSET Facts
    <3>1. \A m \in ToSet(Recent(0)) : m \in Postings
      BY RecentType DEF ToSet, ChatBase
    <3>2. \A m \in Postings : Fact(m) \in Facts
      BY DEF Postings, Fact, Facts
    <3>3. <<"user", r>> \in Facts
      BY DEF Facts, Roles
    <3>4. conversation.summary \subseteq Facts
      BY TypesAre DEF ChatBase, Conversations
    <3>. QED BY <3>1, <3>2, <3>3, <3>4
  <2>. HIDE DEF covers
  <2>2. [req[r] EXCEPT !.covers = covers] \in Remembered
    BY <2>1, RequestIs, Remembering DEF ChatBase
  <2>3. req' \in [Requests -> Remembered]
    BY <1>3, <2>2, RequestIs DEF ChatBase
  <2>. QED BY <1>1, <1>3, <2>3, GoesBase, CalmIs, TypesAre DEF ChatBase, database
<1>. QED BY <1>2, <1>3 DEF ReadForSummary

LEMMA SummariseDoes ==
  ASSUME ChatTypeOK, NEW covers \in SUBSET Facts, NEW clock \in conversation.since .. serial + Ahead,
         Summarise(covers, clock)
  PROVE  /\ conversation' \in Conversations
         /\ conversation'.summary = covers /\ conversation'.since = clock /\ conversation'.count = conversation.count
<1>. DEFINE late == conversation.late \cup (IF clock > serial THEN serial + 1 .. clock + 1 ELSE {})
<1>1. conversation' = [conversation EXCEPT !.summary = covers, !.since = clock, !.late = late]
  BY DEF Summarise
<1>2. conversation \in Conversations /\ serial \in Nat /\ clock \in Nat
  BY TypesAre, ChatAssumption DEF Conversations
<1>3. late \in SUBSET Nat
  BY <1>2 DEF Conversations
<1>. HIDE DEF late
<1>. QED BY <1>1, <1>2, <1>3 DEF Conversations

LEMMA RewriteBase == ASSUME ChatBase, NEW r \in Requests, Rewrite(r) PROVE ChatBase'
<1>1. stage[Main(r)] = "rewrite" /\ Main(r) \in Tasks /\ Main(r)[2] = "main" /\ "rewrite" \in Early /\ "remove" \in Stages
  BY TheTasks DEF Rewrite, Main, Early, Asking, Stages
<1>2. CASE Catch(r, "unsummarised")
  BY <1>1, <1>2, CatchBase DEF Kept
<1>3. CASE /\ \E clock \in conversation.since .. serial + Ahead : Summarise(req[r].covers, clock)
           /\ Goto(Main(r), "remove")
           /\ UNCHANGED <<thread, serial, settings, streams, cancels, req, note>>
  <2>1. PICK clock \in conversation.since .. serial + Ahead : Summarise(req[r].covers, clock)
    BY <1>3
  <2>2. conversation' \in Conversations
    BY <2>1, SummariseDoes, RequestIs DEF ChatBase, Remembered
  <2>3. mishaps' \in Nat /\ history \subseteq history' /\ history' \subseteq Kept
    BY <2>1, CalmIs, MishapIs DEF ChatBase, Summarise, Kept
  <2>. QED BY <1>1, <1>3, <2>2, <2>3, GoesBase, TypesAre DEF ChatBase
<1>. QED BY <1>2, <1>3 DEF Rewrite

LEMMA RemoveQuestionBase == ASSUME ChatBase, NEW r \in Requests, RemoveQuestion(r) PROVE ChatBase'
<1>1. stage[Main(r)] = "remove" /\ Main(r) \in Tasks /\ Main(r)[2] = "main" /\ "remove" \in Early /\ "renew" \in Stages
  BY TheTasks DEF RemoveQuestion, Main, Early, Asking, Stages
<1>2. CASE Catch(r, "unheard")
  BY <1>1, <1>2, CatchBase DEF Kept
<1>. DEFINE others == {m \in ToSet(thread) : m.id /= req[r].message}
<1>3. CASE /\ thread' = Picked(thread, others)
           /\ Goto(Main(r), "renew")
           /\ Calm /\ UNCHANGED <<serial, conversation, settings, streams, cancels, req, note>>
  <2>. HIDE DEF others
  <2>0. Main(r)[2] /= "close"
    BY <1>1
  <2>1. thread' \in Seq(Postings) /\ ToSet(thread') \subseteq ToSet(thread) /\ Grows(thread')
    BY <1>3, PickedElements, PickedGrows, TheThread DEF ChatBase, Dated
  <2>2. ChatTypeOK'
    BY <1>1, <1>3, <2>0, <2>1, GoingTypes, TypesKept, TypesAre, CalmIs DEF ChatBase
  <2>3. Dated'
    <3>1. \A m \in ToSet(thread) : 0 < m.id /\ m.id <= serial
      BY DEF ChatBase, Dated, ToSet
    <3>2. \A i \in DOMAIN thread' : thread'[i] \in ToSet(thread)
      BY <2>1 DEF ToSet
    <3>. QED BY <1>3, <2>1, <3>1, <3>2 DEF ChatBase, Dated
  <2>4. Apartness'
    BY <1>1, <1>3, ApartKept, CalmIs DEF ChatBase
  <2>. QED BY <2>2, <2>3, <2>4 DEF ChatBase
<1>. QED BY <1>2, <1>3 DEF RemoveQuestion

LEMMA RenewQuestionBase == ASSUME ChatBase, NEW r \in Requests, RenewQuestion(r) PROVE ChatBase'
<1>1. stage[Main(r)] = "renew" /\ Main(r) \in Tasks /\ Main(r)[2] = "main"
  BY TheTasks DEF RenewQuestion, Main
<1>2. CASE Catch(r, "unheard")
  BY <1>1, <1>2, CatchBase DEF Kept
<1>3. CASE /\ CreateMessage("user", r, "question", req[r].last + 1)
           /\ Goto(Main(r), "stream")
           /\ Calm /\ UNCHANGED <<conversation, settings, streams, cancels, req, note>>
  <2>1. "user" \in Roles /\ "question" \in Kinds /\ req[r].last + 1 \in Nat /\ req' \in [Requests -> Remembered]
    BY <1>3, RequestIs, TypesAre DEF ChatBase, Roles, Kinds
  <2>. QED BY <1>1, <1>3, <2>1, MakesBase
<1>. QED BY <1>2, <1>3 DEF RenewQuestion

LEMMA ModelAnswersBase == ASSUME ChatBase, NEW r \in Requests, ModelAnswers(r) PROVE ChatBase'
<1>1. stage[Main(r)] = "stream" /\ Main(r) \in Tasks /\ Main(r)[2] = "main" /\ "answer" \in Stages /\ "answer" \notin Early
  BY TheTasks DEF ModelAnswers, Main, Stages, Early, Before, Asking
<1>2. [req[r] EXCEPT !.open = FALSE] \in Remembered
  BY RequestIs, Remembering DEF ChatBase
<1>3. req' \in [Requests -> Remembered]
  BY <1>2, RequestIs DEF ChatBase, ModelAnswers
<1>4. streams' \in [Instances -> Requests \cup {Nobody}]
  BY UnregisteredIs DEF ChatBase, ModelAnswers
<1>. QED BY <1>1, <1>3, <1>4, GoesBase, TypesAre DEF ChatBase, database, ModelAnswers

LEMMA FailBase == ASSUME ChatBase, NEW r \in Requests, Fail(r) PROVE ChatBase'
<1>1. stage[Main(r)] = "stream" /\ Main(r) \in Tasks /\ Main(r)[2] = "main"
  BY TheTasks DEF Fail, Main
<1>2. [req[r] EXCEPT !.open = FALSE] \in Remembered
  BY RequestIs, Remembering DEF ChatBase
<1>3. req' \in [Requests -> Remembered]
  BY <1>2, RequestIs, TypesAre DEF ChatBase, Fail
<1>4. streams' \in [Instances -> Requests \cup {Nobody}]
  BY UnregisteredIs, TypesAre DEF ChatBase, Fail
<1>5. PICK label \in {"partial", "error"} : Goto(Main(r), label)
  BY DEF Fail
<1>6. label \in Stages /\ label \notin Early
  BY DEF Stages, Ending, Early, Before, Asking
<1>7. mishaps' \in Nat /\ history \subseteq history' /\ history' \subseteq Kept
  <2>1. CASE Calm
    BY <2>1, CalmIs DEF ChatBase
  <2>2. CASE Mishap("provider")
    BY <2>2, MishapIs DEF ChatBase, Kept
  <2>. QED BY <2>1, <2>2 DEF Fail
<1>8. UNCHANGED <<thread, serial, settings, cancels, conversation, note>>
  BY DEF Fail, database
<1>. QED BY <1>1, <1>3, <1>4, <1>5, <1>6, <1>7, <1>8, GoesBase, TypesAre DEF ChatBase

LEMMA StoreAnswerBase == ASSUME ChatBase, NEW r \in Requests, StoreAnswer(r) \/ StoreError(r) PROVE ChatBase'
<1>1. stage[Main(r)] \in {"answer", "error"} /\ Main(r) \in Tasks /\ Main(r)[2] = "main"
  BY TheTasks DEF StoreAnswer, StoreError, Main
<1>2. CASE GiveUp(Main(r))
  BY <1>1, <1>2, GiveUpBase
<1>3. ASSUME NEW kind \in Kinds,
             /\ CreateMessage("assistant", r, kind, req[r].last + 2)
             /\ Goto(Main(r), "count")
             /\ Calm /\ UNCHANGED <<conversation, settings, streams, cancels, req, note>>
      PROVE ChatBase'
  <2>1. "assistant" \in Roles /\ req[r].last + 2 \in Nat /\ req' \in [Requests -> Remembered] /\ "count" \in Ending
    BY <1>3, RequestIs, TypesAre DEF ChatBase, Roles, Ending
  <2>. QED BY <1>1, <1>3, <2>1, MakesBase
<1>4. (IF req[r].wrote THEN "answer" ELSE "empty") \in Kinds /\ "error" \in Kinds
  BY DEF Kinds
<1>. QED BY <1>2, <1>3, <1>4 DEF StoreAnswer, StoreError

LEMMA PartialBase == ASSUME ChatBase, NEW t \in Tasks, Partial(t) PROVE ChatBase'
<1>1. CASE GiveUp(t)
  BY <1>1, GiveUpBase DEF Partial
<1>2. CASE /\ note' = [note EXCEPT ![t] = LastSequence + 2]
           /\ Goto(t, "keep")
           /\ Calm /\ UNCHANGED <<database, settings, streams, cancels, req>>
  <2>1. note' \in [Tasks -> Nat]
    <3>1. LastSequence + 2 \in Nat
      BY LastSequenceIs DEF ChatBase
    <3>. QED BY <1>2, <3>1, TypesAre DEF ChatBase
  <2>2. "keep" \in Ending /\ "keep" \in Stages /\ "keep" \notin Early
    BY DEF Stages, Ending, Early, Before, Asking
  <2>. QED BY <1>2, <2>1, <2>2, GoesBase, CalmIs, TypesAre DEF ChatBase, database, Partial
<1>. QED BY <1>1, <1>2 DEF Partial

LEMMA KeepPartialBase == ASSUME ChatBase, NEW t \in Tasks, KeepPartial(t) PROVE ChatBase'
<1>1. CASE GiveUp(t)
  BY <1>1, GiveUpBase DEF KeepPartial
<1>2. CASE /\ CreateMessage("assistant", t[1], "partial", note[t])
           /\ Goto(t, "count")
           /\ Calm /\ UNCHANGED <<conversation, settings, streams, cancels, req, note>>
  <2>1. t[1] \in Requests /\ "assistant" \in Roles /\ "partial" \in Kinds /\ note[t] \in Nat
        /\ req' \in [Requests -> Remembered] /\ "count" \in Ending
    BY <1>2, TheTasks, TypesAre DEF ChatBase, Roles, Kinds, Ending
  <2>. QED BY <1>2, <2>1, MakesBase DEF KeepPartial
<1>. QED BY <1>1, <1>2 DEF KeepPartial

LEMMA CountMessagesBase == ASSUME ChatBase, NEW t \in Tasks, CountMessages(t) PROVE ChatBase'
<1>1. CASE GiveUp(t)
  BY <1>1, GiveUpBase DEF CountMessages
<1>2. CASE /\ note' = [note EXCEPT ![t] = Len(thread)]
           /\ Goto(t, "store")
           /\ Calm /\ UNCHANGED <<database, settings, streams, cancels, req>>
  <2>1. note' \in [Tasks -> Nat]
    BY <1>2, TheThread, TypesAre DEF ChatBase
  <2>2. "store" \in Ending /\ "store" \in Stages /\ "store" \notin Early
    BY DEF Stages, Ending, Early, Before, Asking
  <2>. QED BY <1>2, <2>1, <2>2, GoesBase, CalmIs, TypesAre DEF ChatBase, database, CountMessages
<1>. QED BY <1>1, <1>2 DEF CountMessages

LEMMA StoreCountBase == ASSUME ChatBase, NEW t \in Tasks, StoreCount(t) PROVE ChatBase'
<1>1. CASE GiveUp(t)
  BY <1>1, GiveUpBase DEF StoreCount
<1>2. CASE /\ conversation' = [conversation EXCEPT !.count = note[t]]
           /\ Goto(t, "finish")
           /\ Calm /\ UNCHANGED <<thread, serial, settings, streams, cancels, req, note>>
  <2>1. conversation' \in Conversations /\ conversation'.since = conversation.since
    BY <1>2, TypesAre DEF ChatBase, Conversations
  <2>2. "finish" \in Ending /\ "finish" \in Stages /\ "finish" \notin Early
    BY DEF Stages, Ending, Early, Before, Asking
  <2>. QED BY <1>2, <2>1, <2>2, GoesBase, CalmIs, TypesAre DEF ChatBase, StoreCount
<1>. QED BY <1>1, <1>2 DEF StoreCount

LEMMA ForgottenIs ==
  ASSUME ChatTypeOK, NEW r \in Requests
  PROVE  /\ Forgotten(r) \in [Requests -> Remembered]
         /\ \A q \in Requests : q /= r => Forgotten(r)[q] = req[q]
         /\ Forgotten(r)[r].message = req[r].message
<1>. DEFINE m == [req[r] EXCEPT !.since = 0, !.last = 0, !.asked = Nobody, !.covers = {}]
<1>1. m \in Remembered /\ m.message = req[r].message
  BY RequestIs DEF Remembered
<1>2. Forgotten(r) = [req EXCEPT ![r] = m]
  BY DEF Forgotten
<1>. HIDE DEF m
<1>3. [req EXCEPT ![r] = m] \in [Requests -> Remembered]
  BY <1>1, RequestIs
<1>. QED BY <1>1, <1>2, <1>3, TypesAre

LEMMA FinishBase == ASSUME ChatBase, NEW t \in Tasks, Finish(t) PROVE ChatBase'
<1>1. t[1] \in Requests
  BY TheTasks
<1>2. "ended" \in Ending /\ "ended" \in Stages /\ "ended" \notin Early
  BY DEF Stages, Ending, Early, Before, Asking
<1>3. req' \in [Requests -> Remembered]
  BY <1>1, ForgottenIs, TypesAre DEF ChatBase, Finish
<1>4. note' \in [Tasks -> Nat]
  BY TypesAre DEF ChatBase, Finish
<1>5. streams' \in [Instances -> Requests \cup {Nobody}]
  BY <1>1, UnregisteredIs, TypesAre DEF ChatBase, Finish
<1>. QED BY <1>2, <1>3, <1>4, <1>5, GoesBase, TypesAre DEF ChatBase, database, Finish

LEMMA CloseIs ==
  ASSUME ChatBase, NEW r \in Requests, NEW wrote \in BOOLEAN, Close(r, wrote)
  PROVE  /\ req' \in [Requests -> Remembered]
         /\ mishaps' \in Nat /\ history' = history \cup {"left"} /\ history' \subseteq Kept
         /\ \A q \in Requests : q /= r => req'[q] = req[q]
         /\ \A q \in Requests : /\ req'[q].message = req[q].message /\ req'[q].since = req[q].since
                                /\ req'[q].last = req[q].last /\ req'[q].asked = req[q].asked
                                /\ req'[q].covers = req[q].covers
<1>. DEFINE m == [[req[r] EXCEPT !.wrote = wrote] EXCEPT !.aborted = TRUE]
<1>1. m \in Remembered
  <2>1. [req[r] EXCEPT !.wrote = wrote] \in Remembered
    BY RequestIs, Remembering DEF ChatBase
  <2>. QED BY <2>1, Remembering
<1>2. /\ m.message = req[r].message /\ m.since = req[r].since /\ m.last = req[r].last
      /\ m.asked = req[r].asked /\ m.covers = req[r].covers
  BY RequestIs DEF ChatBase, Remembered
<1>3. req' = [req EXCEPT ![r] = m]
  BY TypesAre DEF Close, ChatBase
<1>. HIDE DEF m
<1>4. [req EXCEPT ![r] = m] \in [Requests -> Remembered]
  BY <1>1, RequestIs DEF ChatBase
<1>5. mishaps' \in Nat /\ history' = history \cup {"left"} /\ history' \subseteq Kept
  BY MishapIs DEF ChatBase, Close, Kept
<1>. QED BY <1>2, <1>3, <1>4, <1>5, TypesAre DEF ChatBase

\* onClose begins, beside the handler.
LEMMA ClosesBase ==
  ASSUME ChatBase, NEW r \in Requests, NEW wrote \in BOOLEAN, Close(r, wrote),
         stage[Main(r)] \in {"stream", "finish"},
         stage' \in [Tasks -> Stages], \A q \in Requests : stage'[Closing(q)] \in Ending,
         \A q \in Requests : stage'[Main(q)] = stage[Main(q)] \/ (q = r /\ stage'[Main(q)] = "ended"),
         \A q \in Requests : stage'[Closing(q)] = stage[Closing(q)] \/ q = r,
         streams' \in [Instances -> Requests \cup {Nobody}],
         UNCHANGED <<database, settings, cancels, note>>
  PROVE  ChatBase'
<1>1. ChatTypeOK'
  BY CloseIs, TypesKept, TypesAre DEF ChatBase, database
<1>2. Dated'
  BY DatesKept DEF ChatBase, database
<1>3. history' = history \cup {"left"}
  BY CloseIs
<1>4. \A q \in Requests : Busy(q)' => Busy(q)
  <2>1. Busy(r)
    BY DEF Busy, Open
  <2>. QED BY <2>1 DEF Busy, Open, Main, Closing
<1>5. ASSUME NEW q \in Requests, stage'[Main(q)] \in Early PROVE stage'[Closing(q)] = "ended"
  <2>1. stage[Main(q)] \in Early /\ q /= r
    BY <1>5 DEF Early, Before, Asking
  <2>2. stage[Closing(q)] = "ended"
    BY <2>1 DEF ChatBase, Apartness
  <2>. QED BY <2>1, <2>2
<1>6. "overlap" \notin history' => \A p, q \in Requests : Busy(p)' /\ Busy(q)' => p = q
  BY <1>3, <1>4 DEF ChatBase, Apartness
<1>7. Apartness'
  BY <1>3, <1>5, <1>6 DEF Apartness, Main, Closing
<1>. QED BY <1>1, <1>2, <1>7 DEF ChatBase

LEMMA LeaveBase == ASSUME ChatBase, NEW r \in Requests, Leave(r) PROVE ChatBase'
<1>1. PICK wrote \in {req[r].wrote, TRUE} : Close(r, wrote) /\ Goto(Closing(r), IF wrote THEN "partial" ELSE "finish")
  BY DEF Leave
<1>2. PICK label \in {"partial", "finish"} : Goto(Closing(r), label)
  BY <1>1
<1>3. wrote \in BOOLEAN /\ Closing(r) \in Tasks /\ label \in Stages /\ label \in Ending
  BY RequestIs, TheTasks DEF ChatBase, Stages, Ending
<1>4. stage' \in [Tasks -> Stages] /\ \A q \in Requests : stage'[Closing(q)] \in Ending
  BY <1>2, <1>3, GoingTypes DEF ChatBase
<1>5. /\ \A q \in Requests : stage'[Main(q)] = stage[Main(q)]
      /\ \A q \in Requests : stage'[Closing(q)] = stage[Closing(q)] \/ q = r
  BY <1>2, <1>3, Going, TheTasks DEF ChatBase
<1>. QED BY <1>1, <1>3, <1>4, <1>5, ClosesBase, TypesAre DEF ChatBase, Leave

LEMMA LeaveAtEndBase == ASSUME ChatBase, NEW r \in Requests, LeaveAtEnd(r) PROVE ChatBase'
<1>1. req[r].wrote \in BOOLEAN /\ Main(r) \in Tasks /\ Closing(r) \in Tasks
      /\ {"partial", "finish"} \subseteq Ending /\ Ending \subseteq Stages /\ "ended" \in Stages
  BY RequestIs, TheTasks DEF ChatBase, Stages, Ending
<1>2. PICK label \in {"partial", "finish"} : stage' = [stage EXCEPT ![Main(r)] = "ended", ![Closing(r)] = label]
  BY DEF LeaveAtEnd
<1>3. stage' \in [Tasks -> Stages]
  BY <1>1, <1>2, TypesAre DEF ChatBase
<1>4. stage'[Closing(r)] = label /\ stage'[Main(r)] = "ended"
  BY <1>1, <1>2, TheTasks, TypesAre DEF ChatBase
<1>5. \A q \in Requests : q /= r => stage'[Closing(q)] = stage[Closing(q)] /\ stage'[Main(q)] = stage[Main(q)]
  BY <1>1, <1>2, TheTasks, TypesAre DEF ChatBase
<1>6. \A q \in Requests : stage'[Closing(q)] \in Ending
  BY <1>1, <1>4, <1>5, TypesAre DEF ChatBase
<1>7. streams' \in [Instances -> Requests \cup {Nobody}]
  BY UnregisteredIs, TypesAre DEF ChatBase, LeaveAtEnd
<1>. QED BY <1>1, <1>3, <1>4, <1>5, <1>6, <1>7, ClosesBase DEF LeaveAtEnd

LEMMA StartsBase == ChatInit => ChatBase
<1>. SUFFICES ASSUME ChatInit PROVE ChatBase
  OBVIOUS
<1>1. ChatTypeOK
  <2>1. home \in [Requests -> Instances] /\ limit \in Nat \ {0}
    <3>1. PICK setup \in Setups : home = setup[1] /\ limit = setup[2]
      BY DEF ChatInit
    <3>2. setup \in [1 .. Count -> Instances] \X (Nat \ {0})
      BY ChatAssumption
    <3>. QED BY <3>1, <3>2 DEF Requests
  <2>2. thread \in Seq(Postings) /\ serial \in Nat /\ conversation \in Conversations
    BY DEF ChatInit, Conversations
  <2>3. streams \in [Instances -> Requests \cup {Nobody}] /\ cancels \subseteq Instances
    BY DEF ChatInit
  <2>4. stage \in [Tasks -> Stages] /\ \A r \in Requests : stage[Closing(r)] \in Ending
    <3>1. {"new", "ended"} \subseteq Stages /\ "ended" \in Ending
      BY DEF Stages, Ending
    <3>2. \A r \in Requests : Closing(r) \in Tasks /\ Closing(r)[2] = "close"
      BY TheTasks DEF Closing
    <3>. QED BY <3>1, <3>2 DEF ChatInit
  <2>5. req \in [Requests -> Remembered]
    BY DEF ChatInit, Remembered
  <2>6. note \in [Tasks -> Nat] /\ mishaps \in Nat /\ history = {}
    BY DEF ChatInit
  <2>. QED BY <2>1, <2>2, <2>3, <2>4, <2>5, <2>6 DEF ChatTypeOK
<1>2. Dated
  BY DEF ChatInit, Dated, Grows
<1>3. Apartness
  <2>1. \A r \in Requests : stage[Main(r)] = "new" /\ stage[Closing(r)] = "ended"
    <3>1. \A r \in Requests : Main(r) \in Tasks /\ Closing(r) \in Tasks /\ Main(r)[2] = "main" /\ Closing(r)[2] = "close"
      BY TheTasks DEF Main, Closing
    <3>. QED BY <3>1 DEF ChatInit
  <2>. QED BY <2>1 DEF Apartness, Busy, Open
<1>. QED BY <1>1, <1>2, <1>3 DEF ChatBase

LEMMA StepsBase == ChatBase /\ [ChatNext]_chatVars => ChatBase'
<1>. SUFFICES ASSUME ChatBase, [ChatNext]_chatVars PROVE ChatBase'
  OBVIOUS
<1>1. CASE UNCHANGED chatVars
  <2>1. UNCHANGED <<database, settings, stage, note, mishaps, history>> /\ UNCHANGED <<streams, cancels, req>>
    BY <1>1 DEF chatVars, database, settings
  <2>. QED BY <2>1, StaysBase, TypesAre DEF ChatBase
<1>2. CASE \E r \in Requests : Begin(r) \/ Say(r) \/ Leave(r) \/ LeaveAtEnd(r)
  BY <1>2, BeginBase, SayBase, LeaveBase, LeaveAtEndBase
<1>3. CASE \E i \in Instances : Cancel(i) \/ Deliver(i)
  BY <1>3, CancelBase, DeliverBase
<1>4. CASE \E r \in Requests : Handle(r)
  <2>1. PICK r \in Requests : Handle(r)
    BY <1>4
  <2>. QED BY <2>1, ConfigBase, FindLastBase, StoreQuestionBase, ReadHistoryBase, ReadForSummaryBase, RewriteBase,
              RemoveQuestionBase, RenewQuestionBase, ModelAnswersBase, FailBase, StoreAnswerBase DEF Handle
<1>5. CASE \E t \in Tasks : Work(t)
  BY <1>5, PartialBase, KeepPartialBase, CountMessagesBase, StoreCountBase, FinishBase DEF Work
<1>. QED BY <1>1, <1>2, <1>3, <1>4, <1>5 DEF ChatNext, Environment

\* The types of a conversation, and that requests work alone where nothing
\* says otherwise.
THEOREM ChatInvariant == ChatSpec => []ChatBase
<1>. QED BY StartsBase, StepsBase, PTL DEF ChatSpec

\* Every variable of a conversation has its type.
THEOREM ChatTypes == ChatSpec => []ChatTypeOK
<1>1. ChatBase => ChatTypeOK
  BY DEF ChatBase
<1>. QED BY <1>1, ChatInvariant, PTL

-----------------------------------------------------------------------------
(* What the steps do to messages                                            *)

Moves(t, from, to) == stage[t] = from /\ stage'[t] = to /\ \A u \in Tasks : u /= t => stage'[u] = stage[u]
Alike(q) ==
  /\ req'[q].message = req[q].message /\ req'[q].since = req[q].since /\ req'[q].last = req[q].last
  /\ req'[q].asked = req[q].asked /\ req'[q].covers = req[q].covers
Others(r) == \A q \in Requests : q /= r => Alike(q)

LEMMA MovesTo ==
  ASSUME ChatTypeOK, NEW t \in Tasks, NEW label, Goto(t, label)
  PROVE  Moves(t, stage[t], label)
  BY Going DEF Moves

\* No request waits, and the step is not excused.
LEMMA NotLost ==
  ASSUME ChatTypeOK, "unheard" \notin history'
  PROVE  /\ \A r \in Requests : ~Catch(r, "unheard")
         /\ \A t \in Tasks : ~GiveUp(t)
  BY MishapIs DEF Catch, GiveUp, Kept

LEMMA FindLastDoes ==
  ASSUME ChatBase, NEW r \in Requests, FindLast(r), "unheard" \notin history'
  PROVE  /\ Moves(Main(r), "last", "ask") /\ Others(r) /\ req'[r].last = LastSequence
         /\ req'[r].message = req[r].message /\ req'[r].since = req[r].since
         /\ UNCHANGED <<thread, serial, conversation, note, history>>
<1>1. /\ req' = [req EXCEPT ![r].last = LastSequence]
      /\ Goto(Main(r), "ask") /\ stage[Main(r)] = "last"
      /\ Calm /\ UNCHANGED <<database, settings, streams, cancels, note>>
  BY NotLost DEF FindLast, ChatBase
<1>2. Moves(Main(r), "last", "ask")
  BY <1>1, MovesTo, TheTasks DEF ChatBase
<1>3. req \in [Requests -> Remembered] /\ req[r] \in Remembered
  BY TypesAre, RequestIs DEF ChatBase
<1>4. Others(r)
  BY <1>1, <1>3 DEF Others, Alike
<1>5. req'[r].last = LastSequence /\ req'[r].message = req[r].message /\ req'[r].since = req[r].since
  BY <1>1, <1>3 DEF Remembered
<1>. QED BY <1>1, <1>2, <1>4, <1>5, CalmIs DEF database, ChatBase

LEMMA StoreQuestionDoes ==
  ASSUME ChatBase, NEW r \in Requests, StoreQuestion(r), "unheard" \notin history'
  PROVE  /\ Moves(Main(r), "ask", "history") /\ Others(r)
         /\ CreateMessage("user", r, "question", req[r].last + 1) /\ "user" \in Roles /\ "question" \in Kinds
         /\ req[r].last + 1 \in Nat
         /\ req'[r].message = serial + 1 /\ req'[r].last = req[r].last /\ req'[r].since = req[r].since
         /\ UNCHANGED <<conversation, note, history>>
<1>1. /\ req' = [req EXCEPT ![r].message = serial + 1]
      /\ Goto(Main(r), "history") /\ stage[Main(r)] = "ask"
      /\ CreateMessage("user", r, "question", req[r].last + 1)
      /\ Calm /\ UNCHANGED <<conversation, settings, streams, cancels, note>>
  BY NotLost DEF StoreQuestion, ChatBase
<1>2. Moves(Main(r), "ask", "history")
  BY <1>1, MovesTo, TheTasks DEF ChatBase
<1>3. req \in [Requests -> Remembered] /\ req[r] \in Remembered
  BY TypesAre, RequestIs DEF ChatBase
<1>4. Others(r)
  BY <1>1, <1>3 DEF Others, Alike
<1>5. req'[r].last = req[r].last /\ req'[r].message = serial + 1 /\ req'[r].since = req[r].since
  BY <1>1, <1>3 DEF Remembered
<1>6. req[r].last + 1 \in Nat /\ "user" \in Roles /\ "question" \in Kinds
  BY RequestIs DEF ChatBase, Roles, Kinds
<1>. QED BY <1>1, <1>2, <1>4, <1>5, <1>6, CalmIs DEF ChatBase

LEMMA ReadHistoryDoes ==
  ASSUME ChatBase, NEW r \in Requests, ReadHistory(r), "unheard" \notin history'
  PROVE  /\ Others(r) /\ req'[r].message = req[r].message /\ req'[r].last = req[r].last
         /\ req'[r].since = req[r].since
         /\ UNCHANGED <<thread, serial, conversation, note, history>>
         /\ \/ Moves(Main(r), "history", "error") /\ Last(View(r)).role /= "user"
            \/ /\ Moves(Main(r), "history", IF Len(View(r)) >= limit THEN "summary" ELSE "stream")
               /\ Last(View(r)).role = "user" /\ req'[r].asked = Questioned(Shown(r))
<1>1. /\ stage[Main(r)] = "history" /\ Calm /\ UNCHANGED <<database, settings, streams, cancels, note>>
      /\ \/ Last(View(r)).role /= "user" /\ Goto(Main(r), "error") /\ UNCHANGED req
         \/ /\ Last(View(r)).role = "user"
            /\ Goto(Main(r), IF Len(View(r)) >= limit THEN "summary" ELSE "stream")
            /\ req' = [req EXCEPT ![r].asked = Questioned(Shown(r))]
  BY NotLost, ReadsView DEF ChatBase, ReadHistory
<1>2. req \in [Requests -> Remembered] /\ req[r] \in Remembered /\ Main(r) \in Tasks
  BY TypesAre, RequestIs, TheTasks DEF ChatBase
<1>3. Others(r)
  BY <1>1, <1>2 DEF Others, Alike
<1>4. req'[r].message = req[r].message /\ req'[r].last = req[r].last /\ req'[r].since = req[r].since
  BY <1>1, <1>2 DEF Remembered
<1>5. CASE Last(View(r)).role /= "user"
  BY <1>1, <1>2, <1>3, <1>4, <1>5, MovesTo, CalmIs DEF database, ChatBase
<1>6. CASE Last(View(r)).role = "user"
  <2>1. req'[r].asked = Questioned(Shown(r))
    BY <1>1, <1>2, <1>6 DEF Remembered
  <2>. QED BY <1>1, <1>2, <1>3, <1>4, <1>6, <2>1, MovesTo, CalmIs DEF database, ChatBase
<1>. QED BY <1>5, <1>6

LEMMA ReadForSummaryDoes ==
  ASSUME ChatBase, NEW r \in Requests, ReadForSummary(r), ~Catch(r, "unsummarised")
  PROVE  /\ Moves(Main(r), "summary", "rewrite") /\ Others(r)
         /\ req'[r].message = req[r].message /\ req'[r].last = req[r].last /\ req'[r].asked = req[r].asked
         /\ req'[r].covers = {Fact(m) : m \in ToSet(Recent(0))} \cup {<<"user", r>>} \cup conversation.summary
         /\ UNCHANGED <<thread, serial, conversation, note, history>>
<1>. DEFINE covers == {Fact(m) : m \in ToSet(Recent(0))} \cup {<<"user", r>>} \cup conversation.summary
<1>1. /\ req' = [req EXCEPT ![r].covers = covers]
      /\ Goto(Main(r), "rewrite") /\ stage[Main(r)] = "summary"
      /\ Calm /\ UNCHANGED <<database, settings, streams, cancels, note>>
  BY DEF ReadForSummary, ChatBase
<1>. HIDE DEF covers
<1>2. Moves(Main(r), "summary", "rewrite")
  BY <1>1, MovesTo, TheTasks DEF ChatBase
<1>3. req \in [Requests -> Remembered] /\ req[r] \in Remembered
  BY TypesAre, RequestIs DEF ChatBase
<1>4. Others(r)
  BY <1>1, <1>3 DEF Others, Alike
<1>5. /\ req'[r].message = req[r].message /\ req'[r].last = req[r].last /\ req'[r].asked = req[r].asked
      /\ req'[r].covers = covers
  BY <1>1, <1>3 DEF Remembered
<1>. QED BY <1>1, <1>2, <1>4, <1>5, CalmIs DEF database, ChatBase, covers

LEMMA RewriteDoes ==
  ASSUME ChatBase, NEW r \in Requests, Rewrite(r), ~Catch(r, "unsummarised")
  PROVE  /\ Moves(Main(r), "rewrite", "remove") /\ \A q \in Requests : Alike(q)
         /\ conversation'.summary = req[r].covers /\ ("clock" \notin history' => conversation'.since = serial)
         /\ conversation'.count = conversation.count
         /\ UNCHANGED <<thread, serial, note>>
<1>1. /\ \E clock \in conversation.since .. serial + Ahead : Summarise(req[r].covers, clock)
      /\ Goto(Main(r), "remove") /\ stage[Main(r)] = "rewrite"
      /\ UNCHANGED <<thread, serial, settings, streams, cancels, req, note>>
  BY DEF Rewrite, ChatBase
<1>2. Moves(Main(r), "rewrite", "remove")
  BY <1>1, MovesTo, TheTasks DEF ChatBase
<1>3. \A q \in Requests : Alike(q)
  BY <1>1 DEF Alike
<1>4. PICK clock \in conversation.since .. serial + Ahead : Summarise(req[r].covers, clock)
  BY <1>1
<1>5. /\ conversation'.summary = req[r].covers /\ conversation'.since = clock
      /\ conversation'.count = conversation.count
  BY <1>4, SummariseDoes, RequestIs DEF ChatBase, Remembered
<1>6. "clock" \notin history' => clock = serial
  BY <1>4 DEF Summarise, Mishap
<1>. QED BY <1>1, <1>2, <1>3, <1>5, <1>6

LEMMA RemoveQuestionDoes ==
  ASSUME ChatBase, NEW r \in Requests, RemoveQuestion(r), "unheard" \notin history'
  PROVE  /\ Moves(Main(r), "remove", "renew") /\ \A q \in Requests : Alike(q)
         /\ thread' = Picked(thread, {m \in ToSet(thread) : m.id /= req[r].message})
         /\ ToSet(thread') = {m \in ToSet(thread) : m.id /= req[r].message}
         /\ UNCHANGED <<serial, conversation, note, history>>
<1>1. /\ thread' = Picked(thread, {m \in ToSet(thread) : m.id /= req[r].message})
      /\ Goto(Main(r), "renew") /\ stage[Main(r)] = "remove"
      /\ Calm /\ UNCHANGED <<serial, conversation, settings, streams, cancels, req, note>>
  BY NotLost DEF RemoveQuestion, ChatBase
<1>2. Moves(Main(r), "remove", "renew")
  BY <1>1, MovesTo, TheTasks DEF ChatBase
<1>3. \A q \in Requests : Alike(q)
  BY <1>1 DEF Alike
<1>4. ToSet(thread') = {m \in ToSet(thread) : m.id /= req[r].message}
  BY <1>1, PickedElements, TheThread DEF ChatBase
<1>. QED BY <1>1, <1>2, <1>3, <1>4, CalmIs DEF ChatBase

LEMMA RenewQuestionDoes ==
  ASSUME ChatBase, NEW r \in Requests, RenewQuestion(r), "unheard" \notin history'
  PROVE  /\ Moves(Main(r), "renew", "stream") /\ \A q \in Requests : Alike(q)
         /\ CreateMessage("user", r, "question", req[r].last + 1) /\ "user" \in Roles /\ "question" \in Kinds
         /\ req[r].last + 1 \in Nat
         /\ UNCHANGED <<conversation, note, history>>
<1>1. /\ CreateMessage("user", r, "question", req[r].last + 1)
      /\ Goto(Main(r), "stream") /\ stage[Main(r)] = "renew"
      /\ Calm /\ UNCHANGED <<conversation, settings, streams, cancels, req, note>>
  BY NotLost DEF RenewQuestion, ChatBase
<1>2. Moves(Main(r), "renew", "stream")
  BY <1>1, MovesTo, TheTasks DEF ChatBase
<1>3. \A q \in Requests : Alike(q)
  BY <1>1 DEF Alike
<1>4. req[r].last + 1 \in Nat /\ "user" \in Roles /\ "question" \in Kinds
  BY RequestIs DEF ChatBase, Roles, Kinds
<1>. QED BY <1>1, <1>2, <1>3, <1>4, CalmIs DEF ChatBase

\* An answer, an error or what came so far is stored.
Replies(t, r, kind, n) ==
  /\ Moves(t, stage[t], "count") /\ t \in {Main(r), Closing(r)}
  /\ \A q \in Requests : Alike(q)
  /\ CreateMessage("assistant", r, kind, n) /\ "assistant" \in Roles /\ kind \in Kinds /\ n \in Nat
  /\ UNCHANGED <<conversation, note, history>>

LEMMA StoreAnswerDoes ==
  ASSUME ChatBase, NEW r \in Requests, StoreAnswer(r) \/ StoreError(r), "unheard" \notin history'
  PROVE  stage[Main(r)] \in {"answer", "error"} /\ \E kind \in Kinds : Replies(Main(r), r, kind, req[r].last + 2)
<1>1. (IF req[r].wrote THEN "answer" ELSE "empty") \in Kinds /\ "error" \in Kinds
  BY DEF Kinds
<1>2. PICK kind \in Kinds : /\ CreateMessage("assistant", r, kind, req[r].last + 2)
                            /\ Goto(Main(r), "count") /\ stage[Main(r)] \in {"answer", "error"}
                            /\ Calm /\ UNCHANGED <<conversation, settings, streams, cancels, req, note>>
  BY <1>1, NotLost, TheTasks DEF StoreAnswer, StoreError, ChatBase
<1>3. Moves(Main(r), stage[Main(r)], "count")
  BY <1>2, MovesTo, TheTasks DEF ChatBase
<1>4. \A q \in Requests : Alike(q)
  BY <1>2 DEF Alike
<1>5. req[r].last + 2 \in Nat /\ "assistant" \in Roles
  BY RequestIs DEF ChatBase, Roles
<1>. QED BY <1>2, <1>3, <1>4, <1>5, CalmIs DEF ChatBase, Replies

LEMMA KeepPartialDoes ==
  ASSUME ChatBase, NEW t \in Tasks, KeepPartial(t), "unheard" \notin history'
  PROVE  stage[t] = "keep" /\ \E r \in Requests : t[1] = r /\ Replies(t, r, "partial", note[t])
<1>1. /\ CreateMessage("assistant", t[1], "partial", note[t])
      /\ Goto(t, "count") /\ stage[t] = "keep"
      /\ Calm /\ UNCHANGED <<conversation, settings, streams, cancels, req, note>>
  BY NotLost DEF KeepPartial, ChatBase
<1>2. Moves(t, stage[t], "count")
  BY <1>1, MovesTo DEF ChatBase
<1>3. \A q \in Requests : Alike(q)
  BY <1>1 DEF Alike
<1>4. note[t] \in Nat /\ "assistant" \in Roles /\ "partial" \in Kinds
  BY TypesAre DEF ChatBase, Roles, Kinds
<1>5. PICK r \in Requests : t[1] = r /\ (t = Main(r) \/ t = Closing(r))
  BY TheTasks
<1>. QED BY <1>1, <1>2, <1>3, <1>4, <1>5, CalmIs DEF ChatBase, Replies

\* A task reads a number: the last one, or how many messages there are.
LEMMA ReadingDoes ==
  ASSUME ChatBase, NEW t \in Tasks, Partial(t) \/ CountMessages(t), "unheard" \notin history'
  PROVE  /\ \A q \in Requests : Alike(q)
         /\ UNCHANGED <<thread, serial, conversation, history>>
         /\ \A u \in Tasks : u /= t => note'[u] = note[u]
         /\ \/ Moves(t, "partial", "keep") /\ note'[t] = LastSequence + 2
            \/ Moves(t, "count", "store") /\ note'[t] = Len(thread)
<1>1. Calm /\ UNCHANGED <<database, settings, streams, cancels, req>>
      /\ \/ stage[t] = "partial" /\ Goto(t, "keep") /\ note' = [note EXCEPT ![t] = LastSequence + 2]
         \/ stage[t] = "count" /\ Goto(t, "store") /\ note' = [note EXCEPT ![t] = Len(thread)]
  BY NotLost DEF Partial, CountMessages, ChatBase
<1>2. \A q \in Requests : Alike(q)
  BY <1>1 DEF Alike
<1>3. note \in [Tasks -> Nat]
  BY TypesAre DEF ChatBase
<1>. QED BY <1>1, <1>2, <1>3, MovesTo, CalmIs DEF ChatBase, database

LEMMA StoreCountDoes ==
  ASSUME ChatBase, NEW t \in Tasks, StoreCount(t), "unheard" \notin history'
  PROVE  /\ Moves(t, "store", "finish") /\ \A q \in Requests : Alike(q)
         /\ UNCHANGED <<thread, serial, note, history>>
         /\ conversation'.count = note[t] /\ conversation'.since = conversation.since
         /\ conversation'.summary = conversation.summary
<1>1. /\ conversation' = [conversation EXCEPT !.count = note[t]]
      /\ Goto(t, "finish") /\ stage[t] = "store"
      /\ Calm /\ UNCHANGED <<thread, serial, settings, streams, cancels, req, note>>
  BY NotLost DEF StoreCount, ChatBase
<1>2. Moves(t, "store", "finish")
  BY <1>1, MovesTo DEF ChatBase
<1>3. \A q \in Requests : Alike(q)
  BY <1>1 DEF Alike
<1>4. conversation'.count = note[t] /\ conversation'.since = conversation.since
      /\ conversation'.summary = conversation.summary
  BY <1>1, TypesAre DEF ChatBase, Conversations
<1>. QED BY <1>1, <1>2, <1>3, <1>4, CalmIs DEF ChatBase

\* The steps that leave messages, summary and numbers alone.
PlainMoves ==
  {<<"new", "config">>, <<"new", "finish">>, <<"config", "last">>, <<"config", "finish">>,
   <<"summary", "error">>, <<"rewrite", "error">>, <<"stream", "answer">>, <<"stream", "partial">>,
   <<"stream", "error">>, <<"finish", "ended">>}
PlainFor(q) ==
  LET s == stage[Main(q)]
      next == stage'[Main(q)]
  IN /\ s = next \/ <<s, next>> \in PlainMoves
     /\ req'[q].message = req[q].message
     /\ next \notin {"new", "ended"} =>
          /\ req'[q].last = req[q].last /\ req'[q].asked = req[q].asked /\ req'[q].covers = req[q].covers
          /\ note'[Main(q)] = note[Main(q)]
          /\ IF s = "new" /\ next = "config" THEN req'[q].since = conversation.since
             ELSE s = "new" \/ req'[q].since = req[q].since
Plain == UNCHANGED <<thread, serial, conversation>> /\ \A q \in Requests : PlainFor(q)

LEMMA PlainStay ==
  ASSUME \A q \in Requests : Alike(q), UNCHANGED <<database, stage, note>>
  PROVE  Plain
  BY DEF Plain, PlainFor, Alike, database, Main

LEMMA CancelPlain == ASSUME ChatBase, NEW i \in Instances, Cancel(i) PROVE Plain
<1>1. streams[i] \in Requests /\ req' = [req EXCEPT ![streams[i]].aborted = TRUE]
  BY TypesAre DEF ChatBase, Cancel
<1>2. req \in [Requests -> Remembered] /\ \A q \in Requests : req[q] \in Remembered
  BY TypesAre DEF ChatBase
<1>3. \A q \in Requests : Alike(q)
  BY <1>1, <1>2 DEF Alike, Remembered
<1>. QED BY <1>3, PlainStay DEF Cancel

LEMMA DeliverPlain == ASSUME ChatBase, NEW i \in Instances, Deliver(i) PROVE Plain
<1>1. req' = [q \in Requests |-> IF streams[i] = q THEN [req[q] EXCEPT !.aborted = TRUE] ELSE req[q]]
  BY DEF Deliver
<1>2. \A q \in Requests : req[q] \in Remembered
  BY TypesAre DEF ChatBase
<1>3. \A q \in Requests : Alike(q)
  BY <1>1, <1>2 DEF Alike, Remembered
<1>. QED BY <1>3, PlainStay DEF Deliver

LEMMA SayPlain == ASSUME ChatBase, NEW r \in Requests, Say(r) PROVE Plain
<1>1. req' = [req EXCEPT ![r].wrote = TRUE]
  BY DEF Say
<1>2. req \in [Requests -> Remembered] /\ \A q \in Requests : req[q] \in Remembered
  BY TypesAre DEF ChatBase
<1>3. \A q \in Requests : Alike(q)
  BY <1>1, <1>2 DEF Alike, Remembered
<1>. QED BY <1>3, PlainStay DEF Say

\* A handler makes one of these moves.
LEMMA PlainMove ==
  ASSUME ChatBase, NEW r \in Requests, NEW from, NEW to, Moves(Main(r), from, to), <<from, to>> \in PlainMoves,
         UNCHANGED <<thread, serial, conversation>>, Others(r), note' = note,
         req'[r].message = req[r].message,
         /\ req'[r].last = req[r].last /\ req'[r].asked = req[r].asked /\ req'[r].covers = req[r].covers
         /\ IF from = "new" /\ to = "config" THEN req'[r].since = conversation.since
            ELSE from = "new" \/ req'[r].since = req[r].since
  PROVE  Plain
<1>1. ASSUME NEW q \in Requests, q /= r PROVE PlainFor(q)
  <2>1. stage'[Main(q)] = stage[Main(q)]
    BY <1>1, TheTasks DEF Moves
  <2>. QED BY <1>1, <2>1 DEF PlainFor, Others, Alike
<1>2. PlainFor(r)
  BY DEF PlainFor, Moves
<1>. QED BY <1>1, <1>2 DEF Plain

LEMMA BeginPlain == ASSUME ChatBase, NEW r \in Requests, Begin(r) PROVE Plain
<1>0. req \in [Requests -> Remembered] /\ req[r] \in Remembered /\ Main(r) \in Tasks
  BY TypesAre, RequestIs, TheTasks DEF ChatBase
<1>1. stage[Main(r)] = "new" /\ UNCHANGED <<database, note>>
  BY DEF Begin
<1>2. CASE req' = [req EXCEPT ![r].registered = TRUE, ![r].since = conversation.since] /\ Goto(Main(r), "config")
  <2>1. Moves(Main(r), "new", "config") /\ <<"new", "config">> \in PlainMoves
    BY <1>0, <1>1, <1>2, MovesTo DEF ChatBase, PlainMoves
  <2>2. Others(r)
    BY <1>0, <1>2 DEF Others, Alike
  <2>3. /\ req'[r].message = req[r].message /\ req'[r].last = req[r].last /\ req'[r].asked = req[r].asked
        /\ req'[r].covers = req[r].covers /\ req'[r].since = conversation.since
    BY <1>0, <1>2 DEF Remembered
  <2>. QED BY <1>1, <2>1, <2>2, <2>3, PlainMove DEF database
<1>3. CASE req' = req /\ Goto(Main(r), "finish")
  <2>1. Moves(Main(r), "new", "finish") /\ <<"new", "finish">> \in PlainMoves
    BY <1>0, <1>1, <1>3, MovesTo DEF ChatBase, PlainMoves
  <2>. QED BY <1>1, <1>3, <2>1, PlainMove DEF database, Others, Alike
<1>. QED BY <1>2, <1>3 DEF Begin

LEMMA HandlerPlain ==
  ASSUME ChatBase, NEW r \in Requests,
         Config(r) \/ ModelAnswers(r) \/ Fail(r)
           \/ (Catch(r, "unsummarised") /\ stage[Main(r)] \in {"summary", "rewrite"})
  PROVE  Plain
<1>0. req \in [Requests -> Remembered] /\ req[r] \in Remembered /\ Main(r) \in Tasks
  BY TypesAre, RequestIs, TheTasks DEF ChatBase
<1>1. UNCHANGED <<database, note>> /\ (req' = req \/ req' = [req EXCEPT ![r].open = FALSE])
  BY DEF Config, ModelAnswers, Fail, Catch
<1>2. \E to : Goto(Main(r), to) /\ <<stage[Main(r)], to>> \in PlainMoves
  BY DEF Config, ModelAnswers, Fail, Catch, PlainMoves
<1>3. PICK to : Moves(Main(r), stage[Main(r)], to) /\ <<stage[Main(r)], to>> \in PlainMoves
  BY <1>0, <1>2, MovesTo DEF ChatBase
<1>4. stage[Main(r)] /= "new"
  BY DEF Config, ModelAnswers, Fail
<1>5. Others(r) /\ Alike(r)
  BY <1>0, <1>1 DEF Others, Alike, Remembered
<1>. QED BY <1>1, <1>3, <1>4, <1>5, PlainMove DEF database, Alike

LEMMA FinishPlain == ASSUME ChatBase, NEW t \in Tasks, Finish(t) PROVE Plain
<1>1. /\ stage[t] = "finish" /\ Goto(t, "ended") /\ UNCHANGED database
      /\ req' = (IF t[2] = "main" THEN Forgotten(t[1]) ELSE req) /\ note' = [note EXCEPT ![t] = 0]
  BY DEF Finish
<1>2. PICK r \in Requests :
       (t = Main(r) /\ t[1] = r /\ t[2] = "main") \/ (t = Closing(r) /\ t[1] = r /\ t[2] = "close")
  BY TheTasks
<1>3. Moves(t, "finish", "ended") /\ note \in [Tasks -> Nat]
  BY <1>1, MovesTo, TypesAre DEF ChatBase
<1>4. ASSUME NEW q \in Requests PROVE PlainFor(q)
  <2>1. CASE t = Main(q)
    <3>1. r = q /\ t[2] = "main"
      BY <1>2, <2>1, TheTasks
    <3>2. req'[q].message = req[q].message
      BY <1>1, <1>2, <3>1, ForgottenIs DEF ChatBase
    <3>3. <<"finish", "ended">> \in PlainMoves
      BY DEF PlainMoves
    <3>. QED BY <1>3, <2>1, <3>2, <3>3 DEF PlainFor, Moves
  <2>2. CASE t /= Main(q)
    <3>1. stage'[Main(q)] = stage[Main(q)] /\ note'[Main(q)] = note[Main(q)]
      BY <1>1, <1>3, <2>2, TheTasks DEF Moves
    <3>2. req'[q] = req[q]
      BY <1>1, <1>2, <2>2, ForgottenIs DEF ChatBase
    <3>. QED BY <3>1, <3>2 DEF PlainFor
  <2>. QED BY <2>1, <2>2
<1>. QED BY <1>1, <1>4 DEF Plain, database

LEMMA LeavePlain == ASSUME ChatBase, NEW r \in Requests, Leave(r) \/ LeaveAtEnd(r) PROVE Plain
<1>1. PICK wrote \in BOOLEAN : Close(r, wrote)
  BY RequestIs DEF Leave, LeaveAtEnd, ChatBase
<1>2. \A q \in Requests : Alike(q)
  BY <1>1, CloseIs DEF Alike
<1>3. UNCHANGED <<database, note>>
  BY DEF Leave, LeaveAtEnd
<1>4. ASSUME NEW q \in Requests
      PROVE stage'[Main(q)] = stage[Main(q)] \/ (stage[Main(q)] = "finish" /\ stage'[Main(q)] = "ended")
  <2>1. stage \in [Tasks -> Stages] /\ Main(q) \in Tasks /\ Main(q) /= Closing(r)
    BY TypesAre, TheTasks DEF ChatBase
  <2>2. CASE q = r
    BY <2>1, <2>2 DEF Leave, LeaveAtEnd, Goto
  <2>3. CASE q /= r
    <3>1. Main(q) /= Main(r)
      BY <2>3, TheTasks
    <3>. QED BY <2>1, <3>1 DEF Leave, LeaveAtEnd, Goto
  <2>. QED BY <2>2, <2>3
<1>5. <<"finish", "ended">> \in PlainMoves
  BY DEF PlainMoves
<1>. QED BY <1>2, <1>3, <1>4, <1>5 DEF Plain, PlainFor, Alike, database, Main

LEMMA HistoryGrows == ASSUME ChatBase, [ChatNext]_chatVars PROVE history \subseteq history'
<1>1. CASE UNCHANGED chatVars
  BY <1>1 DEF chatVars
<1>2. CASE \E r \in Requests : Begin(r) \/ Say(r) \/ Leave(r) \/ LeaveAtEnd(r)
  BY <1>2 DEF Begin, Say, Leave, LeaveAtEnd, Close, Mishap
<1>3. CASE \E i \in Instances : Cancel(i) \/ Deliver(i)
  BY <1>3 DEF Cancel, Deliver
<1>4. CASE \E r \in Requests : Handle(r)
  BY <1>4 DEF Handle, Config, FindLast, StoreQuestion, ReadHistory, ReadForSummary, Rewrite, Summarise,
              RemoveQuestion, RenewQuestion, ModelAnswers, Fail, StoreAnswer, StoreError, Catch, GiveUp, Calm, Mishap
<1>5. CASE \E t \in Tasks : Work(t)
  BY <1>5 DEF Work, Partial, KeepPartial, CountMessages, StoreCount, Finish, GiveUp, Calm, Mishap
<1>. QED BY <1>1, <1>2, <1>3, <1>4, <1>5 DEF ChatNext, Environment

\* The steps there are, if no query fails.
Special(r) ==
  \/ FindLast(r) \/ StoreQuestion(r) \/ ReadHistory(r)
  \/ ReadForSummary(r) /\ ~Catch(r, "unsummarised")
  \/ Rewrite(r) /\ ~Catch(r, "unsummarised")
  \/ RemoveQuestion(r) \/ RenewQuestion(r) \/ StoreAnswer(r) \/ StoreError(r)

LEMMA ChatSteps ==
  ASSUME ChatBase, [ChatNext]_chatVars, "unheard" \notin history'
  PROVE  \/ Plain
         \/ \E r \in Requests : Special(r)
         \/ \E t \in Tasks : KeepPartial(t) \/ Partial(t) \/ CountMessages(t) \/ StoreCount(t)
<1>1. CASE UNCHANGED chatVars
  <2>1. \A q \in Requests : Alike(q)
    BY <1>1 DEF chatVars, Alike
  <2>. QED BY <1>1, <2>1, PlainStay DEF chatVars, database
<1>2. CASE \E r \in Requests : Begin(r) \/ Say(r) \/ Leave(r) \/ LeaveAtEnd(r)
  BY <1>2, BeginPlain, SayPlain, LeavePlain
<1>3. CASE \E i \in Instances : Cancel(i) \/ Deliver(i)
  BY <1>3, CancelPlain, DeliverPlain
<1>4. CASE \E r \in Requests : Handle(r)
  <2>1. PICK r \in Requests : Handle(r)
    BY <1>4
  <2>2. CASE Config(r) \/ ModelAnswers(r) \/ Fail(r)
    BY <2>2, HandlerPlain
  <2>3. CASE ReadForSummary(r) \/ Rewrite(r)
    <3>1. stage[Main(r)] \in {"summary", "rewrite"}
      BY <2>3 DEF ReadForSummary, Rewrite
    <3>2. CASE Catch(r, "unsummarised")
      BY <3>1, <3>2, HandlerPlain
    <3>3. CASE ~Catch(r, "unsummarised")
      BY <2>3, <3>3 DEF Special
    <3>. QED BY <3>2, <3>3
  <2>. QED BY <2>1, <2>2, <2>3 DEF Handle, Special
<1>5. CASE \E t \in Tasks : Work(t)
  BY <1>5, FinishPlain DEF Work
<1>. QED BY <1>1, <1>2, <1>3, <1>4, <1>5 DEF ChatNext, Environment

-----------------------------------------------------------------------------
(* A question is stored once and answered once                              *)

Onward(s, next) ==
  \/ next = s
  \/ s \in Before /\ next \in Before \cup {"finish", "ended"}
  \/ s \in Asking /\ next \in Asking \cup Finishing
  \/ s \in Finishing /\ next \in Finishing
  \/ s \in {"count", "store"} /\ next \in {"count", "store", "finish", "ended"}
  \/ s = "finish" /\ next = "ended"

SaidAlike(q) == \A role \in Roles : {m \in ToSet(thread') : m.of = q /\ m.role = role} = Said(q, role)

LEMMA StoredOn ==
  ASSUME NEW q \in Requests, HasStored(q), SaidAlike(q), req'[q].message = req[q].message,
         Onward(stage[Main(q)], stage'[Main(q)])
  PROVE  HasStored(q)'
<1>. DEFINE s == stage[Main(q)]
            next == stage'[Main(q)]
            n == req[q].message
            questions == Said(q, "user")
            answers == Said(q, "assistant")
<1>1. {m \in ToSet(thread') : m.of = q /\ m.role = "user"} = questions
      /\ {m \in ToSet(thread') : m.of = q /\ m.role = "assistant"} = answers
  BY DEF SaidAlike, Roles
<1>2. /\ s \in Before => n = 0
      /\ n = 0 => questions = {} /\ answers = {} /\ s \in Before \cup {"finish", "ended"}
      /\ s \in Asking => answers = {} /\ \E m \in questions : questions = {m} /\ m.id = n
      /\ s = "renew" => answers = {} /\ questions = {}
      /\ s \in Finishing => answers = {} /\ One(questions)
      /\ s \in {"count", "store", "finish", "ended"} /\ n /= 0 => One(answers) /\ One(questions)
  BY DEF HasStored
<1>3. Onward(s, next)
  OBVIOUS
<1>. HIDE DEF questions, answers, s, next, n
<1>4. /\ next \in Before => n = 0
      /\ n = 0 => questions = {} /\ answers = {} /\ next \in Before \cup {"finish", "ended"}
      /\ next \in Asking => answers = {} /\ \E m \in questions : questions = {m} /\ m.id = n
      /\ next = "renew" => answers = {} /\ questions = {}
      /\ next \in Finishing => answers = {} /\ One(questions)
      /\ next \in {"count", "store", "finish", "ended"} /\ n /= 0 => One(answers) /\ One(questions)
  <2>1. CASE next = s
    BY <1>2, <2>1
  <2>2. CASE s \in Before /\ next \in Before \cup {"finish", "ended"}
    BY <1>2, <2>2 DEF Before, Asking, Finishing
  <2>3. CASE s \in Asking /\ next \in Asking \cup Finishing
    <3>1. One(questions)
      BY <1>2, <2>3 DEF One
    <3>2. n /= 0 /\ answers = {} /\ \E m \in questions : questions = {m} /\ m.id = n
      BY <1>2, <2>3, <3>1 DEF Before, Asking
    <3>3. next \notin Before /\ next /= "renew" /\ next \notin {"count", "store", "finish", "ended"}
      BY <2>3 DEF Before, Asking, Finishing
    <3>. QED BY <2>3, <3>1, <3>2, <3>3
  <2>4. CASE s \in Finishing /\ next \in Finishing
    BY <1>2, <2>4 DEF Before, Asking, Finishing
  <2>5. CASE s \in {"count", "store"} /\ next \in {"count", "store", "finish", "ended"}
    BY <1>2, <2>5 DEF Before, Asking, Finishing
  <2>6. CASE s = "finish" /\ next = "ended"
    BY <1>2, <2>6 DEF Before, Asking, Finishing
  <2>. QED BY <1>3, <2>1, <2>2, <2>3, <2>4, <2>5, <2>6 DEF Onward
<1>. QED BY <1>1, <1>4 DEF HasStored, Said, Main, One, next, n

LEMMA SameSaid == ASSUME thread' = thread PROVE \A q \in Requests : SaidAlike(q)
  BY DEF SaidAlike, Said

\* A message that is made is one more of its request and its role.
LEMMA MakesSaid ==
  ASSUME ChatTypeOK, NEW role \in Roles, NEW r \in Requests, NEW kind \in Kinds, NEW n \in Nat,
         CreateMessage(role, r, kind, n)
  PROVE  /\ \A q \in Requests : q /= r => SaidAlike(q)
         /\ \E m : /\ m.id = serial + 1
                   /\ {x \in ToSet(thread') : x.of = r /\ x.role = role} = Said(r, role) \cup {m}
         /\ \A other \in Roles : other /= role => {m \in ToSet(thread') : m.of = r /\ m.role = other} = Said(r, other)
<1>. DEFINE m == Message(role, r, kind, n)
<1>1. m.id = serial + 1 /\ m.role = role /\ m.of = r /\ ToSet(thread') = ToSet(thread) \cup {m}
  BY Gives
<1>. HIDE DEF m
<1>. QED BY <1>1 DEF SaidAlike, Said

LEMMA StoredStarts == ChatInit => StoredOnce
<1>. SUFFICES ASSUME ChatInit, NEW r \in Requests PROVE HasStored(r)
  BY DEF StoredOnce
<1>1. stage[Main(r)] = "new" /\ req[r].message = 0
  <2>1. Main(r) \in Tasks /\ Main(r)[2] = "main"
    BY TheTasks DEF Main
  <2>. QED BY <2>1 DEF ChatInit
<1>2. \A role : Said(r, role) = {}
  BY DEF ChatInit, Said, ToSet
<1>. QED BY <1>1, <1>2 DEF HasStored, Before, Asking, Finishing

LEMMA StoredByStep ==
  ASSUME ChatBase, ChatBase', StoredOnce, [ChatNext]_chatVars
  PROVE  StoredOnce'
<1>. SUFFICES ASSUME history' \cap {"left", "unheard"} = {}, NEW q \in Requests PROVE HasStored(q)'
  BY DEF StoredOnce, Spared
<1>1. "unheard" \notin history' /\ \A r \in Requests : HasStored(r)
  <2>1. history \cap {"left", "unheard"} = {}
    BY HistoryGrows
  <2>. QED BY <2>1 DEF StoredOnce, Spared
<1>2. \A r \in Requests : stage[Closing(r)] = "ended" /\ stage'[Closing(r)] = "ended"
  BY HistoryGrows DEF ChatBase, Apartness, Closing
<1>3. CASE Plain
  <2>1. SaidAlike(q) /\ req'[q].message = req[q].message
    BY <1>3, SameSaid DEF Plain, PlainFor
  <2>2. Onward(stage[Main(q)], stage'[Main(q)])
    BY <1>3 DEF Plain, PlainFor, PlainMoves, Onward, Before, Asking, Finishing
  <2>. QED BY <1>1, <2>1, <2>2, StoredOn
\* A move of r that leaves the messages alone.
<1>4. ASSUME NEW r \in Requests, NEW from, NEW to, Moves(Main(r), from, to), Onward(from, to),
             UNCHANGED thread, \A p \in Requests : req'[p].message = req[p].message
      PROVE HasStored(q)'
  <2>1. SaidAlike(q)
    BY <1>4, SameSaid
  <2>2. Onward(stage[Main(q)], stage'[Main(q)])
    BY <1>4, TheTasks DEF Moves, Onward
  <2>. QED BY <1>1, <1>4, <2>1, <2>2, StoredOn
\* One that lets the other requests alone.
<1>5. ASSUME NEW r \in Requests, NEW from, NEW to, Moves(Main(r), from, to), SaidAlike(q), q /= r,
             req'[q].message = req[q].message
      PROVE HasStored(q)'
  <2>1. stage'[Main(q)] = stage[Main(q)]
    BY <1>5, TheTasks DEF Moves
  <2>. QED BY <1>1, <1>5, <2>1, StoredOn DEF Onward
\* A reply.
<1>6. ASSUME NEW r \in Requests, NEW kind, NEW n, Replies(Main(r), r, kind, n), stage[Main(r)] \in Finishing
      PROVE HasStored(q)'
  <2>1. /\ \A p \in Requests : p /= r => SaidAlike(p)
        /\ \E m : {x \in ToSet(thread') : x.of = r /\ x.role = "assistant"} = Said(r, "assistant") \cup {m}
        /\ {m \in ToSet(thread') : m.of = r /\ m.role = "user"} = Said(r, "user")
    BY <1>6, MakesSaid DEF ChatBase, Roles, Replies
  <2>2. Moves(Main(r), stage[Main(r)], "count") /\ \A p \in Requests : Alike(p)
    BY <1>6 DEF Replies
  <2>3. CASE q = r
    <3>1. stage'[Main(r)] = "count" /\ req'[r].message = req[r].message
      BY <2>2 DEF Moves, Alike
    <3>2. Said(r, "assistant") = {} /\ One(Said(r, "user")) /\ req[r].message /= 0
      BY <1>1, <1>6 DEF HasStored, Before, Finishing
    <3>. QED BY <2>1, <2>3, <3>1, <3>2 DEF HasStored, Said, One, Before, Asking, Finishing, Main
  <2>4. CASE q /= r
    BY <1>5, <2>1, <2>2, <2>4 DEF Alike
  <2>. QED BY <2>3, <2>4
<1>7. ASSUME NEW r \in Requests, Special(r) PROVE HasStored(q)'
  <2>1. CASE FindLast(r)
    <3>1. \A p \in Requests : req'[p].message = req[p].message
      BY <1>1, <2>1, FindLastDoes DEF Others, Alike
    <3>2. Onward("last", "ask")
      BY DEF Onward, Before
    <3>. QED BY <1>1, <1>4, <2>1, <3>1, <3>2, FindLastDoes
  <2>2. CASE StoreQuestion(r)
    <3>1. /\ Moves(Main(r), "ask", "history") /\ Others(r)
          /\ CreateMessage("user", r, "question", req[r].last + 1) /\ "user" \in Roles /\ "question" \in Kinds
          /\ req[r].last + 1 \in Nat /\ req'[r].message = serial + 1
      BY <1>1, <2>2, StoreQuestionDoes
    <3>2. /\ \A p \in Requests : p /= r => SaidAlike(p)
          /\ \E m : /\ m.id = serial + 1
                    /\ {x \in ToSet(thread') : x.of = r /\ x.role = "user"} = Said(r, "user") \cup {m}
          /\ {m \in ToSet(thread') : m.of = r /\ m.role = "assistant"} = Said(r, "assistant")
      BY <3>1, MakesSaid DEF ChatBase, Roles
    <3>3. CASE q = r
      <4>1. Said(r, "user") = {} /\ Said(r, "assistant") = {}
        BY <1>1, <3>1 DEF HasStored, Moves, Before
      <4>2. serial + 1 /= 0 /\ stage'[Main(r)] = "history"
        BY <3>1, TypesAre DEF ChatBase, Moves
      <4>. QED BY <3>1, <3>2, <3>3, <4>1, <4>2 DEF HasStored, Said, One, Before, Asking, Finishing, Main
    <3>4. CASE q /= r
      BY <1>5, <3>1, <3>2, <3>4 DEF Others, Alike
    <3>. QED BY <3>3, <3>4
  <2>3. CASE ReadHistory(r)
    <3>1. UNCHANGED thread /\ \A p \in Requests : req'[p].message = req[p].message
      BY <1>1, <2>3, ReadHistoryDoes DEF Others, Alike
    <3>2. \E to \in {"error", "summary", "stream"} : Moves(Main(r), "history", to)
      BY <1>1, <2>3, ReadHistoryDoes
    <3>3. \A to \in {"error", "summary", "stream"} : Onward("history", to)
      BY DEF Onward, Asking, Finishing
    <3>. QED BY <1>4, <3>1, <3>2, <3>3
  <2>4. CASE ReadForSummary(r) /\ ~Catch(r, "unsummarised")
    <3>1. \A p \in Requests : req'[p].message = req[p].message
      BY <2>4, ReadForSummaryDoes DEF Others, Alike
    <3>2. Onward("summary", "rewrite")
      BY DEF Onward, Asking
    <3>. QED BY <1>4, <2>4, <3>1, <3>2, ReadForSummaryDoes
  <2>5. CASE Rewrite(r) /\ ~Catch(r, "unsummarised")
    <3>1. \A p \in Requests : req'[p].message = req[p].message
      BY <2>5, RewriteDoes DEF Alike
    <3>2. Onward("rewrite", "remove")
      BY DEF Onward, Asking
    <3>. QED BY <1>4, <2>5, <3>1, <3>2, RewriteDoes
  <2>6. CASE RemoveQuestion(r)
    <3>1. /\ Moves(Main(r), "remove", "renew") /\ \A p \in Requests : Alike(p)
          /\ ToSet(thread') = {m \in ToSet(thread) : m.id /= req[r].message}
      BY <1>1, <2>6, RemoveQuestionDoes
    <3>2. Said(r, "assistant") = {} /\ \E m \in Said(r, "user") : Said(r, "user") = {m} /\ m.id = req[r].message
      BY <1>1, <3>1 DEF HasStored, Moves, Asking
    <3>3. PICK m \in Said(r, "user") : Said(r, "user") = {m} /\ m.id = req[r].message
      BY <3>2
    <3>4. \A x, y \in ToSet(thread) : x.id = y.id => x = y
      <4>1. \A i, j \in DOMAIN thread : thread[i].id = thread[j].id => i = j
        BY TheThread DEF ChatBase, Dated, Grows
      <4>. QED BY <4>1 DEF ToSet
    <3>5. m \in ToSet(thread) /\ m.of = r /\ m.role = "user"
      BY DEF Said
    <3>6. ToSet(thread') = ToSet(thread) \ {m}
      BY <3>1, <3>3, <3>4, <3>5
    <3>7. CASE q = r
      <4>1. {x \in ToSet(thread') : x.of = r /\ x.role = "user"} = {}
            /\ {x \in ToSet(thread') : x.of = r /\ x.role = "assistant"} = {}
        BY <3>2, <3>3, <3>5, <3>6 DEF Said
      <4>2. req'[r].message = req[r].message /\ req[r].message /= 0 /\ stage'[Main(r)] = "renew"
        <5>1. stage[Main(r)] = "remove"
          BY <3>1 DEF Moves
        <5>2. req[r].message /= 0
          BY <1>1, <5>1 DEF HasStored, Before
        <5>. QED BY <3>1, <5>2 DEF Moves, Alike
      <4>. QED BY <3>7, <4>1, <4>2 DEF HasStored, Said, One, Before, Asking, Finishing, Main
    <3>8. CASE q /= r
      <4>1. SaidAlike(q)
        BY <3>5, <3>6, <3>8 DEF SaidAlike, Said
      <4>. QED BY <1>5, <3>1, <3>8, <4>1 DEF Alike
    <3>. QED BY <3>7, <3>8
  <2>7. CASE RenewQuestion(r)
    <3>1. /\ Moves(Main(r), "renew", "stream") /\ \A p \in Requests : Alike(p)
          /\ CreateMessage("user", r, "question", req[r].last + 1) /\ "user" \in Roles /\ "question" \in Kinds
          /\ req[r].last + 1 \in Nat
      BY <1>1, <2>7, RenewQuestionDoes
    <3>2. /\ \A p \in Requests : p /= r => SaidAlike(p)
          /\ \E m : {x \in ToSet(thread') : x.of = r /\ x.role = "user"} = Said(r, "user") \cup {m}
          /\ {m \in ToSet(thread') : m.of = r /\ m.role = "assistant"} = Said(r, "assistant")
      BY <3>1, MakesSaid DEF ChatBase, Roles
    <3>3. CASE q = r
      <4>0. stage[Main(r)] = "renew" /\ stage'[Main(r)] = "stream" /\ req'[r].message = req[r].message
        BY <3>1 DEF Moves, Alike
      <4>1. Said(r, "user") = {} /\ Said(r, "assistant") = {} /\ req[r].message /= 0
        BY <1>1, <4>0 DEF HasStored, Before
      <4>. QED BY <3>2, <3>3, <4>0, <4>1 DEF HasStored, Said, One, Before, Asking, Finishing, Main
    <3>4. CASE q /= r
      BY <1>5, <3>1, <3>2, <3>4 DEF Alike
    <3>. QED BY <3>3, <3>4
  <2>8. CASE StoreAnswer(r) \/ StoreError(r)
    <3>1. PICK kind \in Kinds : stage[Main(r)] \in {"answer", "error"} /\ Replies(Main(r), r, kind, req[r].last + 2)
      BY <1>1, <2>8, StoreAnswerDoes
    <3>. QED BY <1>6, <3>1 DEF Finishing
  <2>. QED BY <1>7, <2>1, <2>2, <2>3, <2>4, <2>5, <2>6, <2>7, <2>8 DEF Special
<1>8. ASSUME NEW t \in Tasks, KeepPartial(t) \/ Partial(t) \/ CountMessages(t) \/ StoreCount(t) PROVE HasStored(q)'
  <2>1. stage[t] /= "ended"
    BY <1>8 DEF KeepPartial, Partial, CountMessages, StoreCount
  <2>2. PICK r \in Requests : t = Main(r) /\ t[1] = r
    BY <1>2, <2>1, TheTasks
  <2>3. CASE KeepPartial(t)
    <3>1. stage[Main(r)] = "keep" /\ Replies(Main(r), r, "partial", note[t])
      BY <1>1, <2>2, <2>3, KeepPartialDoes
    <3>. QED BY <1>6, <3>1 DEF Finishing
  <2>4. CASE Partial(t) \/ CountMessages(t)
    <3>1. \A p \in Requests : req'[p].message = req[p].message
      BY <1>1, <2>4, ReadingDoes DEF Alike
    <3>2. Onward("partial", "keep") /\ Onward("count", "store")
      BY DEF Onward, Finishing
    <3>. QED BY <1>1, <1>4, <2>2, <2>4, <3>1, <3>2, ReadingDoes
  <2>5. CASE StoreCount(t)
    <3>1. \A p \in Requests : req'[p].message = req[p].message
      BY <1>1, <2>5, StoreCountDoes DEF Alike
    <3>2. Onward("store", "finish")
      BY DEF Onward
    <3>. QED BY <1>1, <1>4, <2>2, <2>5, <3>1, <3>2, StoreCountDoes
  <2>. QED BY <1>8, <2>3, <2>4, <2>5
<1>. QED BY <1>1, <1>3, <1>7, <1>8, ChatSteps

\* A message that is the only one is at one place.
LEMMA OnePlace ==
  ASSUME ChatBase, NEW r \in Requests, NEW role, One(Said(r, role))
  PROVE  Cardinality(Of(r, role)) = 1
<1>1. PICK m \in Said(r, role) : Said(r, role) = {m}
  BY DEF One
<1>2. PICK i \in DOMAIN thread : thread[i] = m /\ m.of = r /\ m.role = role
  BY DEF Said, ToSet
<1>3. ASSUME NEW j \in Of(r, role) PROVE j = i
  <2>1. j \in DOMAIN thread /\ thread[j] \in Said(r, role)
    BY DEF Of, Said, ToSet
  <2>2. thread[j].id = thread[i].id
    BY <1>1, <1>2, <2>1
  <2>. QED BY <1>2, <2>1, <2>2, TheThread DEF ChatBase, Dated, Grows
<1>4. Of(r, role) = {i}
  BY <1>2, <1>3 DEF Of
<1>. QED BY <1>4, FS_Singleton

LEMMA StoredAnswers == ChatBase /\ StoredOnce => Answered
<1>. SUFFICES ASSUME ChatBase, StoredOnce, NEW r \in Requests, ~Busy(r), req[r].message /= 0,
                     Spared({"left", "unheard"})
              PROVE  Cardinality(Of(r, "user")) = 1 /\ Cardinality(Of(r, "assistant")) = 1
  BY DEF Answered
<1>1. HasStored(r)
  BY DEF StoredOnce
<1>2. stage[Main(r)] \in {"new", "ended"}
  BY DEF Busy, Open
<1>3. One(Said(r, "user")) /\ One(Said(r, "assistant"))
  BY <1>1, <1>2 DEF HasStored, Before
<1>. QED BY <1>3, OnePlace

\* A question is stored once and answered once, whatever the requests at the
\* same time, the cancellations, the failing models and the summaries that
\* delete it and create it again.
THEOREM ChatAnswers == ChatSpec => []Answered
<1>1. ChatBase /\ ChatBase' /\ StoredOnce /\ [ChatNext]_chatVars => StoredOnce'
  BY StoredByStep
<1>2. ChatInit => StoredOnce
  BY StoredStarts
<1>. QED BY <1>1, <1>2, ChatInvariant, StoredAnswers, PTL DEF ChatSpec

-----------------------------------------------------------------------------
(* The last message                                                         *)

LEMMA WorksAlone ==
  ASSUME ChatBase, "overlap" \notin history, NEW r \in Requests, NEW t \in {Main(r), Closing(r)},
         stage[t] \notin {"new", "ended"}
  PROVE  \A q \in Requests : q /= r => stage[Main(q)] \in {"new", "ended"} /\ stage[Closing(q)] = "ended"
<1>1. Busy(r)
  BY DEF Busy, Open
<1>2. \A q \in Requests : q /= r => ~Busy(q)
  BY <1>1 DEF ChatBase, Apartness
<1>. QED BY <1>2 DEF Busy, Open

LEMMA LastSame ==
  ASSUME LastIs, history \subseteq history', thread' = thread,
         \A q \in Requests :
           \/ stage'[Main(q)] = stage[Main(q)]
           \/ /\ stage'[Main(q)] \in Pausing => stage[Main(q)] \in Pausing
              /\ stage'[Main(q)] \in Asking => stage[Main(q)] \in Asking,
         \A q \in Requests : stage'[Main(q)] \in Asking =>
           req'[q].message = req[q].message /\ req'[q].last = req[q].last
  PROVE  LastIs'
<1>. SUFFICES ASSUME history' \cap {"overlap", "unheard"} = {}
              PROVE  LastIs'
  BY DEF LastIs, Spared
<1>1. history \cap {"overlap", "unheard"} = {}
  OBVIOUS
<1>2. /\ AllAt(Pausing) => thread = <<>> \/ thread[Len(thread)].role = "assistant"
      /\ \A r \in Requests : stage[Main(r)] \in Asking =>
           /\ Len(thread) > 0 /\ IsQuestion(Len(thread), r)
           /\ Len(thread) = 1 \/ thread[Len(thread) - 1].role = "assistant"
  BY <1>1 DEF LastIs, Spared
<1>3. (\A q \in Requests : stage'[Main(q)] \in Pausing) => AllAt(Pausing)
  BY DEF AllAt
<1>4. ASSUME NEW r \in Requests, stage'[Main(r)] \in Asking
      PROVE  Len(thread') > 0 /\ IsQuestion(Len(thread), r)' /\ (Len(thread') = 1 \/ thread'[Len(thread') - 1].role = "assistant")
  BY <1>2, <1>4 DEF IsQuestion
<1>. QED BY <1>2, <1>3, <1>4 DEF LastIs, AllAt, Main, IsQuestion

\* Without the question the thread is what it was before it.
LEMMA RemovesLast ==
  ASSUME ChatBase, NEW r \in Requests, Len(thread) > 0, thread[Len(thread)].id = req[r].message
  PROVE  Picked(thread, {m \in ToSet(thread) : m.id /= req[r].message}) = SubSeq(thread, 1, Len(thread) - 1)
<1>. DEFINE wanted == {m \in ToSet(thread) : m.id /= req[r].message}
            n == Len(thread)
<1>1. n \in Nat \ {0} /\ DOMAIN thread = 1 .. n /\ thread \in Seq(Postings)
  BY TheThread DEF ChatBase
<1>2. \A i \in DOMAIN thread : thread[i] \in ToSet(thread) /\ thread[i].id \in Nat
  BY TheThread DEF ChatBase, ToSet
<1>3. \A i \in DOMAIN thread : i < n => thread[i].id < thread[n].id
  BY <1>1 DEF ChatBase, Dated, Grows
<1>4. Stretch(thread, wanted, 0, n - 1)
  <2>. SUFFICES ASSUME NEW i \in DOMAIN thread PROVE thread[i] \in wanted <=> 0 < i /\ i <= n - 1
    BY DEF Stretch
  <2>1. thread[i] \in wanted <=> thread[i].id /= thread[n].id
    BY <1>2
  <2>2. n \in DOMAIN thread
    BY <1>1
  <2>. HIDE DEF n, wanted
  <2>. QED BY <1>1, <1>2, <1>3, <2>1, <2>2
<1>5. n - 1 \in Nat /\ n - 1 <= Len(thread) /\ 0 \in Nat /\ 0 + 1 = 1
  BY <1>1
<1>. HIDE DEF wanted
<1>6. Picked(thread, wanted) = SubSeq(thread, 0 + 1, n - 1)
  BY <1>1, <1>4, <1>5, PickedStretch
<1>. QED BY <1>5, <1>6 DEF wanted

LEMMA ThreadWithoutLast ==
  ASSUME ChatTypeOK, Len(thread) > 0
  PROVE  LET s == SubSeq(thread, 1, Len(thread) - 1) IN
         s \in Seq(Postings) /\ Len(s) = Len(thread) - 1 /\ DOMAIN s = 1 .. Len(thread) - 1
         /\ \A i \in DOMAIN s : i \in DOMAIN thread /\ s[i] = thread[i]
<1>. DEFINE n == Len(thread)
<1>1. n \in Nat \ {0} /\ DOMAIN thread = 1 .. n /\ \A i \in DOMAIN thread : thread[i] \in Postings
  BY TheThread
<1>2. \A i \in 1 .. n - 1 : i \in DOMAIN thread
  BY <1>1
<1>3. 1 \in Int /\ n - 1 \in Int /\ \A i \in 1 .. n - 1 : thread[i] \in Postings
  BY <1>1, <1>2
<1>. HIDE DEF n
<1>4. /\ SubSeq(thread, 1, n - 1) \in Seq(Postings)
      /\ Len(SubSeq(thread, 1, n - 1)) = IF 1 <= n - 1 THEN (n - 1) - 1 + 1 ELSE 0
      /\ \A i \in 1 .. (n - 1) - 1 + 1 : SubSeq(thread, 1, n - 1)[i] = thread[1 + i - 1]
  BY <1>3, SubSeqProperties
<1>5. Len(SubSeq(thread, 1, n - 1)) = n - 1
  BY <1>1, <1>4
<1>6. DOMAIN SubSeq(thread, 1, n - 1) = 1 .. n - 1
  BY <1>4, <1>5, LenProperties
<1>7. \A i \in 1 .. n - 1 : SubSeq(thread, 1, n - 1)[i] = thread[i]
  <2>1. \A i \in 1 .. n - 1 : i \in 1 .. (n - 1) - 1 + 1 /\ 1 + i - 1 = i
    BY <1>1
  <2>. QED BY <1>4, <2>1
<1>. QED BY <1>2, <1>4, <1>5, <1>6, <1>7 DEF n

LEMMA LastStarts == ChatInit => LastIs
<1>. SUFFICES ASSUME ChatInit PROVE LastIs
  OBVIOUS
<1>1. \A r \in Requests : stage[Main(r)] = "new"
  <2>1. \A r \in Requests : Main(r) \in Tasks /\ Main(r)[2] = "main"
    BY TheTasks DEF Main
  <2>. QED BY <2>1 DEF ChatInit
<1>. QED BY <1>1 DEF ChatInit, LastIs, Asking

LEMMA LastByStep ==
  ASSUME ChatBase, LastIs, [ChatNext]_chatVars
  PROVE  LastIs'
<1>. SUFFICES ASSUME history' \cap {"overlap", "unheard"} = {} PROVE LastIs'
  BY DEF LastIs, Spared
<1>1. /\ history \subseteq history' /\ "unheard" \notin history' /\ "overlap" \notin history
      /\ AllAt(Pausing) => thread = <<>> \/ thread[Len(thread)].role = "assistant"
      /\ \A r \in Requests : stage[Main(r)] \in Asking =>
           /\ Len(thread) > 0 /\ IsQuestion(Len(thread), r)
           /\ Len(thread) = 1 \/ thread[Len(thread) - 1].role = "assistant"
  <2>1. history \subseteq history'
    BY HistoryGrows
  <2>2. history \cap {"overlap", "unheard"} = {}
    BY <2>1
  <2>. QED BY <2>1, <2>2 DEF LastIs, Spared
<1>2. CASE Plain
  <2>1. ASSUME NEW q \in Requests
        PROVE  /\ \/ stage'[Main(q)] = stage[Main(q)]
                  \/ /\ stage'[Main(q)] \in Pausing => stage[Main(q)] \in Pausing
                     /\ stage'[Main(q)] \in Asking => stage[Main(q)] \in Asking
               /\ stage'[Main(q)] \in Asking => req'[q].message = req[q].message /\ req'[q].last = req[q].last
    BY <1>2 DEF Plain, PlainFor, PlainMoves, Pausing, Before, Asking
  <2>. QED BY <1>1, <1>2, <2>1, LastSame DEF Plain
\* A task moves, and no message does.
<1>3. ASSUME NEW r \in Requests, NEW t \in {Main(r), Closing(r)}, NEW from, NEW to, Moves(t, from, to), thread' = thread,
             t = Main(r) => /\ to \in Pausing => from \in Pausing
                            /\ to \in Asking => from \in Asking /\ req'[r].message = req[r].message /\ req'[r].last = req[r].last,
             t = Closing(r) => Alike(r), Others(r)
      PROVE LastIs'
  <2>1. ASSUME NEW q \in Requests
        PROVE  /\ \/ stage'[Main(q)] = stage[Main(q)]
                  \/ /\ stage'[Main(q)] \in Pausing => stage[Main(q)] \in Pausing
                     /\ stage'[Main(q)] \in Asking => stage[Main(q)] \in Asking
               /\ stage'[Main(q)] \in Asking => req'[q].message = req[q].message /\ req'[q].last = req[q].last
    <3>1. CASE t = Main(q)
      <4>1. q = r
        BY <3>1, TheTasks
      <4>. QED BY <1>3, <3>1, <4>1 DEF Moves
    <3>2. CASE t /= Main(q)
      <4>1. stage'[Main(q)] = stage[Main(q)]
        BY <1>3, <3>2, TheTasks DEF Moves
      <4>2. Alike(q)
        BY <1>3, <3>2 DEF Others
      <4>. QED BY <4>1, <4>2 DEF Alike
    <3>. QED BY <3>1, <3>2
  <2>. QED BY <1>1, <1>3, <2>1, LastSame
\* A reply is the last message.
<1>4. ASSUME NEW r \in Requests, NEW t \in {Main(r), Closing(r)}, NEW kind, NEW n, Replies(t, r, kind, n),
             stage[t] \notin {"new", "ended"}
      PROVE LastIs'
  <2>1. /\ thread' \in Seq(Postings) /\ Len(thread') = Len(thread) + 1 /\ thread'[Len(thread) + 1].role = "assistant"
    BY <1>4, Gives DEF ChatBase, Replies
  <2>2. Moves(t, stage[t], "count")
    BY <1>4 DEF Replies
  <2>3. ASSUME NEW q \in Requests PROVE stage'[Main(q)] \notin Asking
    <3>1. CASE t = Main(q)
      BY <2>2, <3>1 DEF Moves, Asking
    <3>2. CASE t /= Main(q)
      <4>1. stage'[Main(q)] = stage[Main(q)]
        BY <2>2, <3>2, TheTasks DEF Moves
      <4>2. CASE q = r
        <5>1. t = Closing(r)
          BY <3>2, <4>2
        <5>2. stage[Main(r)] \notin Early
          BY <1>4, <5>1 DEF ChatBase, Apartness
        <5>. QED BY <4>1, <4>2, <5>2 DEF Early
      <4>3. CASE q /= r
        <5>1. stage[Main(q)] \in {"new", "ended"}
          BY <1>1, <1>4, <4>3, WorksAlone
        <5>. QED BY <4>1, <5>1 DEF Asking
      <4>. QED BY <4>2, <4>3
    <3>. QED BY <3>1, <3>2
  <2>. QED BY <2>1, <2>3 DEF LastIs, Main
<1>5. ASSUME NEW r \in Requests, Special(r) PROVE LastIs'
  <2>0. stage[Main(r)] \notin {"new", "ended"}
    BY <1>5 DEF Special, FindLast, StoreQuestion, ReadHistory, ReadForSummary, Rewrite, RemoveQuestion, RenewQuestion,
                StoreAnswer, StoreError
  <2>00. \A q \in Requests : q /= r => stage[Main(q)] \in {"new", "ended"}
    BY <1>1, <2>0, WorksAlone
  <2>1. CASE FindLast(r)
    <3>1. Moves(Main(r), "last", "ask") /\ Others(r) /\ thread' = thread
      BY <1>1, <2>1, FindLastDoes
    <3>2. "last" \in Pausing /\ "ask" \notin Asking
      BY DEF Pausing, Before, Asking
    <3>. QED BY <1>3, <3>1, <3>2, TheTasks
  <2>2. CASE StoreQuestion(r)
    <3>1. /\ Moves(Main(r), "ask", "history")
          /\ CreateMessage("user", r, "question", req[r].last + 1) /\ "user" \in Roles /\ "question" \in Kinds
          /\ req[r].last + 1 \in Nat /\ req'[r].message = serial + 1 /\ req'[r].last = req[r].last
      BY <1>1, <2>2, StoreQuestionDoes
    <3>2. /\ thread' \in Seq(Postings) /\ Len(thread') = Len(thread) + 1
          /\ \A i \in DOMAIN thread : thread'[i] = thread[i]
          /\ thread'[Len(thread')].role = "user" /\ thread'[Len(thread')].kind = "question"
          /\ thread'[Len(thread')].of = r /\ thread'[Len(thread')].id = serial + 1
          /\ thread'[Len(thread')].sequence = req[r].last + 1
      BY <3>1, Gives DEF ChatBase
    <3>3. AllAt(Pausing)
      BY <2>00, <3>1 DEF AllAt, Pausing, Before, Moves
    <3>4. Len(thread) \in Nat /\ DOMAIN thread = 1 .. Len(thread)
      BY TheThread DEF ChatBase
    <3>5. Len(thread') = 1 \/ thread'[Len(thread') - 1].role = "assistant"
      BY <1>1, <3>2, <3>3, <3>4
    <3>6. stage'[Main(r)] = "history" /\ \A q \in Requests : q /= r => stage'[Main(q)] = stage[Main(q)]
      BY <3>1, TheTasks DEF Moves
    <3>7. \A q \in Requests : stage'[Main(q)] \in Asking => q = r
      BY <2>00, <3>6 DEF Asking
    <3>8. stage'[Main(r)] \notin Pausing
      BY <3>6 DEF Pausing, Before
    <3>. QED BY <3>1, <3>2, <3>4, <3>5, <3>7, <3>8 DEF LastIs, AllAt, IsQuestion, Main
  <2>3. CASE ReadHistory(r)
    <3>1. /\ Others(r) /\ req'[r].message = req[r].message /\ req'[r].last = req[r].last /\ thread' = thread
          /\ \E to \in {"error", "summary", "stream"} : Moves(Main(r), "history", to)
      BY <1>1, <2>3, ReadHistoryDoes
    <3>2. "history" \in Asking /\ \A to \in {"error", "summary", "stream"} : to \notin Pausing
      BY DEF Pausing, Before, Asking
    <3>. QED BY <1>3, <3>1, <3>2, TheTasks
  <2>4. CASE ReadForSummary(r) /\ ~Catch(r, "unsummarised")
    <3>1. /\ Others(r) /\ req'[r].message = req[r].message /\ req'[r].last = req[r].last /\ thread' = thread
          /\ Moves(Main(r), "summary", "rewrite")
      BY <2>4, ReadForSummaryDoes
    <3>2. "summary" \in Asking /\ "rewrite" \notin Pausing
      BY DEF Pausing, Before, Asking
    <3>. QED BY <1>3, <3>1, <3>2, TheTasks
  <2>5. CASE Rewrite(r) /\ ~Catch(r, "unsummarised")
    <3>1. (\A q \in Requests : Alike(q)) /\ thread' = thread /\ Moves(Main(r), "rewrite", "remove")
      BY <2>5, RewriteDoes
    <3>2. "rewrite" \in Asking /\ "remove" \notin Pausing
      BY DEF Pausing, Before, Asking
    <3>. QED BY <1>3, <3>1, <3>2, TheTasks DEF Others, Alike
  <2>6. CASE RemoveQuestion(r)
    <3>1. /\ Moves(Main(r), "remove", "renew")
          /\ thread' = Picked(thread, {m \in ToSet(thread) : m.id /= req[r].message})
      BY <1>1, <2>6, RemoveQuestionDoes
    <3>2. /\ Len(thread) > 0 /\ IsQuestion(Len(thread), r)
          /\ Len(thread) = 1 \/ thread[Len(thread) - 1].role = "assistant"
      BY <1>1, <3>1 DEF Moves, Asking
    <3>3. thread' = SubSeq(thread, 1, Len(thread) - 1)
      BY <3>1, <3>2, RemovesLast DEF IsQuestion
    <3>4. /\ Len(thread') = Len(thread) - 1 /\ DOMAIN thread' = 1 .. Len(thread) - 1
          /\ \A i \in DOMAIN thread' : thread'[i] = thread[i]
      BY <3>2, <3>3, ThreadWithoutLast DEF ChatBase
    <3>5. thread' = <<>> \/ thread'[Len(thread')].role = "assistant"
      <4>1. CASE Len(thread) = 1
        BY <3>2, <3>3, <4>1, SubSeqEmpty
      <4>2. CASE Len(thread) /= 1
        <5>1. Len(thread) - 1 \in 1 .. Len(thread) - 1
          BY <3>2, <4>2, TheThread DEF ChatBase
        <5>. QED BY <3>2, <3>4, <4>2, <5>1
      <4>. QED BY <4>1, <4>2
    <3>6. \A q \in Requests : stage'[Main(q)] \notin Asking
      <4>1. stage'[Main(r)] = "renew" /\ \A q \in Requests : q /= r => stage'[Main(q)] = stage[Main(q)]
        BY <3>1, TheTasks DEF Moves
      <4>. QED BY <2>00, <4>1 DEF Asking
    <3>. QED BY <3>5, <3>6 DEF LastIs, Main
  <2>7. CASE RenewQuestion(r)
    <3>1. Moves(Main(r), "renew", "stream")
      BY <1>1, <2>7, RenewQuestionDoes
    <3>2. stage'[Main(r)] = "stream" /\ \A q \in Requests : q /= r => stage'[Main(q)] = stage[Main(q)]
      BY <3>1, TheTasks DEF Moves
    <3>3. \A q \in Requests : stage'[Main(q)] \notin Asking
      BY <2>00, <3>2 DEF Asking
    <3>4. stage'[Main(r)] \notin Pausing
      BY <3>2 DEF Pausing, Before
    <3>. QED BY <3>3, <3>4 DEF LastIs, AllAt, Main
  <2>8. CASE StoreAnswer(r) \/ StoreError(r)
    <3>1. PICK kind \in Kinds : Replies(Main(r), r, kind, req[r].last + 2)
      BY <1>1, <2>8, StoreAnswerDoes
    <3>. QED BY <1>4, <2>0, <3>1
  <2>. QED BY <1>5, <2>1, <2>2, <2>3, <2>4, <2>5, <2>6, <2>7, <2>8 DEF Special
<1>6. ASSUME NEW t \in Tasks, KeepPartial(t) \/ Partial(t) \/ CountMessages(t) \/ StoreCount(t) PROVE LastIs'
  <2>1. PICK r \in Requests : t \in {Main(r), Closing(r)} /\ t[1] = r
    BY TheTasks
  <2>2. CASE KeepPartial(t)
    <3>1. stage[t] = "keep" /\ Replies(t, r, "partial", note[t])
      BY <1>1, <2>1, <2>2, KeepPartialDoes
    <3>. QED BY <1>4, <2>1, <3>1
  <2>3. CASE Partial(t) \/ CountMessages(t)
    <3>1. (\A q \in Requests : Alike(q)) /\ thread' = thread /\ (Moves(t, "partial", "keep") \/ Moves(t, "count", "store"))
      BY <1>1, <2>3, ReadingDoes
    <3>2. "keep" \notin Pausing /\ "keep" \notin Asking /\ "count" \in Pausing /\ "store" \notin Asking
      BY DEF Pausing, Before, Asking
    <3>. QED BY <1>3, <2>1, <3>1, <3>2 DEF Others
  <2>4. CASE StoreCount(t)
    <3>1. (\A q \in Requests : Alike(q)) /\ thread' = thread /\ Moves(t, "store", "finish")
      BY <1>1, <2>4, StoreCountDoes
    <3>2. "store" \in Pausing /\ "finish" \notin Asking
      BY DEF Pausing, Before, Asking
    <3>. QED BY <1>3, <2>1, <3>1, <3>2 DEF Others
  <2>. QED BY <1>6, <2>2, <2>3, <2>4
<1>. QED BY <1>1, <1>2, <1>5, <1>6, ChatSteps

-----------------------------------------------------------------------------
(* The model is asked the latest question                                   *)

\* The messages since then are the last ones of the thread.
LEMMA RecentIs ==
  ASSUME ChatBase, NEW since \in Nat
  PROVE  \E k \in 0 .. Len(thread) :
           /\ \A i \in DOMAIN thread : thread[i].id > since <=> k < i
           /\ Recent(since) = LastOf(SubSeq(thread, k + 1, Len(thread)), limit)
<1>1. /\ thread \in Seq(Postings) /\ Len(thread) \in Nat /\ DOMAIN thread = 1 .. Len(thread)
      /\ \A x \in Postings : x.id \in Nat
  BY TheThread DEF ChatBase
<1>2. Grows(thread)
  BY DEF ChatBase, Dated
<1>3. PICK k \in 0 .. Len(thread) : \A i \in DOMAIN thread : thread[i].id > since <=> k < i
  BY <1>1, <1>2, Splits
<1>4. Stretch(thread, Since(since), k, Len(thread))
  <2>1. \A i \in DOMAIN thread : thread[i] \in ToSet(thread)
    BY DEF ToSet
  <2>. QED BY <1>1, <1>3, <2>1 DEF Stretch, Since
<1>5. k \in Nat /\ Len(thread) <= Len(thread)
  BY <1>1
<1>6. Picked(thread, Since(since)) = SubSeq(thread, k + 1, Len(thread))
  BY <1>1, <1>4, <1>5, PickedStretch
<1>. QED BY <1>3, <1>6 DEF Recent

LEMMA ViewIs ==
  ASSUME ChatBase, NEW r \in Requests, Len(thread) > 0, thread[Len(thread)].id = req[r].message,
         NEW k \in 0 .. Len(thread), \A i \in DOMAIN thread : thread[i].id > req[r].since <=> k < i
  PROVE  /\ Suffix(View(r), thread)
         /\ k < Len(thread) => View(r) = LastOf(SubSeq(thread, k + 1, Len(thread)), limit)
<1>. DEFINE n == Len(thread)
            further == SubSeq(thread, k + 1, n)
            found == Recent(req[r].since)
            own == Picked(thread, {m \in ToSet(thread) : m.id = req[r].message})
<1>1. /\ thread \in Seq(Postings) /\ n \in Nat \ {0} /\ DOMAIN thread = 1 .. n
      /\ \A i \in DOMAIN thread : thread[i] \in ToSet(thread) /\ thread[i].id \in Nat
  BY TheThread DEF ChatBase, ToSet
<1>0. n \in Nat \ {0} /\ k \in 0 .. n
  BY <1>1
<1>2. limit \in Nat \ {0} /\ req[r].since \in Nat
  BY TypesAre, RequestIs DEF ChatBase
<1>3. found = LastOf(further, limit)
  <2>1. PICK j \in 0 .. Len(thread) :
           /\ \A i \in DOMAIN thread : thread[i].id > req[r].since <=> j < i
           /\ Recent(req[r].since) = LastOf(SubSeq(thread, j + 1, Len(thread)), limit)
    BY <1>2, RecentIs
  <2>2. ~(j < k)
    <3>. SUFFICES ASSUME j < k PROVE FALSE
      OBVIOUS
    <3>1. k \in DOMAIN thread /\ ~(k < k)
      BY <1>1
    <3>. QED BY <2>1, <3>1
  <2>3. ~(k < j)
    <3>. SUFFICES ASSUME k < j PROVE FALSE
      OBVIOUS
    <3>1. j \in DOMAIN thread /\ ~(j < j)
      BY <1>1
    <3>. QED BY <2>1, <3>1
  <2>4. j = k
    BY <1>1, <2>2, <2>3
  <2>. QED BY <2>1, <2>4
<1>4. View(r) = IF \E i \in DOMAIN found : found[i].id = req[r].message THEN found ELSE found \o own
  BY DEF View
<1>5. CASE k < n
  <2>1. Suffix(further, thread)
    <3>1. k + 1 \in 1 .. Len(thread)
      BY <1>0, <1>5
    <3>. QED BY <3>1 DEF Suffix
  <2>. HIDE DEF further
  <2>2. Suffix(found, thread)
    BY <1>1, <1>2, <1>3, <2>1, LastOfSuffix
  <2>. HIDE DEF found
  <2>3. found \in Seq(Postings) /\ Len(found) \in 1 .. n /\ found[Len(found)] = thread[n]
    BY <1>1, <2>2, SuffixEnds
  <2>4. Len(found) \in DOMAIN found
    BY <1>1, <2>3
  <2>5. View(r) = found
    BY <1>4, <2>3, <2>4
  <2>. QED BY <1>3, <2>2, <2>5 DEF further
<1>6. CASE ~(k < n)
  <2>1. k = n
    BY <1>0, <1>6
  <2>2. further = <<>>
    BY <1>1, <2>1, SubSeqEmpty
  <2>3. found = <<>>
    <3>. HIDE DEF further
    <3>1. further \in Seq(Postings) /\ Len(further) = 0 /\ limit \in Nat /\ ~(0 > limit)
      BY <1>2, <2>2
    <3>. DEFINE last == LastOf(further, limit)
    <3>2. last \in Seq(Postings) /\ Len(last) = IF Len(further) > limit THEN limit ELSE Len(further)
      BY <3>1, LastOfType
    <3>. HIDE DEF last
    <3>3. last = <<>>
      BY <3>1, <3>2
    <3>. QED BY <1>3, <3>3 DEF last
  <2>4. own = SubSeq(thread, n, n)
    <3>. DEFINE wanted == {m \in ToSet(thread) : m.id = req[r].message}
    <3>1. \A i \in DOMAIN thread : i < n => thread[i].id < thread[n].id
      BY <1>1 DEF ChatBase, Dated, Grows
    <3>2. Stretch(thread, wanted, n - 1, n)
      <4>. SUFFICES ASSUME NEW i \in DOMAIN thread PROVE thread[i] \in wanted <=> n - 1 < i /\ i <= n
        BY DEF Stretch
      <4>1. thread[i] \in wanted <=> thread[i].id = thread[n].id
        BY <1>1
      <4>2. n \in DOMAIN thread
        BY <1>1
      <4>. HIDE DEF n, wanted
      <4>. QED BY <1>1, <3>1, <4>1, <4>2
    <3>3. n - 1 \in Nat /\ n \in Nat /\ n <= Len(thread) /\ (n - 1) + 1 = n
      BY <1>1
    <3>. HIDE DEF wanted
    <3>4. Picked(thread, wanted) = SubSeq(thread, (n - 1) + 1, n)
      <4>. HIDE DEF n
      <4>. QED BY <1>1, <3>2, <3>3, PickedStretch
    <3>. QED BY <3>3, <3>4 DEF wanted
  <2>5. Suffix(own, thread)
    <3>1. n \in 1 .. Len(thread)
      BY <1>0
    <3>. HIDE DEF own
    <3>. QED BY <2>4, <3>1 DEF Suffix
  <2>. HIDE DEF own
  <2>6. own \in Seq(Postings)
    BY <1>1, <2>5, SuffixEnds
  <2>7. View(r) = own
    <3>1. <<>> \o own = own /\ DOMAIN <<>> = {}
      BY <2>6
    <3>. HIDE DEF found
    <3>. QED BY <1>4, <2>3, <3>1
  <2>. QED BY <1>6, <2>5, <2>7
<1>. QED BY <1>5, <1>6

LEMMA AsksWell ==
  ASSUME ChatBase, NEW r \in Requests, Len(thread) > 0, IsQuestion(Len(thread), r), Tidy,
         Len(thread) = 1 \/ thread[Len(thread) - 1].role = "assistant"
  PROVE  Questioned(Shown(r)) = r
<1>. DEFINE n == Len(thread)
<1>1. thread \in Seq(Postings) /\ n \in Nat \ {0} /\ DOMAIN thread = 1 .. n
      /\ \A x \in Postings : x.id \in Nat
  BY TheThread DEF ChatBase
<1>2. /\ thread[n].id = req[r].message /\ thread[n].role = "user" /\ thread[n].of = r
      /\ req[r].since \in Nat
  BY RequestIs DEF IsQuestion, ChatBase
<1>3. Grows(thread)
  BY DEF ChatBase, Dated
<1>4. PICK k \in 0 .. Len(thread) : \A i \in DOMAIN thread : thread[i].id > req[r].since <=> k < i
  BY <1>1, <1>2, <1>3, Splits
<1>5. Suffix(View(r), thread)
  BY <1>2, <1>4, ViewIs
<1>6. Min({limit, 14}) \in Nat \ {0}
  BY ViewTypes DEF ChatBase
<1>7. Suffix(Shown(r), thread)
  BY <1>1, <1>5, <1>6, LastOfSuffix DEF Shown
<1>. DEFINE s == Shown(r)
<1>8. /\ s \in Seq(Postings) /\ Len(s) \in 1 .. n /\ s[Len(s)] = thread[n]
      /\ Len(s) > 1 => s[Len(s) - 1] = thread[n - 1]
  BY <1>1, <1>7, SuffixEnds
<1>9. s /= <<>>
  BY <1>8
<1>10. Len(s) > 1 => n > 1 /\ n - 1 \in DOMAIN thread
  BY <1>1, <1>8
<1>. HIDE DEF n, s
<1>11. Len(s) > 1 => s[Len(s) - 1].role = "assistant" /\ s[Len(s) - 1].kind \notin {"error", "empty"}
  BY <1>8, <1>10 DEF Tidy, n
<1>12. Questioned(s) = s[Len(s)].of
  BY <1>2, <1>8, <1>9, <1>11, AsksWhom DEF ChatBase
<1>. QED BY <1>2, <1>8, <1>12 DEF s

Posed == {"summary", "rewrite", "remove", "renew", "stream"}

LEMMA AskedStarts == ChatInit => AskedIs
<1>. SUFFICES ASSUME ChatInit PROVE \A r \in Requests : stage[Main(r)] = "new"
  BY DEF AskedIs
<1>1. \A r \in Requests : Main(r) \in Tasks /\ Main(r)[2] = "main"
  BY TheTasks DEF Main
<1>. QED BY <1>1 DEF ChatInit

LEMMA AskedByStep ==
  ASSUME ChatBase, LastIs, AskedIs, [ChatNext]_chatVars
  PROVE  AskedIs'
<1>. SUFFICES ASSUME history' \cap {"overlap", "unheard"} = {}, Tidy',
                     NEW q \in Requests, stage'[Main(q)] \in Posed
              PROVE  req'[q].asked = q
  BY DEF AskedIs, Spared, Posed, Main
<1>1. /\ history \subseteq history' /\ "unheard" \notin history' /\ "overlap" \notin history
      /\ Tidy => \A r \in Requests : stage[Main(r)] \in Posed => req[r].asked = r
      /\ \A r \in Requests : stage[Main(r)] \in Asking =>
           /\ Len(thread) > 0 /\ IsQuestion(Len(thread), r)
           /\ Len(thread) = 1 \/ thread[Len(thread) - 1].role = "assistant"
  <2>1. history \subseteq history'
    BY HistoryGrows
  <2>2. history \cap {"overlap", "unheard"} = {}
    BY <2>1
  <2>. QED BY <2>1, <2>2 DEF AskedIs, LastIs, Spared, Posed
<1>2. ASSUME thread' = thread PROVE Tidy
  BY <1>2 DEF Tidy
<1>3. ASSUME NEW role \in Roles, NEW r \in Requests, NEW kind \in Kinds, NEW n \in Nat, CreateMessage(role, r, kind, n)
      PROVE  Tidy
  BY <1>3, Gives DEF Tidy, ChatBase
<1>4. CASE Plain
  <2>1. stage'[Main(q)] = stage[Main(q)] /\ req'[q].asked = req[q].asked
    BY <1>4 DEF Plain, PlainFor, PlainMoves, Posed
  <2>. QED BY <1>1, <1>2, <1>4, <2>1 DEF Plain
\* A task of another request, or onClose of this one.
<1>5. ASSUME NEW r \in Requests, NEW t \in {Main(r), Closing(r)}, NEW from, NEW to, Moves(t, from, to),
             from \notin {"new", "ended"}, to \notin Posed
      PROVE  q = r /\ stage'[Main(q)] = stage[Main(q)]
  <2>1. Main(q) /= t
    BY <1>5 DEF Moves
  <2>2. stage'[Main(q)] = stage[Main(q)]
    BY <1>5, <2>1, TheTasks DEF Moves
  <2>3. stage[t] \notin {"new", "ended"}
    BY <1>5 DEF Moves
  <2>. QED BY <1>1, <1>5, <2>2, <2>3, WorksAlone DEF Posed
<1>6. ASSUME NEW r \in Requests, Special(r) PROVE req'[q].asked = q
  <2>0. stage[Main(r)] \notin {"new", "ended"}
    BY <1>6 DEF Special, FindLast, StoreQuestion, ReadHistory, ReadForSummary, Rewrite, RemoveQuestion, RenewQuestion,
                StoreAnswer, StoreError
  <2>1. ASSUME NEW from, NEW to, Moves(Main(r), from, to) PROVE q = r /\ to \in Posed
    <3>1. to \in Posed
      <4>. SUFFICES ASSUME to \notin Posed PROVE FALSE
        OBVIOUS
      <4>1. q = r
        BY <1>5, <2>0, <2>1 DEF Moves
      <4>. QED BY <2>1, <4>1 DEF Moves
    <3>2. CASE q = r
      BY <3>1, <3>2
    <3>3. CASE q /= r
      <4>1. stage'[Main(q)] = stage[Main(q)]
        BY <2>1, <3>3, TheTasks DEF Moves
      <4>. QED BY <1>1, <2>0, <3>3, <4>1, WorksAlone DEF Posed
    <3>. QED BY <3>2, <3>3
  <2>2. CASE FindLast(r)
    <3>1. Moves(Main(r), "last", "ask")
      BY <1>1, <2>2, FindLastDoes
    <3>. QED BY <2>1, <3>1 DEF Posed
  <2>3. CASE StoreQuestion(r)
    <3>1. Moves(Main(r), "ask", "history")
      BY <1>1, <2>3, StoreQuestionDoes
    <3>. QED BY <2>1, <3>1 DEF Posed
  <2>4. CASE ReadHistory(r)
    <3>1. /\ thread' = thread
          /\ \/ Moves(Main(r), "history", "error")
             \/ /\ Moves(Main(r), "history", IF Len(View(r)) >= limit THEN "summary" ELSE "stream")
                /\ req'[r].asked = Questioned(Shown(r))
      BY <1>1, <2>4, ReadHistoryDoes
    <3>2. ~Moves(Main(r), "history", "error")
      BY <2>1 DEF Posed
    <3>3. q = r
      BY <2>1, <3>1
    <3>4. stage[Main(r)] \in Asking
      BY <3>1 DEF Moves, Asking
    <3>. QED BY <1>1, <1>2, <3>1, <3>2, <3>3, <3>4, AsksWell
  <2>5. CASE ReadForSummary(r) /\ ~Catch(r, "unsummarised")
    <3>1. /\ req'[r].asked = req[r].asked /\ thread' = thread /\ Moves(Main(r), "summary", "rewrite")
      BY <2>5, ReadForSummaryDoes
    <3>. QED BY <1>1, <1>2, <2>1, <3>1 DEF Moves, Posed
  <2>6. CASE Rewrite(r) /\ ~Catch(r, "unsummarised")
    <3>1. Alike(r) /\ thread' = thread /\ Moves(Main(r), "rewrite", "remove")
      BY <2>6, RewriteDoes
    <3>. QED BY <1>1, <1>2, <2>1, <3>1 DEF Moves, Posed, Alike
  <2>7. CASE RemoveQuestion(r)
    <3>1. /\ Alike(r) /\ Moves(Main(r), "remove", "renew")
          /\ ToSet(thread') = {m \in ToSet(thread) : m.id /= req[r].message}
      BY <1>1, <2>7, RemoveQuestionDoes
    <3>2. Len(thread) > 0 /\ IsQuestion(Len(thread), r)
      BY <1>1, <3>1 DEF Moves, Asking
    <3>3. Tidy
      <4>. SUFFICES ASSUME NEW i \in DOMAIN thread PROVE thread[i].kind \notin {"error", "empty"}
        BY DEF Tidy
      <4>1. CASE thread[i].id = req[r].message
        <5>1. i = Len(thread)
          <6>1. Len(thread) \in DOMAIN thread /\ i <= Len(thread) /\ thread[i].id \in Nat /\ i \in Nat /\ Len(thread) \in Nat
            BY <3>2, TheThread DEF ChatBase
          <6>2. thread[i].id = thread[Len(thread)].id
            BY <3>2, <4>1 DEF IsQuestion
          <6>3. ~(i < Len(thread))
            BY <6>1, <6>2 DEF ChatBase, Dated, Grows
          <6>. QED BY <6>1, <6>3
        <5>. QED BY <3>2, <5>1 DEF IsQuestion
      <4>2. CASE thread[i].id /= req[r].message
        <5>1. thread[i] \in ToSet(thread')
          BY <3>1, <4>2 DEF ToSet
        <5>2. \E j \in DOMAIN thread' : thread'[j] = thread[i]
          BY <5>1 DEF ToSet
        <5>. QED BY <5>2 DEF Tidy
      <4>. QED BY <4>1, <4>2
    <3>. QED BY <1>1, <2>1, <3>1, <3>3 DEF Moves, Posed, Alike
  <2>8. CASE RenewQuestion(r)
    <3>1. /\ Moves(Main(r), "renew", "stream") /\ Alike(r)
          /\ CreateMessage("user", r, "question", req[r].last + 1) /\ "user" \in Roles /\ "question" \in Kinds
          /\ req[r].last + 1 \in Nat
      BY <1>1, <2>8, RenewQuestionDoes
    <3>2. Tidy
      BY <1>3, <3>1
    <3>. QED BY <1>1, <2>1, <3>1, <3>2 DEF Moves, Posed, Alike
  <2>9. CASE StoreAnswer(r) \/ StoreError(r)
    <3>1. PICK kind \in Kinds : Replies(Main(r), r, kind, req[r].last + 2)
      BY <1>1, <2>9, StoreAnswerDoes
    <3>. QED BY <2>1, <3>1 DEF Replies, Posed
  <2>. QED BY <1>6, <2>2, <2>3, <2>4, <2>5, <2>6, <2>7, <2>8, <2>9 DEF Special
<1>7. ASSUME NEW t \in Tasks, KeepPartial(t) \/ Partial(t) \/ CountMessages(t) \/ StoreCount(t) PROVE req'[q].asked = q
  <2>1. PICK r \in Requests : t \in {Main(r), Closing(r)} /\ t[1] = r
    BY TheTasks
  <2>2. Tidy /\ (\A p \in Requests : Alike(p)) /\ \E from, to : Moves(t, from, to) /\ from \notin {"new", "ended"} /\ to \notin Posed
    <3>1. CASE KeepPartial(t)
      <4>1. stage[t] = "keep" /\ Replies(t, r, "partial", note[t])
        BY <1>1, <2>1, <3>1, KeepPartialDoes
      <4>2. Tidy
        BY <1>3, <4>1 DEF Replies
      <4>. QED BY <4>1, <4>2 DEF Replies, Posed
    <3>2. CASE Partial(t) \/ CountMessages(t)
      <4>1. (\A p \in Requests : Alike(p)) /\ thread' = thread /\ (Moves(t, "partial", "keep") \/ Moves(t, "count", "store"))
        BY <1>1, <3>2, ReadingDoes
      <4>. QED BY <1>2, <4>1 DEF Posed
    <3>3. CASE StoreCount(t)
      <4>1. (\A p \in Requests : Alike(p)) /\ thread' = thread /\ Moves(t, "store", "finish")
        BY <1>1, <3>3, StoreCountDoes
      <4>. QED BY <1>2, <4>1 DEF Posed
    <3>. QED BY <1>7, <3>1, <3>2, <3>3
  <2>3. q = r /\ stage'[Main(q)] = stage[Main(q)]
    BY <1>5, <2>1, <2>2
  <2>. QED BY <1>1, <2>2, <2>3 DEF Alike
<1>. QED BY <1>1, <1>4, <1>6, <1>7, ChatSteps

\* While the model is asked, the question of the request is the last message,
\* the one before it an answer, and the history that is made of them ends in
\* them, however much of it was cut.
THEOREM ChatAsks == ChatSpec => []AsksLatest
<1>1. ChatInit => LastIs /\ AskedIs
  BY LastStarts, AskedStarts
<1>2. ChatBase /\ LastIs /\ [ChatNext]_chatVars => LastIs'
  BY LastByStep
<1>3. ChatBase /\ LastIs /\ AskedIs /\ [ChatNext]_chatVars => AskedIs'
  BY AskedByStep
<1>4. AskedIs => AsksLatest
  BY DEF AskedIs, AsksLatest, Tidy
<1>. QED BY <1>1, <1>2, <1>3, <1>4, ChatInvariant, PTL DEF ChatSpec

-----------------------------------------------------------------------------
(* The messages are numbered in their order, and counted                    *)

LEMMA OrderStarts == ChatInit => InOrderSoFar
<1>. SUFFICES ASSUME ChatInit PROVE InOrderSoFar
  OBVIOUS
<1>1. \A r \in Requests : stage[Main(r)] = "new"
  <2>1. \A r \in Requests : Main(r) \in Tasks /\ Main(r)[2] = "main"
    BY TheTasks DEF Main
  <2>. QED BY <2>1 DEF ChatInit
<1>. QED BY <1>1 DEF ChatInit, InOrderSoFar, Placed, Ordered, Finishing

LEMMA MakesNumber ==
  ASSUME ChatTypeOK, NEW role \in Roles, NEW r \in Requests, NEW kind \in Kinds, NEW n \in Nat,
         CreateMessage(role, r, kind, n)
  PROVE  LET k == Len(thread) + 1 IN
         /\ DOMAIN thread' = DOMAIN thread \cup {k} /\ k \notin DOMAIN thread
         /\ \A i \in DOMAIN thread : thread'[i] = thread[i] /\ i < k
         /\ thread'[k].sequence = n
<1>. DEFINE m == Message(role, r, kind, n)
            k == Len(thread) + 1
<1>1. m.sequence = n /\ thread'[k] = m
  BY Gives
<1>2. DOMAIN thread' = DOMAIN thread \cup {k} /\ k \notin DOMAIN thread
  BY Gives
<1>3. \A i \in DOMAIN thread : thread'[i] = thread[i] /\ i < k
  BY Gives
<1>. HIDE DEF m, k
<1>4. thread'[k].sequence = n
  BY <1>1
<1>. QED BY <1>2, <1>3, <1>4 DEF k

\* A message with a number above the others.
LEMMA OrderedMore ==
  ASSUME ChatTypeOK, NEW role \in Roles, NEW r \in Requests, NEW kind \in Kinds, NEW n \in Nat,
         CreateMessage(role, r, kind, n), Ordered(thread, Page),
         Len(thread) < Page => \A i \in DOMAIN thread : thread[i].sequence < n
  PROVE  Ordered(thread', Page)
<1>. DEFINE k == Len(thread) + 1
<1>1. /\ DOMAIN thread' = DOMAIN thread \cup {k} /\ k \notin DOMAIN thread
      /\ \A i \in DOMAIN thread : thread'[i] = thread[i] /\ i < k
      /\ thread'[k].sequence = n
  BY MakesNumber
<1>2. DOMAIN thread = 1 .. Len(thread) /\ Len(thread) \in Nat /\ Page \in Nat
  BY TheThread, Numbers
<1>. SUFFICES ASSUME NEW i \in DOMAIN thread', NEW j \in DOMAIN thread', i < j, j <= Page
              PROVE  thread'[i].sequence < thread'[j].sequence
  BY DEF Ordered
<1>3. k \in Nat /\ (k <= Page => Len(thread) < Page)
  BY <1>2
<1>. HIDE DEF k
<1>4. CASE j \in DOMAIN thread
  <2>1. i /= k
    BY <1>1, <1>2, <1>3, <1>4
  <2>. QED BY <1>1, <1>4, <2>1 DEF Ordered
<1>5. CASE j = k
  <2>1. i \in DOMAIN thread
    BY <1>1, <1>3, <1>5
  <2>. QED BY <1>1, <1>3, <1>5, <2>1
<1>. QED BY <1>1, <1>4, <1>5

\* Below the last one, if it is not beyond the page.
LEMMA BelowLast ==
  ASSUME ChatTypeOK, Ordered(thread, Page), Len(thread) > 0, Len(thread) <= Page,
         NEW n \in Nat, thread[Len(thread)].sequence = n + 1
  PROVE  \A i \in DOMAIN thread : /\ thread[i].sequence <= n + 1
                                  /\ i < Len(thread) => thread[i].sequence <= n
<1>1. /\ DOMAIN thread = 1 .. Len(thread) /\ Len(thread) \in Nat
      /\ \A i \in DOMAIN thread : thread[i].sequence \in Nat
  BY TheThread
<1>. SUFFICES ASSUME NEW i \in DOMAIN thread
              PROVE  /\ thread[i].sequence <= n + 1
                     /\ i < Len(thread) => thread[i].sequence <= n
  OBVIOUS
<1>2. CASE i < Len(thread)
  <2>1. Len(thread) \in DOMAIN thread
    BY <1>1
  <2>2. thread[i].sequence < thread[Len(thread)].sequence
    BY <1>2, <2>1 DEF Ordered
  <2>. QED BY <1>1, <2>2
<1>3. CASE ~(i < Len(thread))
  <2>1. i = Len(thread)
    BY <1>1, <1>3
  <2>. QED BY <1>1, <1>3, <2>1
<1>. QED BY <1>2, <1>3

\* A request whose stage has no number.
Unplaced == (Before \ {"ask"}) \cup Asking \cup {"count", "finish", "ended"}
LEMMA NotPlaced == ASSUME NEW q \in Requests, stage[Main(q)] \in Unplaced PROVE Placed(q)
  BY DEF Placed, Unplaced, Before, Asking, Finishing

LEMMA PlacedOn ==
  ASSUME NEW q \in Requests, Placed(q), thread' = thread,
         stage'[Main(q)] \notin Unplaced =>
           /\ stage'[Main(q)] = stage[Main(q)] \/ (stage[Main(q)] = "stream" /\ stage'[Main(q)] \in Finishing \ {"keep"})
           /\ req'[q].last = req[q].last /\ note'[Main(q)] = note[Main(q)]
  PROVE  Placed(q)'
<1>1. CASE stage'[Main(q)] \in Unplaced
  BY <1>1 DEF Placed, Main, Unplaced, Before, Asking, Finishing
<1>2. CASE stage'[Main(q)] = stage[Main(q)] /\ stage'[Main(q)] \notin Unplaced
  BY <1>2 DEF Placed, Main, Below
<1>3. CASE stage[Main(q)] = "stream" /\ stage'[Main(q)] \in Finishing \ {"keep"} /\ stage'[Main(q)] \notin Unplaced
  <2>1. Len(thread) > 0 /\ thread[Len(thread)].sequence = req[q].last + 1
    BY <1>3 DEF Placed, Finishing
  <2>2. stage'[Main(q)] \notin {"ask", "renew", "keep", "store"} /\ req'[q].last = req[q].last
    BY <1>3 DEF Finishing
  <2>. QED BY <2>1, <2>2 DEF Placed, Main
<1>. QED BY <1>1, <1>2, <1>3

LEMMA PlacedBefore ==
  ASSUME ChatTypeOK, Len(thread) > 0, NEW r \in Requests, IsQuestion(Len(thread), r), thread' = thread,
         stage'[Main(r)] \in Finishing \ {"keep"}, req'[r].last = req[r].last
  PROVE  Placed(r)'
<1>1. stage'[Main(r)] \notin {"ask", "renew", "keep", "store"}
  BY DEF Finishing
<1>. QED BY <1>1 DEF Placed, IsQuestion, Main

LEMMA OrderByStep ==
  ASSUME ChatBase, ChatBase', LastIs, InOrderSoFar, [ChatNext]_chatVars
  PROVE  InOrderSoFar'
<1>. SUFFICES ASSUME history' \cap {"overlap", "left", "unheard"} = {}
              PROVE  /\ Ordered(thread', Page)
                     /\ \A q \in Requests : Placed(q)'
                     /\ (\A q \in Requests : stage'[Main(q)] \in Counted) /\ thread' /= <<>> => conversation'.count = Len(thread')
  BY DEF InOrderSoFar, Spared, AllAt, Main
<1>1. /\ history \subseteq history' /\ "unheard" \notin history' /\ "overlap" \notin history
      /\ Ordered(thread, Page)
      /\ \A r \in Requests : Placed(r)
      /\ AllAt(Counted) /\ thread /= <<>> => conversation.count = Len(thread)
      /\ \A r \in Requests : stage[Main(r)] \in Asking => Len(thread) > 0 /\ IsQuestion(Len(thread), r)
  <2>1. history \subseteq history'
    BY HistoryGrows
  <2>2. history \cap {"overlap", "unheard"} = {} /\ history \cap {"overlap", "left", "unheard"} = {}
    BY <2>1
  <2>. QED BY <2>1, <2>2 DEF InOrderSoFar, LastIs, Spared
<1>2. \A r \in Requests : stage[Closing(r)] = "ended"
  BY <1>1 DEF ChatBase, Apartness
<1>3. /\ thread \in Seq(Postings) /\ DOMAIN thread = 1 .. Len(thread) /\ Len(thread) \in Nat
      /\ \A i \in DOMAIN thread : thread[i].sequence \in Nat
  BY TheThread DEF ChatBase
<1>4. CASE Plain
  <2>1. ASSUME NEW q \in Requests PROVE Placed(q)'
    <3>1. PlainFor(q)
      BY <1>4 DEF Plain
    <3>2. CASE stage[Main(q)] \in {"summary", "rewrite"} /\ stage'[Main(q)] = "error"
      <4>1. stage[Main(q)] \in Asking /\ stage'[Main(q)] \in Finishing \ {"keep"} /\ req'[q].last = req[q].last
        BY <3>1, <3>2 DEF PlainFor, Asking, Finishing
      <4>. QED BY <1>1, <1>4, <4>1, PlacedBefore DEF ChatBase, Plain
    <3>3. CASE ~(stage[Main(q)] \in {"summary", "rewrite"} /\ stage'[Main(q)] = "error")
      <4>1. stage'[Main(q)] \notin Unplaced =>
               /\ stage'[Main(q)] = stage[Main(q)] \/ (stage[Main(q)] = "stream" /\ stage'[Main(q)] \in Finishing \ {"keep"})
               /\ req'[q].last = req[q].last /\ note'[Main(q)] = note[Main(q)]
        BY <3>1, <3>3 DEF PlainFor, PlainMoves, Unplaced, Before, Asking, Finishing
      <4>. QED BY <1>1, <1>4, <4>1, PlacedOn DEF Plain
    <3>. QED BY <3>2, <3>3
  <2>2. ASSUME NEW q \in Requests, stage'[Main(q)] \in Counted PROVE stage[Main(q)] \in Counted
    BY <1>4, <2>2 DEF Plain, PlainFor, PlainMoves, Counted, Before
  <2>. QED BY <1>1, <1>4, <2>1, <2>2 DEF Plain, AllAt
\* The handler of r moves: the others are at rest.
<1>5. ASSUME NEW r \in Requests, NEW from, NEW to, Moves(Main(r), from, to), from \notin {"new", "ended"}
      PROVE  /\ stage[Main(r)] = from /\ stage'[Main(r)] = to
             /\ \A q \in Requests : q /= r => stage'[Main(q)] \in {"new", "ended"} /\ Placed(q)'
  <2>1. stage[Main(r)] = from /\ stage'[Main(r)] = to
    BY <1>5 DEF Moves
  <2>2. ASSUME NEW q \in Requests, q /= r PROVE stage'[Main(q)] \in {"new", "ended"} /\ Placed(q)'
    <3>1. stage[Main(q)] \in {"new", "ended"}
      BY <1>1, <1>5, <2>1, <2>2, WorksAlone
    <3>2. stage'[Main(q)] = stage[Main(q)]
      BY <1>5, <2>2, TheTasks DEF Moves
    <3>3. stage'[Main(q)] \notin {"ask", "renew", "keep", "store"} \cup Finishing
      BY <3>1, <3>2 DEF Finishing
    <3>. QED BY <3>1, <3>2, <3>3 DEF Placed, Main
  <2>. QED BY <2>1, <2>2
\* A reply of r.
<1>6. ASSUME NEW r \in Requests, NEW kind, NEW n, Replies(Main(r), r, kind, n), stage[Main(r)] \notin {"new", "ended"},
             Len(thread) < Page => \A i \in DOMAIN thread : thread[i].sequence < n
      PROVE  /\ Ordered(thread', Page) /\ \A q \in Requests : Placed(q)'
             /\ ~(\A q \in Requests : stage'[Main(q)] \in Counted)
  <2>1. Ordered(thread', Page)
    BY <1>1, <1>6, OrderedMore DEF Replies, ChatBase
  <2>2. Moves(Main(r), stage[Main(r)], "count")
    BY <1>6 DEF Replies
  <2>3. stage'[Main(r)] = "count" /\ \A q \in Requests : q /= r => Placed(q)'
    BY <1>5, <1>6, <2>2
  <2>4. Placed(r)'
    BY <2>3 DEF Placed, Main, Finishing
  <2>5. "count" \notin Counted
    BY DEF Counted, Before
  <2>. QED BY <2>1, <2>3, <2>4, <2>5
<1>7. ASSUME NEW r \in Requests, Special(r)
      PROVE  /\ Ordered(thread', Page)
             /\ \A q \in Requests : Placed(q)'
             /\ (\A q \in Requests : stage'[Main(q)] \in Counted) /\ thread' /= <<>> => conversation'.count = Len(thread')
  <2>0. req[r].last \in Nat
    BY RequestIs DEF ChatBase
  <2>1. CASE FindLast(r)
    <3>1. /\ Moves(Main(r), "last", "ask") /\ req'[r].last = LastSequence
          /\ UNCHANGED <<thread, conversation>>
      BY <1>1, <2>1, FindLastDoes
    <3>2. stage[Main(r)] = "last" /\ stage'[Main(r)] = "ask" /\ \A q \in Requests : q /= r => stage'[Main(q)] \in {"new", "ended"} /\ Placed(q)'
      BY <1>5, <3>1
    <3>3. \A i \in DOMAIN thread : i <= Page => thread[i].sequence <= LastSequence
      BY LastSequenceIs DEF ChatBase
    <3>4. Len(thread) < Page => \A i \in DOMAIN thread : thread[i].sequence <= LastSequence
      BY <1>3, <3>3, Numbers
    <3>5. Placed(r)'
      BY <3>1, <3>2, <3>4 DEF Placed, Main, Below, Finishing
    <3>6. AllAt(Counted)
      <4>1. ASSUME NEW q \in Requests, q /= r PROVE stage[Main(q)] \in {"new", "ended"}
        BY <1>1, <3>2, <4>1, WorksAlone
      <4>. QED BY <3>2, <4>1 DEF AllAt, Counted, Before
    <3>. QED BY <1>1, <3>1, <3>2, <3>5, <3>6
  <2>2. CASE StoreQuestion(r)
    <3>1. /\ Moves(Main(r), "ask", "history") /\ req[r].last + 1 \in Nat
          /\ CreateMessage("user", r, "question", req[r].last + 1) /\ "user" \in Roles /\ "question" \in Kinds
      BY <1>1, <2>2, StoreQuestionDoes
    <3>2. stage[Main(r)] = "ask" /\ stage'[Main(r)] = "history" /\ \A q \in Requests : q /= r => Placed(q)'
      BY <1>5, <3>1
    <3>3. Below(req[r].last)
      BY <1>1, <3>2 DEF Placed
    <3>4. Len(thread) < Page => \A i \in DOMAIN thread : thread[i].sequence < req[r].last + 1
      BY <1>3, <2>0, <3>3 DEF Below
    <3>5. Ordered(thread', Page)
      BY <1>1, <3>1, <3>4, OrderedMore DEF ChatBase
    <3>6. Placed(r)'
      BY <3>2 DEF Placed, Main, Finishing
    <3>. QED BY <3>2, <3>5, <3>6 DEF Counted, Before
  <2>3. CASE ReadHistory(r)
    <3>1. /\ req'[r].last = req[r].last /\ thread' = thread
          /\ \E to \in {"error", "summary", "stream"} : Moves(Main(r), "history", to)
      BY <1>1, <2>3, ReadHistoryDoes
    <3>2. /\ stage[Main(r)] = "history" /\ stage'[Main(r)] \in {"error", "summary", "stream"}
          /\ \A q \in Requests : q /= r => Placed(q)'
      BY <1>5, <3>1
    <3>3. Len(thread) > 0 /\ IsQuestion(Len(thread), r)
      BY <1>1, <3>2 DEF Asking
    <3>4. Placed(r)'
      <4>1. CASE stage'[Main(r)] = "summary"
        BY <4>1 DEF Placed, Main, Finishing
      <4>2. CASE stage'[Main(r)] \in {"error", "stream"}
        <5>1. stage'[Main(r)] \in Finishing \ {"keep"}
          BY <4>2 DEF Finishing
        <5>. QED BY <3>1, <3>3, <5>1, PlacedBefore DEF ChatBase
      <4>. QED BY <3>2, <4>1, <4>2
    <3>. QED BY <1>1, <3>1, <3>2, <3>4 DEF Counted, Before
  <2>4. CASE (ReadForSummary(r) \/ Rewrite(r)) /\ ~Catch(r, "unsummarised")
    <3>1. thread' = thread /\ (Moves(Main(r), "summary", "rewrite") \/ Moves(Main(r), "rewrite", "remove"))
      BY <2>4, ReadForSummaryDoes, RewriteDoes
    <3>2. stage'[Main(r)] \in {"rewrite", "remove"} /\ \A q \in Requests : q /= r => Placed(q)'
      BY <1>5, <3>1
    <3>3. Placed(r)'
      BY <3>2 DEF Placed, Main, Finishing
    <3>. QED BY <1>1, <3>1, <3>2, <3>3 DEF Counted, Before
  <2>5. CASE RemoveQuestion(r)
    <3>1. /\ Moves(Main(r), "remove", "renew") /\ Alike(r)
          /\ thread' = Picked(thread, {m \in ToSet(thread) : m.id /= req[r].message})
      BY <1>1, <2>5, RemoveQuestionDoes
    <3>2. stage[Main(r)] = "remove" /\ stage'[Main(r)] = "renew" /\ \A q \in Requests : q /= r => Placed(q)'
      BY <1>5, <3>1
    <3>3. Len(thread) > 0 /\ IsQuestion(Len(thread), r)
      BY <1>1, <3>2 DEF Asking
    <3>4. thread' = SubSeq(thread, 1, Len(thread) - 1)
      BY <3>1, <3>3, RemovesLast DEF IsQuestion
    <3>5. /\ Len(thread') = Len(thread) - 1 /\ DOMAIN thread' = 1 .. Len(thread) - 1
          /\ \A i \in DOMAIN thread' : i \in DOMAIN thread /\ thread'[i] = thread[i]
      BY <3>3, <3>4, ThreadWithoutLast DEF ChatBase
    <3>6. Ordered(thread', Page)
      BY <1>1, <3>5 DEF Ordered
    <3>7. Len(thread') < Page => \A i \in DOMAIN thread' : thread'[i].sequence <= req[r].last
      <4>. SUFFICES ASSUME Len(thread) - 1 < Page, NEW i \in DOMAIN thread'
                    PROVE  thread[i].sequence <= req[r].last
        BY <3>5
      <4>1. Len(thread) <= Page /\ i < Len(thread) /\ i \in DOMAIN thread
        BY <1>3, <3>5, Numbers
      <4>2. thread[Len(thread)].sequence = req[r].last + 1
        BY <3>3 DEF IsQuestion
      <4>. QED BY <1>1, <2>0, <3>3, <4>1, <4>2, BelowLast DEF ChatBase
    <3>8. Placed(r)'
      BY <3>1, <3>2, <3>7 DEF Placed, Main, Below, Alike, Finishing
    <3>. QED BY <3>2, <3>6, <3>8 DEF Counted, Before
  <2>6. CASE RenewQuestion(r)
    <3>1. /\ Moves(Main(r), "renew", "stream") /\ Alike(r) /\ req[r].last + 1 \in Nat
          /\ CreateMessage("user", r, "question", req[r].last + 1) /\ "user" \in Roles /\ "question" \in Kinds
      BY <1>1, <2>6, RenewQuestionDoes
    <3>2. stage[Main(r)] = "renew" /\ stage'[Main(r)] = "stream" /\ \A q \in Requests : q /= r => Placed(q)'
      BY <1>5, <3>1
    <3>3. Below(req[r].last)
      BY <1>1, <3>2 DEF Placed
    <3>4. Len(thread) < Page => \A i \in DOMAIN thread : thread[i].sequence < req[r].last + 1
      BY <1>3, <2>0, <3>3 DEF Below
    <3>5. Ordered(thread', Page)
      BY <1>1, <3>1, <3>4, OrderedMore DEF ChatBase
    <3>6. Len(thread') > 0 /\ thread'[Len(thread')].sequence = req[r].last + 1
      <4>1. Len(thread') = Len(thread) + 1 /\ thread'[Len(thread) + 1].sequence = req[r].last + 1
        BY <3>1, Gives DEF ChatBase
      <4>. QED BY <1>3, <4>1
    <3>7. Placed(r)'
      BY <3>1, <3>2, <3>6 DEF Placed, Main, Finishing, Alike
    <3>. QED BY <3>2, <3>5, <3>7 DEF Counted, Before
  <2>7. CASE StoreAnswer(r) \/ StoreError(r)
    <3>1. PICK kind \in Kinds : Replies(Main(r), r, kind, req[r].last + 2)
      BY <1>1, <2>7, StoreAnswerDoes
    <3>2. stage[Main(r)] \in {"answer", "error"}
      BY <1>1, <2>7, StoreAnswerDoes
    <3>3. Len(thread) > 0 /\ thread[Len(thread)].sequence = req[r].last + 1
      BY <1>1, <3>2 DEF Placed, Finishing
    <3>4. Len(thread) < Page => \A i \in DOMAIN thread : thread[i].sequence < req[r].last + 2
      <4>. SUFFICES ASSUME Len(thread) < Page, NEW i \in DOMAIN thread PROVE thread[i].sequence < req[r].last + 2
        OBVIOUS
      <4>1. Len(thread) <= Page
        BY <1>3, Numbers
      <4>2. thread[i].sequence <= req[r].last + 1
        BY <1>1, <2>0, <3>3, <4>1, BelowLast DEF ChatBase
      <4>. QED BY <1>3, <2>0, <4>2
    <3>. QED BY <1>6, <3>1, <3>2, <3>4
  <2>. QED BY <1>7, <2>1, <2>2, <2>3, <2>4, <2>5, <2>6, <2>7 DEF Special
<1>8. ASSUME NEW t \in Tasks, KeepPartial(t) \/ Partial(t) \/ CountMessages(t) \/ StoreCount(t)
      PROVE  /\ Ordered(thread', Page)
             /\ \A q \in Requests : Placed(q)'
             /\ (\A q \in Requests : stage'[Main(q)] \in Counted) /\ thread' /= <<>> => conversation'.count = Len(thread')
  <2>1. PICK r \in Requests : t = Main(r) /\ t[1] = r
    <3>1. stage[t] /= "ended"
      BY <1>8 DEF KeepPartial, Partial, CountMessages, StoreCount
    <3>. QED BY <1>2, <3>1, TheTasks
  <2>2. CASE KeepPartial(t)
    <3>1. stage[Main(r)] = "keep" /\ Replies(Main(r), r, "partial", note[Main(r)])
      BY <1>1, <2>1, <2>2, KeepPartialDoes
    <3>2. note[Main(r)] > 0 /\ Below(note[Main(r)] - 1) /\ note[Main(r)] \in Nat
      BY <1>1, <2>1, <3>1, TypesAre DEF Placed, ChatBase
    <3>3. Len(thread) < Page => \A i \in DOMAIN thread : thread[i].sequence < note[Main(r)]
      BY <1>3, <3>2 DEF Below
    <3>. QED BY <1>6, <3>1, <3>3
  <2>3. CASE Partial(t) \/ CountMessages(t)
    <3>1. /\ UNCHANGED <<thread, conversation>>
          /\ \/ Moves(Main(r), "partial", "keep") /\ note'[Main(r)] = LastSequence + 2
             \/ Moves(Main(r), "count", "store") /\ note'[Main(r)] = Len(thread)
      BY <1>1, <2>1, <2>3, ReadingDoes
    <3>2. /\ \A q \in Requests : q /= r => Placed(q)'
          /\ \/ stage'[Main(r)] = "keep" /\ note'[Main(r)] = LastSequence + 2
             \/ stage'[Main(r)] = "store" /\ note'[Main(r)] = Len(thread)
      BY <1>5, <3>1
    <3>3. LastSequence \in Nat /\ \A i \in DOMAIN thread : i <= Page => thread[i].sequence <= LastSequence
      BY LastSequenceIs DEF ChatBase
    <3>4. Len(thread) < Page => \A i \in DOMAIN thread : thread[i].sequence <= (LastSequence + 2) - 1
      BY <1>3, <3>3, Numbers
    <3>5. LastSequence + 2 > 0
      BY <3>3
    <3>6. Placed(r)'
      BY <3>1, <3>2, <3>4, <3>5 DEF Placed, Main, Below, Finishing
    <3>. QED BY <1>1, <3>1, <3>2, <3>6 DEF Counted, Before
  <2>4. CASE StoreCount(t)
    <3>1. thread' = thread /\ Moves(Main(r), "store", "finish") /\ conversation'.count = note[Main(r)]
      BY <1>1, <2>1, <2>4, StoreCountDoes
    <3>2. /\ stage[Main(r)] = "store" /\ stage'[Main(r)] = "finish" /\ \A q \in Requests : q /= r => Placed(q)'
      BY <1>5, <3>1
    <3>3. note[Main(r)] = Len(thread)
      BY <1>1, <3>2 DEF Placed
    <3>4. Placed(r)'
      BY <3>2 DEF Placed, Main, Finishing
    <3>. QED BY <1>1, <3>1, <3>2, <3>3, <3>4
  <2>. QED BY <1>8, <2>2, <2>3, <2>4
<1>. QED BY <1>4, <1>7, <1>8, ChatSteps

\* Whoever numbers a message works alone between the number it reads and the
\* message it makes, and on the page that it reads is every message there is.
THEOREM ChatOrder == ChatSpec => []InOrder
<1>1. ChatInit => LastIs /\ InOrderSoFar
  BY LastStarts, OrderStarts
<1>2. ChatBase /\ LastIs /\ [ChatNext]_chatVars => LastIs'
  BY LastByStep
<1>3. ChatBase /\ ChatBase' /\ LastIs /\ InOrderSoFar /\ [ChatNext]_chatVars => InOrderSoFar'
  BY OrderByStep
<1>4. ChatBase /\ InOrderSoFar => InOrder
  <2>. SUFFICES ASSUME ChatBase, InOrderSoFar, Quiet, Spared({"overlap", "left", "unheard"}), Len(thread) <= Page
                PROVE  /\ \A i, j \in DOMAIN thread : i < j => thread[i].sequence < thread[j].sequence
                       /\ thread /= <<>> => conversation.count = Len(thread)
    BY DEF InOrder
  <2>1. AllAt(Counted)
    BY DEF Quiet, Busy, Open, AllAt, Counted, Before
  <2>2. \A j \in DOMAIN thread : j <= Page
    BY TheThread, Numbers DEF ChatBase
  <2>. QED BY <2>1, <2>2 DEF InOrderSoFar, Ordered
<1>. QED BY <1>1, <1>2, <1>3, <1>4, ChatInvariant, PTL DEF ChatSpec

-----------------------------------------------------------------------------
(* What the history leaves out is in the summary                            *)

LEMMA LimitKept == ASSUME [ChatNext]_chatVars PROVE limit' = limit
<1>1. CASE UNCHANGED chatVars
  BY <1>1 DEF chatVars
<1>2. CASE \E r \in Requests : Begin(r) \/ Say(r) \/ Leave(r) \/ LeaveAtEnd(r)
  BY <1>2 DEF Begin, Say, Leave, LeaveAtEnd, settings
<1>3. CASE \E i \in Instances : Cancel(i) \/ Deliver(i)
  BY <1>3 DEF Cancel, Deliver, settings
<1>4. CASE \E r \in Requests : Handle(r)
  BY <1>4 DEF Handle, Config, FindLast, StoreQuestion, ReadHistory, ReadForSummary, Rewrite, RemoveQuestion,
              RenewQuestion, ModelAnswers, Fail, StoreAnswer, StoreError, Catch, GiveUp, settings
<1>5. CASE \E t \in Tasks : Work(t)
  BY <1>5 DEF Work, Partial, KeepPartial, CountMessages, StoreCount, Finish, GiveUp, settings
<1>. QED BY <1>1, <1>2, <1>3, <1>4, <1>5 DEF ChatNext, Environment

\* A summary that was begun is made, if the step is not excused.
LEMMA Persists ==
  ASSUME ChatBase, [ChatNext]_chatVars, "unheard" \notin history', "unsummarised" \notin history',
         NEW q \in Requests, stage[Main(q)] \in {"summary", "rewrite"}
  PROVE  stage'[Main(q)] \in {"summary", "rewrite", "remove"}
<1>0. ASSUME NEW t \in Tasks, t /= Main(q), \E label : Goto(t, label) PROVE stage'[Main(q)] = stage[Main(q)]
  BY <1>0, TheTasks, Going DEF ChatBase
<1>1. CASE UNCHANGED chatVars
  BY <1>1 DEF chatVars
<1>2. CASE \E r \in Requests : Begin(r) \/ Say(r) \/ Leave(r) \/ LeaveAtEnd(r)
  <2>1. PICK r \in Requests : Begin(r) \/ Say(r) \/ Leave(r) \/ LeaveAtEnd(r)
    BY <1>2
  <2>2. CASE Begin(r)
    <3>1. stage[Main(r)] = "new" /\ \E label : Goto(Main(r), label)
      BY <2>2 DEF Begin
    <3>. QED BY <1>0, <3>1, TheTasks
  <2>3. CASE Say(r)
    BY <2>3 DEF Say
  <2>4. CASE Leave(r)
    <3>1. \E label : Goto(Closing(r), label)
      BY <2>4 DEF Leave
    <3>. QED BY <1>0, <3>1, TheTasks
  <2>5. CASE LeaveAtEnd(r)
    <3>1. Main(q) /= Main(r) /\ Main(q) /= Closing(r)
      BY <2>5, TheTasks DEF LeaveAtEnd
    <3>2. stage \in [Tasks -> Stages] /\ Main(q) \in Tasks
      BY TypesAre, TheTasks DEF ChatBase
    <3>3. stage'[Main(q)] = stage[Main(q)]
      BY <2>5, <3>1, <3>2 DEF LeaveAtEnd
    <3>. QED BY <3>3
  <2>. QED BY <2>1, <2>2, <2>3, <2>4, <2>5
<1>3. CASE \E i \in Instances : Cancel(i) \/ Deliver(i)
  BY <1>3 DEF Cancel, Deliver
<1>4. CASE \E r \in Requests : Handle(r)
  <2>1. PICK r \in Requests : Handle(r)
    BY <1>4
  <2>2. CASE Main(q) /= Main(r)
    <3>1. \E label : Goto(Main(r), label)
      BY <2>1 DEF Handle, Config, FindLast, StoreQuestion, ReadHistory, ReadForSummary, Rewrite, RemoveQuestion,
                  RenewQuestion, ModelAnswers, Fail, StoreAnswer, StoreError, Catch, GiveUp
    <3>. QED BY <1>0, <2>2, <3>1, TheTasks
  <2>3. CASE Main(q) = Main(r)
    <3>1. ReadForSummary(r) \/ Rewrite(r)
      BY <2>1, <2>3 DEF Handle, Config, FindLast, StoreQuestion, ReadHistory, RemoveQuestion,
                  RenewQuestion, ModelAnswers, Fail, StoreAnswer, StoreError
    <3>2. ~Catch(r, "unsummarised")
      BY MishapIs DEF Catch, Kept, ChatBase
    <3>3. Moves(Main(r), "summary", "rewrite") \/ Moves(Main(r), "rewrite", "remove")
      BY <3>1, <3>2, ReadForSummaryDoes, RewriteDoes
    <3>. QED BY <2>3, <3>3 DEF Moves
  <2>. QED BY <2>2, <2>3
<1>5. CASE \E t \in Tasks : Work(t)
  <2>1. PICK t \in Tasks : Work(t)
    BY <1>5
  <2>2. stage[t] \notin {"summary", "rewrite"} /\ \E label : Goto(t, label)
    BY <2>1 DEF Work, Partial, KeepPartial, CountMessages, StoreCount, Finish, GiveUp
  <2>. QED BY <1>0, <2>2, TheTasks
<1>. QED BY <1>1, <1>2, <1>3, <1>4, <1>5 DEF ChatNext, Environment

LEMMA Parity ==
  ASSUME NEW n \in Nat
  PROVE  /\ n % 2 \in {0, 1} /\ (n % 2 = 0 <=> (n + 1) % 2 = 1) /\ 0 % 2 = 0
         /\ n > 0 => (n % 2 = 1 <=> (n - 1) % 2 = 0)
  OBVIOUS

LEMMA CoveredStarts == ChatInit => Covered
<1>. SUFFICES ASSUME ChatInit PROVE CoveredBy(0) /\ 0 \in 0 .. Len(thread)
  BY DEF Covered
<1>1. \A r \in Requests : stage[Main(r)] = "new"
  <2>1. \A r \in Requests : Main(r) \in Tasks /\ Main(r)[2] = "main"
    BY TheTasks DEF Main
  <2>. QED BY <2>1 DEF ChatInit
<1>2. thread = <<>> /\ Len(thread) = 0
  BY DEF ChatInit
<1>3. limit \in Nat
  BY StartsBase, TypesAre DEF ChatBase
<1>4. Split(0) /\ Summarised(0) /\ Alternates
  BY <1>2 DEF ChatInit, Split, Summarised, Alternates
<1>5. Unsummarised(0, 0, limit)
  BY <1>3, Parity DEF Unsummarised
<1>6. \A r \in Requests : Within(r, 0)
  BY <1>1 DEF Within, Finishing
<1>. QED BY <1>2, <1>4, <1>5, <1>6, Parity DEF CoveredBy

\* A message more.
LEMMA CoveredMore ==
  ASSUME ChatBase, NEW role \in Roles, NEW r \in Requests, NEW kind \in Kinds, NEW number \in Nat,
         CreateMessage(role, r, kind, number), conversation'.since = conversation.since,
         conversation'.summary = conversation.summary, limit' = limit,
         NEW k \in 0 .. Len(thread), Split(k), Summarised(k), Alternates,
         role = IF Len(thread) % 2 = 0 THEN "user" ELSE "assistant",
         k = 0 \/ k < Len(thread) \/ <<role, r>> \in conversation.summary
  PROVE  /\ Split(k)' /\ Summarised(k)' /\ Alternates' /\ Len(thread') = Len(thread) + 1
         /\ Len(thread) \in Nat
<1>. DEFINE n == Len(thread)
            m == Message(role, r, kind, number)
<1>1. /\ Len(thread') = n + 1
      /\ \A i \in DOMAIN thread : thread'[i] = thread[i]
  BY Gives DEF ChatBase
<1>2. m.id = serial + 1 /\ m.role = role /\ m.of = r /\ thread'[n + 1] = m
  BY Gives DEF ChatBase
<1>3. n \in Nat /\ DOMAIN thread = 1 .. n
  BY TheThread DEF ChatBase
<1>4. serial \in Nat /\ conversation.since \in Nat /\ conversation.since <= serial /\ serial' = serial + 1
  BY TypesAre DEF ChatBase, Split, Conversations, CreateMessage
<1>. HIDE DEF m
<1>5. \A i \in 1 .. n : thread'[i] = thread[i]
  BY <1>1, <1>3
<1>6. Split(k)'
  <2>1. \A i \in 1 .. k : i \in 1 .. n /\ thread[i].id <= conversation.since
    BY <1>3 DEF Split
  <2>2. ASSUME NEW i \in k + 1 .. n + 1 PROVE thread'[i].id > conversation.since
    <3>1. CASE i = n + 1
      BY <1>2, <1>4, <3>1
    <3>2. CASE i /= n + 1
      <4>1. i \in k + 1 .. n /\ i \in 1 .. n
        BY <1>3, <3>2
      <4>2. thread[i].id > conversation.since
        BY <4>1 DEF Split
      <4>. QED BY <1>5, <4>1, <4>2
    <3>. QED BY <3>1, <3>2
  <2>3. \A i \in 1 .. k : thread'[i].id <= conversation.since
    BY <1>5, <2>1
  <2>4. conversation'.since <= serial'
    BY <1>4
  <2>. HIDE DEF n
  <2>. QED BY <1>1, <2>2, <2>3, <2>4 DEF Split
<1>7. Summarised(k)'
  <2>1. \A i \in 1 .. k : i \in 1 .. n
    BY <1>3
  <2>2. \A i \in 1 .. k : Fact(thread'[i]) \in conversation.summary \/ (i = 1 /\ limit % 2 = 0)
    BY <1>5, <2>1 DEF Summarised, Fact
  <2>3. ASSUME 0 < k PROVE Fact(thread'[k + 1]) \in conversation.summary
    <3>1. CASE k < n
      <4>1. k + 1 \in 1 .. n
        BY <1>3, <3>1
      <4>2. Fact(thread[k + 1]) \in conversation.summary
        BY <2>3, <3>1 DEF Summarised
      <4>. QED BY <1>5, <4>1, <4>2 DEF Fact
    <3>2. CASE k = n
      BY <1>2, <1>3, <2>3, <3>2 DEF Fact
    <3>. QED BY <1>3, <3>1, <3>2
  <2>. QED BY <2>2, <2>3 DEF Summarised, Fact
<1>8. Alternates'
  <2>1. ASSUME NEW i \in 1 .. n + 1 PROVE thread'[i].role = IF i % 2 = 1 THEN "user" ELSE "assistant"
    <3>1. CASE i = n + 1
      <4>1. n % 2 = 0 <=> (n + 1) % 2 = 1
        BY <1>3, Parity
      <4>. QED BY <1>2, <3>1, <4>1
    <3>2. CASE i /= n + 1
      <4>1. i \in 1 .. n
        BY <1>3, <3>2
      <4>. QED BY <1>5, <4>1 DEF Alternates
    <3>. QED BY <3>1, <3>2
  <2>. QED BY <1>1, <2>1 DEF Alternates
<1>. QED BY <1>1, <1>3, <1>6, <1>7, <1>8

\* What the summary reads.
LEMMA ReadsLast ==
  ASSUME ChatBase
  PROVE  \A i \in 1 .. Len(thread) : i > Len(thread) - limit => thread[i] \in ToSet(Recent(0))
<1>1. /\ thread \in Seq(Postings) /\ Len(thread) \in Nat /\ DOMAIN thread = 1 .. Len(thread)
      /\ limit \in Nat
  BY TheThread, TypesAre DEF ChatBase
<1>2. PICK k \in 0 .. Len(thread) :
           /\ \A i \in DOMAIN thread : thread[i].id > 0 <=> k < i
           /\ Recent(0) = LastOf(SubSeq(thread, k + 1, Len(thread)), limit)
  BY RecentIs
<1>3. k = 0
  <2>. SUFFICES ASSUME k > 0 PROVE FALSE
    BY <1>1
  <2>1. k \in DOMAIN thread /\ ~(k < k)
    BY <1>1
  <2>2. thread[k].id > 0
    <3>1. 0 < thread[k].id /\ thread[k].id \in Nat
      BY <2>1, TheThread DEF ChatBase, Dated
    <3>. QED BY <3>1
  <2>. QED BY <1>2, <2>1, <2>2
<1>4. SubSeq(thread, k + 1, Len(thread)) = thread
  BY <1>1, <1>3, SubSeqFull
<1>. QED BY <1>1, <1>2, <1>4, LastOfType

\* Nothing that is left out is forgotten by the next summary.
LEMMA SummaryReaches ==
  ASSUME NEW n \in Nat, NEW k \in 0 .. n, NEW most \in Nat \ {0}, n % 2 = 1, Unsummarised(n, k, most + 1),
         NEW i \in 1 .. n, ~(i <= k), ~(i > n - most)
  PROVE  i = k + 1 /\ (k = 0 => most % 2 = 0)
<1>1. k % 2 = 0 /\ n - k <= most + 1
  BY DEF Unsummarised
<1>2. i = k + 1 /\ n = k + 1 + most
  BY <1>1
<1>3. k = 0 => (most + 1) % 2 = 1
  BY <1>2
<1>4. most % 2 = 0 <=> (most + 1) % 2 = 1
  BY Parity
<1>. QED BY <1>2, <1>3, <1>4

LEMMA CoveredByStep ==
  ASSUME ChatBase, ChatBase', LastIs, Covered, [ChatNext]_chatVars
  PROVE  Covered'
<1>0. limit' = limit
  BY LimitKept
<1>. SUFFICES ASSUME history' \cap {"overlap", "left", "unheard", "unsummarised", "clock"} = {}, limit > 1
              PROVE  \E k \in 0 .. Len(thread') : CoveredBy(k)'
  BY <1>0 DEF Covered, Spared
<1>1. /\ history \subseteq history' /\ "unheard" \notin history' /\ "unsummarised" \notin history' /\ "overlap" \notin history
      /\ "clock" \notin history'
      /\ \E k \in 0 .. Len(thread) : CoveredBy(k)
      /\ \A r \in Requests : stage[Main(r)] \in Asking => Len(thread) > 0 /\ IsQuestion(Len(thread), r)
  <2>1. history \subseteq history'
    BY HistoryGrows
  <2>2. history \cap {"overlap", "unheard"} = {} /\ history \cap {"overlap", "left", "unheard", "unsummarised", "clock"} = {}
    BY <2>1
  <2>. QED BY <2>1, <2>2 DEF Covered, LastIs, Spared
<1>2. \A r \in Requests : stage[Closing(r)] = "ended"
  BY <1>1 DEF ChatBase, Apartness
<1>3. PICK k \in 0 .. Len(thread) : CoveredBy(k)
  BY <1>1
<1>. DEFINE n == Len(thread)
            here == /\ Split(k) /\ Summarised(k) /\ Alternates
            next == /\ Split(k)' /\ Summarised(k)' /\ Alternates'
<1>4. /\ n \in Nat /\ DOMAIN thread = 1 .. n /\ thread \in Seq(Postings) /\ limit \in Nat \ {0} /\ k \in Nat
      /\ \A i \in DOMAIN thread : thread[i] \in Postings
  BY TheThread, TypesAre DEF ChatBase
<1>5. /\ here
      /\ AllAt(Paused) => n % 2 = 0 /\ Unsummarised(n, k, limit)
      /\ \A r \in Requests : Within(r, k)
  BY <1>3 DEF CoveredBy
<1>. HIDE DEF n
\* The same messages and the same summary.
<1>6. ASSUME thread' = thread, serial' = serial, conversation'.since = conversation.since,
             conversation'.summary = conversation.summary
      PROVE  next
  BY <1>0, <1>5, <1>6 DEF Split, Summarised, Alternates, Fact
<1>7. ASSUME thread' = thread, conversation'.since = conversation.since, conversation'.summary = conversation.summary,
             NEW q \in Requests, stage'[Main(q)] = stage[Main(q)],
             stage[Main(q)] \notin {"new", "ended"} => req'[q].since = req[q].since /\ req'[q].covers = req[q].covers
      PROVE  Within(q, k)'
  <2>1. Within(q, k)
    BY <1>5
  <2>2. CASE stage[Main(q)] \in {"new", "ended"}
    BY <1>7, <2>2 DEF Within, Main, Finishing
  <2>3. CASE stage[Main(q)] \notin {"new", "ended"}
    BY <1>0, <1>7, <2>1, <2>3 DEF Within, Main, Fact
  <2>. QED BY <2>2, <2>3
<1>8. CASE Plain
  <2>1. thread' = thread /\ serial' = serial /\ conversation' = conversation
    BY <1>8 DEF Plain
  <2>2. ASSUME NEW q \in Requests PROVE Within(q, k)'
    <3>1. PlainFor(q)
      BY <1>8 DEF Plain
    <3>2. CASE stage'[Main(q)] = stage[Main(q)]
      <4>1. stage[Main(q)] \notin {"new", "ended"} => req'[q].since = req[q].since /\ req'[q].covers = req[q].covers
        BY <3>1, <3>2 DEF PlainFor
      <4>. QED BY <1>7, <2>1, <3>2, <4>1
    <3>3. CASE stage'[Main(q)] /= stage[Main(q)]
      <4>1. <<stage[Main(q)], stage'[Main(q)]>> \in PlainMoves /\ stage[Main(q)] \notin {"summary", "rewrite"}
        <5>1. <<stage[Main(q)], stage'[Main(q)]>> \in PlainMoves
          BY <3>1, <3>3 DEF PlainFor
        <5>. QED BY <1>1, <5>1, Persists DEF PlainMoves
      <4>2. CASE stage'[Main(q)] = "config"
        <5>1. stage[Main(q)] = "new"
          BY <4>1, <4>2 DEF PlainMoves
        <5>2. req'[q].since = conversation'.since
          BY <2>1, <3>1, <4>2, <5>1 DEF PlainFor
        <5>. QED BY <4>2, <5>2 DEF Within, Main, Finishing
      <4>3. CASE stage'[Main(q)] = "last"
        <5>1. stage[Main(q)] = "config" /\ req'[q].since = req[q].since
          BY <3>1, <4>1, <4>3 DEF PlainFor, PlainMoves
        <5>2. req[q].since = conversation.since
          BY <1>5, <5>1 DEF Within
        <5>. QED BY <2>1, <4>3, <5>1, <5>2 DEF Within, Main, Finishing
      <4>4. CASE stage'[Main(q)] \in {"finish", "ended"}
        BY <4>4 DEF Within, Main, Finishing
      <4>5. CASE stage'[Main(q)] \in {"answer", "partial", "error"}
        <5>1. stage[Main(q)] = "stream"
          BY <4>1, <4>5 DEF PlainMoves
        <5>2. n % 2 = 1 /\ Unsummarised(n, k, limit - 1)
          BY <1>5, <5>1 DEF Within, Finishing, n
        <5>3. stage'[Main(q)] \notin {"config", "last", "ask", "history", "summary", "rewrite", "remove", "renew"}
          BY <4>5
        <5>. QED BY <1>0, <2>1, <5>2, <5>3 DEF Within, Main, n
      <4>. QED BY <4>1, <4>2, <4>3, <4>4, <4>5 DEF PlainMoves
    <3>. QED BY <3>2, <3>3
  <2>3. ASSUME NEW q \in Requests, stage'[Main(q)] \in Paused PROVE stage[Main(q)] \in Paused
    <3>1. PlainFor(q)
      BY <1>8 DEF Plain
    <3>. QED BY <2>3, <3>1 DEF PlainFor, PlainMoves, Paused, Before
  <2>4. AllAt(Paused)' => n % 2 = 0 /\ Unsummarised(n, k, limit)
    BY <1>5, <2>3 DEF AllAt, Main
  <2>5. CoveredBy(k)'
    <3>1. next
      BY <1>6, <2>1
    <3>. QED BY <1>0, <2>1, <2>2, <2>4, <3>1 DEF CoveredBy, n
  <2>. QED BY <2>1, <2>5
\* The handler of r moves: the others are at rest.
<1>9. ASSUME NEW r \in Requests, NEW from, NEW to, Moves(Main(r), from, to), from \notin {"new", "ended"}
      PROVE  /\ stage[Main(r)] = from /\ stage'[Main(r)] = to
             /\ \A q \in Requests, j \in Nat : q /= r => Within(q, j)'
             /\ from \in Paused => n % 2 = 0 /\ Unsummarised(n, k, limit)
  <2>1. stage[Main(r)] = from /\ stage'[Main(r)] = to
    BY <1>9 DEF Moves
  <2>2. \A q \in Requests : q /= r => stage[Main(q)] \in {"new", "ended"}
    BY <1>1, <1>9, <2>1, WorksAlone
  <2>3. ASSUME NEW q \in Requests, NEW j \in Nat, q /= r PROVE Within(q, j)'
    <3>1. stage'[Main(q)] \in {"new", "ended"}
      BY <1>9, <2>2, <2>3, TheTasks DEF Moves
    <3>. QED BY <3>1 DEF Within, Main, Finishing
  <2>4. ASSUME from \in Paused PROVE AllAt(Paused)
    BY <2>1, <2>2, <2>4 DEF AllAt, Paused, Before
  <2>. QED BY <1>5, <2>1, <2>3, <2>4
\* A reply of r.
<1>10. ASSUME NEW r \in Requests, NEW kind, NEW number, Replies(Main(r), r, kind, number), stage[Main(r)] \in Finishing
       PROVE  \E j \in 0 .. Len(thread') : CoveredBy(j)'
  <2>1. Moves(Main(r), stage[Main(r)], "count") /\ stage[Main(r)] \notin {"new", "ended"}
    BY <1>10 DEF Replies, Finishing
  <2>2. stage'[Main(r)] = "count" /\ \A q \in Requests : q /= r => Within(q, k)'
    BY <1>4, <1>9, <2>1
  <2>3. n % 2 = 1 /\ Unsummarised(n, k, limit - 1)
    BY <1>5, <1>10 DEF Within, n
  <2>4. k = 0 \/ k < n
    BY <2>3 DEF Unsummarised
  <2>5. next /\ Len(thread') = n + 1
    <3>1. "assistant" = IF n % 2 = 0 THEN "user" ELSE "assistant"
      BY <2>3
    <3>2. /\ CreateMessage("assistant", r, kind, number) /\ "assistant" \in Roles /\ kind \in Kinds /\ number \in Nat
          /\ UNCHANGED conversation
      BY <1>10 DEF Replies
    <3>. QED BY <1>0, <1>3, <1>5, <2>4, <3>1, <3>2, CoveredMore DEF n
  <2>6. (n + 1) % 2 = 0 /\ Unsummarised(n + 1, k, limit)
    <3>1. (n + 1) % 2 \in {0, 1} /\ ~((n + 1) % 2 = 1)
      BY <1>4, <2>3, Parity
    <3>. QED BY <1>4, <2>3, <3>1 DEF Unsummarised
  <2>7. Within(r, k)'
    BY <2>2 DEF Within, Main, Finishing
  <2>8. CoveredBy(k)'
    BY <1>0, <2>2, <2>5, <2>6, <2>7 DEF CoveredBy
  <2>. QED BY <1>4, <2>5, <2>8 DEF n
\* Nothing but the stage.
<1>11. ASSUME NEW r \in Requests, NEW from, NEW to, Moves(Main(r), from, to), from \notin {"new", "ended"},
              thread' = thread, serial' = serial,
              conversation'.since = conversation.since, conversation'.summary = conversation.summary,
              to \in Paused => from \in Paused, Within(r, k)'
       PROVE  \E j \in 0 .. Len(thread') : CoveredBy(j)'
  <2>1. /\ stage'[Main(r)] = to /\ \A q \in Requests : q /= r => Within(q, k)'
        /\ from \in Paused => n % 2 = 0 /\ Unsummarised(n, k, limit)
    BY <1>4, <1>9, <1>11
  <2>2. next
    BY <1>6, <1>11
  <2>3. AllAt(Paused)' => to \in Paused
    BY <2>1 DEF AllAt, Main
  <2>4. CoveredBy(k)'
    BY <1>0, <1>11, <2>1, <2>2, <2>3 DEF CoveredBy, n
  <2>. QED BY <1>3, <1>11, <2>4
<1>12. ASSUME NEW r \in Requests, Special(r) PROVE \E j \in 0 .. Len(thread') : CoveredBy(j)'
  <2>1. CASE FindLast(r)
    <3>1. Moves(Main(r), "last", "ask") /\ req'[r].since = req[r].since /\ UNCHANGED <<thread, serial, conversation>>
      BY <1>1, <2>1, FindLastDoes
    <3>2. stage[Main(r)] = "last" /\ stage'[Main(r)] = "ask"
      BY <1>9, <3>1
    <3>3. req[r].since = conversation.since
      BY <1>5, <3>2 DEF Within
    <3>4. Within(r, k)'
      BY <3>1, <3>2, <3>3 DEF Within, Main, Finishing
    <3>5. "last" \in Paused
      BY DEF Paused, Before
    <3>. QED BY <1>11, <3>1, <3>4, <3>5
  <2>2. CASE StoreQuestion(r)
    <3>1. /\ Moves(Main(r), "ask", "history") /\ req[r].last + 1 \in Nat
          /\ CreateMessage("user", r, "question", req[r].last + 1) /\ "user" \in Roles /\ "question" \in Kinds
          /\ req'[r].since = req[r].since /\ UNCHANGED conversation
      BY <1>1, <2>2, StoreQuestionDoes
    <3>2. "ask" \in Paused /\ "history" \notin Paused
      BY DEF Paused, Before
    <3>3. /\ stage[Main(r)] = "ask" /\ stage'[Main(r)] = "history" /\ \A q \in Requests : q /= r => Within(q, k)'
          /\ n % 2 = 0 /\ Unsummarised(n, k, limit)
      BY <1>4, <1>9, <3>1, <3>2
    <3>4. next /\ Len(thread') = n + 1
      <4>1. k = 0 \/ k < n
        BY <3>3 DEF Unsummarised
      <4>2. "user" = IF n % 2 = 0 THEN "user" ELSE "assistant"
        BY <3>3
      <4>. QED BY <1>0, <1>3, <1>5, <3>1, <4>1, <4>2, CoveredMore DEF n
    <3>5. req[r].since = conversation.since
      BY <1>5, <3>3 DEF Within
    <3>6. (n + 1) % 2 = 1 /\ Unsummarised(n + 1, k, limit + 1)
      <4>1. (n + 1) % 2 = 1
        BY <1>4, <3>3, Parity
      <4>. QED BY <1>4, <3>3, <4>1 DEF Unsummarised
    <3>7. Within(r, k)'
      BY <1>0, <3>1, <3>3, <3>4, <3>5, <3>6 DEF Within, Main, Finishing
    <3>8. ~AllAt(Paused)'
      BY <3>2, <3>3 DEF AllAt, Main
    <3>9. CoveredBy(k)'
      BY <3>3, <3>4, <3>7, <3>8 DEF CoveredBy
    <3>. QED BY <1>4, <3>4, <3>9 DEF n
  <2>3. CASE ReadHistory(r)
    <3>1. /\ req'[r].since = req[r].since /\ UNCHANGED <<thread, serial, conversation>>
          /\ \/ Moves(Main(r), "history", "error") /\ Last(View(r)).role /= "user"
             \/ Moves(Main(r), "history", IF Len(View(r)) >= limit THEN "summary" ELSE "stream")
      BY <1>1, <2>3, ReadHistoryDoes
    <3>2. stage[Main(r)] = "history"
      BY <3>1 DEF Moves
    <3>3. /\ n % 2 = 1 /\ Unsummarised(n, k, limit + 1) /\ req[r].since = conversation.since
      BY <1>5, <3>2 DEF Within, n
    <3>4. k < n
      BY <1>4, <3>3 DEF Unsummarised
    <3>5. n > 0 /\ thread[n].id = req[r].message /\ thread[n].role = "user"
      BY <1>1, <3>2 DEF Asking, IsQuestion, n
    <3>6. \A i \in DOMAIN thread : thread[i].id > req[r].since <=> k < i
      <4>. SUFFICES ASSUME NEW i \in DOMAIN thread PROVE thread[i].id > req[r].since <=> k < i
        OBVIOUS
      <4>0. thread[i].id \in Nat /\ conversation.since \in Nat /\ i \in 1 .. n
        BY <1>4, TypesAre DEF Postings, ChatBase, Conversations
      <4>1. CASE i <= k
        BY <1>4, <1>5, <3>3, <4>0, <4>1 DEF Split
      <4>2. CASE ~(i <= k)
        <5>1. i \in k + 1 .. Len(thread)
          BY <1>4, <4>0, <4>2 DEF n
        <5>2. thread[i].id > conversation.since
          BY <1>5, <5>1 DEF Split
        <5>. QED BY <1>4, <3>3, <4>0, <4>2, <5>2
      <4>. QED BY <4>1, <4>2
    <3>. DEFINE further == SubSeq(thread, k + 1, n)
    <3>7. Suffix(View(r), thread) /\ View(r) = LastOf(further, limit)
      BY <1>3, <3>4, <3>5, <3>6, ViewIs DEF n
    <3>8. View(r) \in Seq(Postings) /\ Len(View(r)) \in 1 .. n /\ View(r)[Len(View(r))] = thread[n]
      BY <1>4, <3>7, SuffixEnds DEF n
    <3>9. Last(View(r)).role = "user"
      BY <3>5, <3>8 DEF Last
    <3>10. Len(View(r)) = IF n - k > limit THEN limit ELSE n - k
      <4>1. k + 1 \in Int /\ n \in Int /\ \A i \in k + 1 .. n : thread[i] \in Postings
        BY <1>4
      <4>2. further \in Seq(Postings) /\ Len(further) = IF k + 1 <= n THEN n - (k + 1) + 1 ELSE 0
        BY <4>1, SubSeqProperties
      <4>3. Len(further) = n - k
        BY <1>4, <3>4, <4>2
      <4>. HIDE DEF further
      <4>4. limit \in Nat
        BY <1>4
      <4>5. Len(LastOf(further, limit)) = IF Len(further) > limit THEN limit ELSE Len(further)
        BY <4>2, <4>4, LastOfType
      <4>. QED BY <3>7, <4>3, <4>5
    <3>11. Moves(Main(r), "history", IF Len(View(r)) >= limit THEN "summary" ELSE "stream")
      BY <3>1, <3>9
    <3>. HIDE DEF further
    <3>12. CASE Len(View(r)) >= limit
      <4>1. limit <= n - k
        BY <1>4, <3>4, <3>10, <3>12
      <4>2. Moves(Main(r), "history", "summary")
        BY <3>11, <3>12
      <4>3. stage'[Main(r)] = "summary"
        BY <4>2 DEF Moves
      <4>4. Within(r, k)'
        BY <1>0, <3>1, <3>3, <4>1, <4>3 DEF Within, Main, Finishing, n
      <4>5. "summary" \notin Paused
        BY DEF Paused, Before
      <4>. QED BY <1>11, <3>1, <4>2, <4>4, <4>5
    <3>13. CASE ~(Len(View(r)) >= limit)
      <4>1. n - k <= limit - 1
        BY <1>4, <3>4, <3>10, <3>13
      <4>2. Moves(Main(r), "history", "stream")
        BY <3>11, <3>13
      <4>3. stage'[Main(r)] = "stream"
        BY <4>2 DEF Moves
      <4>4. Unsummarised(n, k, limit - 1)
        BY <3>3, <4>1 DEF Unsummarised
      <4>5. Within(r, k)'
        BY <1>0, <3>1, <3>3, <4>3, <4>4 DEF Within, Main, n
      <4>6. "stream" \notin Paused
        BY DEF Paused, Before
      <4>. QED BY <1>11, <3>1, <4>2, <4>5, <4>6
    <3>. QED BY <3>12, <3>13
  <2>4. CASE ReadForSummary(r) /\ ~Catch(r, "unsummarised")
    <3>1. /\ Moves(Main(r), "summary", "rewrite") /\ UNCHANGED <<thread, serial, conversation>>
          /\ req'[r].covers = {Fact(m) : m \in ToSet(Recent(0))} \cup {<<"user", r>>} \cup conversation.summary
      BY <2>4, ReadForSummaryDoes
    <3>2. stage[Main(r)] = "summary" /\ stage'[Main(r)] = "rewrite"
      BY <3>1 DEF Moves
    <3>3. n % 2 = 1 /\ Unsummarised(n, k, limit + 1) /\ limit <= n - k
      BY <1>5, <3>2 DEF Within, n
    <3>4. \A i \in 1 .. n : i > n - limit => Fact(thread[i]) \in req'[r].covers
      BY <3>1, ReadsLast DEF n
    <3>5. conversation.summary \subseteq req'[r].covers /\ <<"user", r>> \in req'[r].covers
      BY <3>1
    <3>6. Within(r, k)'
      BY <1>0, <3>1, <3>2, <3>3, <3>4, <3>5 DEF Within, Main, Finishing, Fact, n
    <3>7. "rewrite" \notin Paused
      BY DEF Paused, Before
    <3>. QED BY <1>11, <3>1, <3>6, <3>7
  <2>5. CASE Rewrite(r) /\ ~Catch(r, "unsummarised")
    <3>1. /\ Moves(Main(r), "rewrite", "remove") /\ thread' = thread
          /\ conversation'.summary = req[r].covers /\ conversation'.since = serial /\ serial' = serial
      BY <1>1, <2>5, RewriteDoes
    <3>2. /\ stage[Main(r)] = "rewrite" /\ stage'[Main(r)] = "remove"
          /\ \A q \in Requests, j \in Nat : q /= r => Within(q, j)'
      BY <1>9, <3>1
    <3>3. /\ n % 2 = 1 /\ Unsummarised(n, k, limit + 1)
          /\ conversation.summary \subseteq req[r].covers /\ <<"user", r>> \in req[r].covers
          /\ \A i \in 1 .. n : i > n - limit => Fact(thread[i]) \in req[r].covers
      BY <1>5, <3>2 DEF Within, n
    <3>0. PICK j \in Nat : j = n
      BY <1>4
    <3>4. Split(j)'
      <4>1. \A i \in 1 .. n : thread[i].id <= serial
        BY <1>4 DEF ChatBase, Dated
      <4>2. n + 1 .. n = {} /\ serial <= serial
        BY <1>4, TypesAre DEF ChatBase
      <4>. QED BY <3>0, <3>1, <4>1, <4>2 DEF Split, n
    <3>5. ASSUME NEW i \in 1 .. n PROVE Fact(thread[i]) \in req[r].covers \/ (i = 1 /\ limit % 2 = 0)
      <4>1. CASE i <= k
        <5>1. i \in 1 .. k
          BY <1>4, <4>1
        <5>. QED BY <1>5, <3>3, <5>1 DEF Summarised
      <4>2. CASE i > n - limit
        BY <3>3, <4>2
      <4>3. CASE ~(i <= k) /\ ~(i > n - limit)
        <5>0. k \in 0 .. n
          BY <1>3 DEF n
        <5>1. i = k + 1 /\ (k = 0 => limit % 2 = 0)
          BY <1>4, <3>3, <4>3, <5>0, SummaryReaches
        <5>2. CASE k = 0
          BY <5>1, <5>2
        <5>3. CASE k /= 0
          <6>1. 0 < k /\ k < n
            BY <1>4, <5>1, <5>3
          <6>. QED BY <1>5, <3>3, <5>1, <6>1 DEF Summarised, n
        <5>. QED BY <5>2, <5>3
      <4>. QED BY <4>1, <4>2, <4>3
    <3>6. Summarised(j)'
      <4>1. ~(n < n)
        BY <1>4
      <4>. QED BY <1>0, <3>0, <3>1, <3>5, <4>1 DEF Summarised, Fact, n
    <3>7. Alternates'
      BY <1>5, <3>1 DEF Alternates
    <3>8. Within(r, j)'
      BY <3>0, <3>1, <3>2, <3>3 DEF Within, Main, Finishing, n
    <3>9. ~AllAt(Paused)'
      BY <3>2 DEF AllAt, Main, Paused, Before
    <3>10. CoveredBy(j)'
      <4>1. \A q \in Requests : Within(q, j)'
        BY <3>2, <3>8
      <4>. QED BY <3>4, <3>6, <3>7, <3>9, <4>1 DEF CoveredBy
    <3>11. j \in 0 .. Len(thread')
      BY <1>4, <3>0, <3>1 DEF n
    <3>. QED BY <3>10, <3>11
  <2>6. CASE RemoveQuestion(r)
    <3>1. /\ Moves(Main(r), "remove", "renew") /\ UNCHANGED <<serial, conversation>>
          /\ thread' = Picked(thread, {m \in ToSet(thread) : m.id /= req[r].message})
      BY <1>1, <2>6, RemoveQuestionDoes
    <3>2. /\ stage[Main(r)] = "remove" /\ stage'[Main(r)] = "renew"
          /\ \A q \in Requests, j \in Nat : q /= r => Within(q, j)'
      BY <1>9, <3>1
    <3>3. n > 0 /\ thread[n].id = req[r].message
      BY <1>1, <3>2 DEF Asking, IsQuestion, n
    <3>4. thread' = SubSeq(thread, 1, n - 1)
      BY <3>1, <3>3, RemovesLast DEF n
    <3>0. PICK j \in Nat : j = n - 1
      BY <1>4, <3>3
    <3>5. /\ Len(thread') = j /\ DOMAIN thread' = 1 .. j
          /\ \A i \in DOMAIN thread' : thread'[i] = thread[i]
      BY <3>0, <3>3, <3>4, ThreadWithoutLast DEF n, ChatBase
    <3>6. n % 2 = 1 /\ k = n /\ <<"user", r>> \in conversation.summary
      BY <1>5, <3>2 DEF Within, n
    <3>7. j \in Nat /\ j % 2 = 0 /\ \A i \in 1 .. j : i \in 1 .. k /\ i \in 1 .. n
      <4>1. j \in Nat /\ \A i \in 1 .. j : i \in 1 .. k /\ i \in 1 .. n
        BY <1>4, <3>0, <3>3, <3>6
      <4>2. j % 2 = 0
        BY <1>4, <3>0, <3>3, <3>6, Parity
      <4>. QED BY <4>1, <4>2
    <3>8. Split(j)'
      <4>1. \A i \in 1 .. j : thread'[i].id <= conversation.since
        BY <1>5, <3>5, <3>7 DEF Split
      <4>2. j + 1 .. j = {}
        BY <3>7
      <4>3. conversation'.since <= serial'
        BY <1>5, <3>1 DEF Split
      <4>. QED BY <3>1, <3>5, <4>1, <4>2, <4>3 DEF Split
    <3>9. Summarised(j)'
      <4>1. \A i \in 1 .. j : Fact(thread'[i]) \in conversation.summary \/ (i = 1 /\ limit % 2 = 0)
        BY <1>5, <3>5, <3>7 DEF Summarised, Fact
      <4>2. ~(j < j)
        BY <3>7
      <4>. QED BY <1>0, <3>1, <3>5, <4>1, <4>2 DEF Summarised, Fact
    <3>10. Alternates'
      BY <1>5, <3>5, <3>7 DEF Alternates, n
    <3>11. Within(r, j)'
      BY <3>1, <3>2, <3>5, <3>6, <3>7 DEF Within, Main, Finishing
    <3>12. AllAt(Paused)' => FALSE
      BY <3>2 DEF AllAt, Main, Paused, Before
    <3>13. CoveredBy(j)'
      <4>1. \A q \in Requests : Within(q, j)'
        BY <3>2, <3>7, <3>11
      <4>. QED BY <3>8, <3>9, <3>10, <3>12, <4>1 DEF CoveredBy
    <3>14. j \in 0 .. Len(thread')
      BY <3>5, <3>7
    <3>. QED BY <3>13, <3>14
  <2>7. CASE RenewQuestion(r)
    <3>1. /\ Moves(Main(r), "renew", "stream") /\ req[r].last + 1 \in Nat
          /\ CreateMessage("user", r, "question", req[r].last + 1) /\ "user" \in Roles /\ "question" \in Kinds
          /\ UNCHANGED conversation
      BY <1>1, <2>7, RenewQuestionDoes
    <3>2. stage[Main(r)] = "renew" /\ stage'[Main(r)] = "stream" /\ \A q \in Requests : q /= r => Within(q, k)'
      BY <1>4, <1>9, <3>1
    <3>3. n % 2 = 0 /\ k = n /\ <<"user", r>> \in conversation.summary
      BY <1>5, <3>2 DEF Within, n
    <3>4. next /\ Len(thread') = n + 1
      <4>1. "user" = IF n % 2 = 0 THEN "user" ELSE "assistant"
        BY <3>3
      <4>. QED BY <1>0, <1>3, <1>5, <3>1, <3>3, <4>1, CoveredMore DEF n
    <3>5. (n + 1) % 2 = 1 /\ Unsummarised(n + 1, k, limit - 1)
      <4>1. (n + 1) % 2 = 1
        BY <1>4, <3>3, Parity
      <4>. QED BY <1>4, <3>3, <4>1 DEF Unsummarised
    <3>6. Within(r, k)'
      BY <1>0, <3>2, <3>4, <3>5 DEF Within, Main
    <3>7. ~AllAt(Paused)'
      BY <3>2 DEF AllAt, Main, Paused, Before
    <3>8. CoveredBy(k)'
      BY <3>2, <3>4, <3>6, <3>7 DEF CoveredBy
    <3>. QED BY <1>4, <3>3, <3>4, <3>8
  <2>8. CASE StoreAnswer(r) \/ StoreError(r)
    <3>1. PICK kind \in Kinds : Replies(Main(r), r, kind, req[r].last + 2)
      BY <1>1, <2>8, StoreAnswerDoes
    <3>2. stage[Main(r)] \in Finishing
      BY <1>1, <2>8, StoreAnswerDoes DEF Finishing
    <3>. QED BY <1>10, <3>1, <3>2
  <2>. QED BY <1>12, <2>1, <2>2, <2>3, <2>4, <2>5, <2>6, <2>7, <2>8 DEF Special
<1>13. ASSUME NEW t \in Tasks, KeepPartial(t) \/ Partial(t) \/ CountMessages(t) \/ StoreCount(t)
       PROVE  \E j \in 0 .. Len(thread') : CoveredBy(j)'
  <2>1. PICK r \in Requests : t = Main(r) /\ t[1] = r
    <3>1. stage[t] /= "ended"
      BY <1>13 DEF KeepPartial, Partial, CountMessages, StoreCount
    <3>. QED BY <1>2, <3>1, TheTasks
  <2>2. CASE KeepPartial(t)
    <3>1. stage[Main(r)] = "keep" /\ Replies(Main(r), r, "partial", note[Main(r)])
      BY <1>1, <2>1, <2>2, KeepPartialDoes
    <3>2. "keep" \in Finishing
      BY DEF Finishing
    <3>. QED BY <1>10, <3>1, <3>2
  <2>3. CASE Partial(t)
    <3>1. /\ UNCHANGED <<thread, serial, conversation>> /\ Moves(Main(r), "partial", "keep")
      BY <1>1, <2>1, <2>3, ReadingDoes DEF Partial, Moves
    <3>2. stage[Main(r)] = "partial" /\ stage'[Main(r)] = "keep"
      BY <3>1 DEF Moves
    <3>3. n % 2 = 1 /\ Unsummarised(n, k, limit - 1)
      BY <1>5, <3>2 DEF Within, Finishing, n
    <3>4. Within(r, k)'
      BY <1>0, <3>1, <3>2, <3>3 DEF Within, Main, n
    <3>5. "keep" \notin Paused
      BY DEF Paused, Before
    <3>. QED BY <1>11, <3>1, <3>4, <3>5
  <2>4. CASE CountMessages(t) \/ StoreCount(t)
    <3>1. /\ thread' = thread /\ serial' = serial
          /\ conversation'.since = conversation.since /\ conversation'.summary = conversation.summary
          /\ Moves(Main(r), "count", "store") \/ Moves(Main(r), "store", "finish")
      BY <1>1, <2>1, <2>4, ReadingDoes, StoreCountDoes DEF CountMessages, Moves
    <3>2. stage'[Main(r)] \in {"store", "finish"}
      BY <3>1 DEF Moves
    <3>3. Within(r, k)'
      BY <3>2 DEF Within, Main, Finishing
    <3>4. "count" \in Paused /\ "store" \in Paused
      BY DEF Paused, Before
    <3>. QED BY <1>11, <3>1, <3>3, <3>4
  <2>. QED BY <1>13, <2>2, <2>3, <2>4
<1>. QED BY <1>8, <1>12, <1>13, <1>1, ChatSteps

\* With clocks that agree the history between two summaries is never longer
\* than the summary reads, but for the message that came before them all.
THEOREM ChatForgetsNothing == ChatSpec => [](Spared({"clock"}) => NothingForgotten)
<1>1. ChatInit => LastIs /\ Covered
  BY LastStarts, CoveredStarts
<1>2. ChatBase /\ LastIs /\ [ChatNext]_chatVars => LastIs'
  BY LastByStep
<1>3. ChatBase /\ ChatBase' /\ LastIs /\ Covered /\ [ChatNext]_chatVars => Covered'
  BY CoveredByStep
<1>4. ChatBase /\ Covered => (Spared({"clock"}) => NothingForgotten)
  <2>. SUFFICES ASSUME ChatBase, Covered, Spared({"overlap", "left", "unheard", "unsummarised"}), limit > 1,
                       Spared({"clock"}),
                       NEW i \in DOMAIN thread
                PROVE  \/ thread[i].id > conversation.since
                       \/ Fact(thread[i]) \in conversation.summary
                       \/ i = 1 /\ limit % 2 = 0
    BY DEF NothingForgotten
  <2>0. Spared({"overlap", "left", "unheard", "unsummarised", "clock"})
    BY DEF Spared
  <2>1. PICK k \in 0 .. Len(thread) : Split(k) /\ Summarised(k)
    BY <2>0 DEF Covered, CoveredBy
  <2>2. i \in 1 .. k \/ i \in k + 1 .. Len(thread)
    BY TheThread DEF ChatBase
  <2>. QED BY <2>1, <2>2 DEF Split, Summarised
<1>. QED BY <1>1, <1>2, <1>3, <1>4, ChatInvariant, PTL DEF ChatSpec

=============================================================================
