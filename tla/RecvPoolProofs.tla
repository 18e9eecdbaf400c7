--------------------------- MODULE RecvPoolProofs ---------------------------
(***************************************************************************)
(* Proofs about RecvPool, for every pool, number and length of             *)
(* transactions and all faults but the pair that Excluded names: the       *)
(* update process reads the records in order, and the pipe continues       *)
(* where the pool ends.                                                    *)
(***************************************************************************)
EXTENDS RecvPool, SequenceTheorems, TLAPS

\* What is excluded: the two races that RecvPool names, and a bad transaction together with
\* an online rollback, with which the properties are violated.
Excluded ==
    /\ Races = {}
    /\ \A fs \in FaultSets : ~({"bad_trans", "rollback"} \subseteq fs)

----------------------------------------------------------------------------
(* The inductive invariant.                                                *)

\* Records of transactions, and the one that follows a record.
Records == {r \in Trans \X Nat : r[2] \in 1 .. lens[r[1]]}

Succ(r) == IF r[2] = lens[r[1]] THEN <<r[1] + 1, 1>> ELSE <<r[1], r[2] + 1>>

\* The cells from a up to b hold the records from f up to l.
Chain(a, b, f, l) ==
    /\ a <= b
    /\ \A i \in a .. b - 1 : data[i] \in Records
    /\ \A i \in a .. b - 2 : data[i + 1] = Succ(data[i])
    /\ IF a = b THEN f = l ELSE data[a] = f /\ Succ(data[b - 1]) = l

\* The receiver server runs.
Up == rpc \notin {"down", "restarting"}

Published == IF rpc = "publish" THEN jnl_seqno - 1 ELSE jnl_seqno

\* The next record of the update process.
Position == <<upd_seqno, tupd_num + 1>>

\* Transactions up to n - 1 are in the pool.  If the pool is folded, those up to m - 1 are
\* before write_wrap, the others at the start.
Layout(folded, m, n) ==
    /\ temp_read = read + tupd_num
    /\ IF folded
       THEN /\ write_wrap >= 1
            /\ Chain(temp_read, write_wrap, Position, <<m, 1>>)
            /\ Chain(0, write, <<m, 1>>, <<n, 1>>)
       ELSE Chain(temp_read, write, Position, <<n, 1>>)
    /\ wrapped /\ upc # "unwrap" => folded
    /\ upc = "unwrap" => ~folded /\ wrapped
    /\ rpc = "wrap_flag" => folded
    /\ Up /\ folded => wrapped \/ rpc = "wrap_flag"
    /\ Up /\ jnl_seqno # 0 => n = Published
    /\ folded /\ rpc \in Receiving => write_loc <= write_wrap
    /\ upc \in {"record", "commit", "advance"} =>
          temp_read < IF folded THEN write_wrap ELSE write
    /\ upc = "end" => folded \/ temp_read < write
    /\ upc = "wrapped" => folded /\ temp_read = write_wrap

Seqnos == 1 .. NumTrans + 1

Reading == {"compare", "end", "wrapped", "unwrap", "reread", "record", "commit", "advance"}

\* The update process relies on what is in the pool.
Relies == \/ upc \in Reading
          \/ upc \in {"init_read", "top"} /\ restart = "NO_RESTART" /\ ~bad_trans

ReadInv ==
    /\ Relies => \E folded \in BOOLEAN, m, n \in Seqnos : Layout(folded, m, n)
    /\ upc \in {"compare", "wrapped", "unwrap", "reread", "init_read"} => tupd_num = 0
    /\ upc \in {"unwrap", "reread"} => temp_read = 0
    /\ upc \in {"commit", "advance"} => upd_seqno \in Trans /\ tupd_num + 1 = lens[upd_seqno]

\* The receiver server and the cells it is about to publish.
FillInv ==
    /\ lens \in [Trans -> Lens]
    /\ write <= write_wrap
    /\ rpc \in Receiving => local_wrap = Larger(write_wrap, write_loc)
    /\ rpc \in {"handshake", "recv"} => cur = NoTrans
    /\ rpc \in Receiving \ {"handshake", "recv"} => cur \in Trans
    /\ rpc \in {"handshake", "recv", "wrap", "wrap_write", "wrap_flag"} => write_loc = write
    /\ rpc \in {"wrap", "wrap_write"} => NeedsWrap(lens[cur])
    /\ rpc \in {"wrap_write", "wrap_flag"} => ~wrapped
    /\ rpc = "wrap_write" => write_wrap = write
    /\ rpc = "wrap_flag" => write = 0 /\ write_wrap >= 1
    /\ rpc \in {"copy", "process", "publish"} =>
          /\ write <= write_loc /\ write_loc <= write + lens[cur]
          /\ write + lens[cur] <= PoolSize
          /\ \A i \in write .. write_loc - 1 : data[i] = <<cur, i - write + 1>>
    /\ rpc \in {"process", "publish"} => write_loc = write + lens[cur]
    /\ rpc = "publish" => write_wrap = local_wrap

\* The pipe carries consecutive transactions up to next, and follows the pool.
PipeInv ==
    /\ Len(chan) < next
    /\ \A i \in 1 .. Len(chan) : chan[i] = next - Len(chan) + i - 1
    /\ rpc \in Receiving =>
          /\ jnl_seqno # 0
          /\ cur # NoTrans => cur = Published /\ next - Len(chan) = Published + 1
          /\ cur = NoTrans => next - Len(chan) = Published

\* Where restarts and errors are.
FlagInv ==
    /\ bad_trans => "bad_trans" \in faults
    /\ rolled_back \/ onln_rlbk_flg \/ upc = "rollback" => "rollback" \in faults
    /\ faults # {} => \E fs \in FaultSets : faults \subseteq fs
    /\ Up => restart = "NO_RESTART"
    /\ rpc = "restarting" => restart # "NO_RESTART"
    /\ restart = "UPD_RESTARTED" => upc = "dead" \/ (upc = "top" /\ jnl_seqno = upd_seqno)
    /\ reported => /\ upc = "dead" /\ jnl_seqno = 0 /\ rpc \in {"connect", "start"}
                   /\ ~bad_trans
    /\ upc = "init" /\ restart = "NO_RESTART" => jnl_seqno = 0
    /\ jnl_seqno = 0 /\ upc # "dead" /\ ~(upc = "init" /\ restart # "NO_RESTART") =>
          write = 0 /\ ~wrapped
    /\ upc \notin {"dead", "init", "init_read", "rollback"} => read_jnl_seqno = upd_seqno

\* A process that starts again is at the start of the pool.
AtStart == read = 0 /\ temp_read = 0 /\ tupd_num = 0

FreshInv ==
    /\ bad_trans \/ onln_rlbk_flg \/ restart = "UPD_RESTARTED" =>
          (upc \in {"init_read", "top"} => AtStart)
    /\ onln_rlbk_flg => upc \in {"rollback", "dead", "init", "init_read", "top"}
    /\ bad_trans => \/ upc \in {"bad", "top", "dead"}
                    \/ upc \in {"init", "init_read"} /\ restart # "NO_RESTART"
    /\ upc = "bad" => bad_trans

IInv == TypeOK /\ FillInv /\ PipeInv /\ FlagInv /\ FreshInv /\ ReadInv

----------------------------------------------------------------------------
(* Chains of records.                                                      *)

\* Transactions have records, and fit into the pool.
LEMMA LensFacts ==
    ASSUME lens \in [Trans -> Lens]
    PROVE  /\ \A s \in Trans : lens[s] \in Nat \ {0} /\ lens[s] <= PoolSize
           /\ PoolSize \in Nat /\ NumTrans \in Nat
<1>1. PoolSize \in Nat /\ NumTrans \in Nat /\ Lens \subseteq 1 .. PoolSize
  BY RecvPoolAssumption
<1>2. \A s \in Trans : lens[s] \in 1 .. PoolSize
  BY <1>1
<1> QED BY <1>1, <1>2

\* A chain stays when its cells do.
LEMMA ChainStays ==
    ASSUME NEW a \in Nat, NEW b \in Nat, NEW f, NEW l, Chain(a, b, f, l), lens' = lens,
           \A i \in a .. b - 1 : data'[i] = data[i]
    PROVE  Chain(a, b, f, l)'
<1>1. \A r : Succ(r)' = Succ(r)
  BY DEF Succ
<1>2. Records' = Records
  BY DEF Records
<1>3. \A i \in a .. b - 2 : data'[i + 1] = Succ(data'[i])
  <2> SUFFICES ASSUME NEW i \in a .. b - 2 PROVE data'[i + 1] = Succ(data'[i])
    OBVIOUS
  <2>1. i \in a .. b - 1 /\ i + 1 \in a .. b - 1
    OBVIOUS
  <2> QED BY <2>1 DEF Chain
<1>4. \A i \in a .. b - 1 : data'[i] \in Records
  BY DEF Chain
<1>5. a # b => a \in a .. b - 1 /\ b - 1 \in a .. b - 1
  BY DEF Chain
<1>6. IF a = b THEN f = l ELSE data'[a] = f /\ Succ(data'[b - 1]) = l
  BY <1>5 DEF Chain
<1>7. a <= b
  BY DEF Chain
<1>8. \A i \in a .. b - 2 : data'[i + 1] = Succ(data[i])'
  BY <1>1, <1>3 DEF Succ
<1>9. Succ(data[b - 1])' = Succ(data'[b - 1])
  BY DEF Succ
<1> QED BY <1>2, <1>4, <1>6, <1>7, <1>8, <1>9 DEF Chain

\* The first record of a chain, and the rest.
LEMMA ChainRead ==
    ASSUME NEW a \in Nat, NEW b \in Nat, NEW f, NEW l, Chain(a, b, f, l), a < b
    PROVE  data[a] = f /\ f \in Records /\ Chain(a + 1, b, Succ(f), l)
<1>1. data[a] = f /\ Succ(data[b - 1]) = l /\ data[a] \in Records
  BY DEF Chain
<1>2. CASE a + 1 = b
  BY <1>1, <1>2 DEF Chain
<1>3. CASE a + 1 < b
  <2>1. a \in a .. b - 2
    BY <1>3
  <2>2. data[a + 1] = Succ(f)
    BY <1>1, <2>1 DEF Chain
  <2> QED BY <1>1, <1>3, <2>2 DEF Chain
<1> QED BY <1>1, <1>2, <1>3

\* A whole transaction is added to a chain.
LEMMA ChainExtend ==
    ASSUME lens \in [Trans -> Lens], NEW a \in Nat, NEW b \in Nat, NEW f, NEW s \in Trans,
           Chain(a, b, f, <<s, 1>>),
           \A i \in b .. b + lens[s] - 1 : data[i] = <<s, i - b + 1>>
    PROVE  Chain(a, b + lens[s], f, <<s + 1, 1>>)
<1> DEFINE e == b + lens[s]
<1>1. lens[s] \in Nat \ {0} /\ s \in Nat /\ a <= b /\ e \in Nat /\ b <= e - 1
  BY LensFacts, RecvPoolAssumption DEF Chain, Trans
<1>2. \A i \in b .. e - 1 : data[i] = <<s, i - b + 1>> /\ data[i] \in Records
  <2> SUFFICES ASSUME NEW i \in b .. e - 1
               PROVE  data[i] = <<s, i - b + 1>> /\ data[i] \in Records
    OBVIOUS
  <2>1. data[i] = <<s, i - b + 1>> /\ i - b + 1 \in 1 .. lens[s] /\ i - b + 1 \in Nat
    BY <1>1
  <2> QED BY <2>1, <1>1 DEF Records
<1>3. \A i \in a .. e - 1 : data[i] \in Records
  <2> SUFFICES ASSUME NEW i \in a .. e - 1 PROVE data[i] \in Records
    OBVIOUS
  <2>1. i \in a .. b - 1 \/ i \in b .. e - 1
    BY <1>1
  <2> QED BY <2>1, <1>2 DEF Chain
<1>4. \A i \in a .. e - 2 : data[i + 1] = Succ(data[i])
  <2> SUFFICES ASSUME NEW i \in a .. e - 2 PROVE data[i + 1] = Succ(data[i])
    OBVIOUS
  <2>1. CASE i \in a .. b - 2
    BY <2>1 DEF Chain
  <2>2. CASE i = b - 1
    <3>1. Succ(data[i]) = <<s, 1>>
      BY <2>2, <1>1 DEF Chain
    <3>2. i + 1 \in b .. e - 1 /\ (i + 1) - b + 1 = 1
      BY <2>2, <1>1
    <3> QED BY <3>1, <3>2, <1>2
  <2>3. CASE i \in b .. e - 2
    <3>1. i \in b .. e - 1 /\ i + 1 \in b .. e - 1
      BY <2>3, <1>1
    <3>2. data[i] = <<s, i - b + 1>> /\ data[i + 1] = <<s, (i + 1) - b + 1>>
      BY <3>1, <1>2
    <3>3. i - b + 1 # lens[s] /\ (i + 1) - b + 1 = (i - b + 1) + 1
      BY <2>3, <1>1
    <3> QED BY <3>2, <3>3 DEF Succ
  <2> QED BY <2>1, <2>2, <2>3, <1>1
<1>5. data[a] = f
  <2>1. CASE a = b
    <3>1. b \in b .. e - 1 /\ b - b + 1 = 1
      BY <1>1
    <3> QED BY <2>1, <3>1, <1>2 DEF Chain
  <2>2. CASE a # b
    BY <2>2 DEF Chain
  <2> QED BY <2>1, <2>2
<1>6. Succ(data[e - 1]) = <<s + 1, 1>>
  <2>1. e - 1 \in b .. e - 1 /\ (e - 1) - b + 1 = lens[s]
    BY <1>1
  <2>2. data[e - 1] = <<s, lens[s]>>
    BY <2>1, <1>2
  <2> QED BY <2>2 DEF Succ
<1>7. a <= e /\ a # e
  BY <1>1
<1> HIDE DEF e
<1>8. Chain(a, e, f, <<s + 1, 1>>)
  BY <1>3, <1>4, <1>5, <1>6, <1>7 DEF Chain
<1> QED BY <1>8 DEF e

\* An empty chain.
LEMMA ChainEmpty == ASSUME NEW a \in Nat, NEW f PROVE Chain(a, a, f, f)
BY DEF Chain

----------------------------------------------------------------------------
(* What a step leaves alone.                                               *)

\* What is known before a step.
LEMMA Known ==
    ASSUME IInv
    PROVE  /\ TypeOK /\ FillInv /\ PipeInv /\ FlagInv /\ FreshInv /\ ReadInv
           /\ PoolSize \in Nat /\ NumTrans \in Nat
           /\ \A s \in Trans : lens[s] \in Nat \ {0} /\ lens[s] <= PoolSize
BY LensFacts DEF IInv, FillInv

\* Steps of others than the receiver server do not touch what it writes.
LEMMA FillStays ==
    ASSUME FillInv,
           UNCHANGED <<lens, data, write, write_wrap, rpc, write_loc, local_wrap, cur>>,
           wrapped' = wrapped \/ wrapped' = FALSE
    PROVE  FillInv'
BY DEF FillInv, NeedsWrap, Larger

\* The receiver server stops receiving.
LEMMA FillStops ==
    ASSUME FillInv, lens' = lens, write' <= write_wrap', rpc' \notin Receiving
    PROVE  FillInv'
BY DEF FillInv, Receiving

\* Steps that leave the pipe alone.
LEMMA PipeStays ==
    ASSUME PipeInv, UNCHANGED <<chan, next, rpc, cur>>,
           jnl_seqno' = jnl_seqno \/ rpc \notin Receiving
    PROVE  PipeInv'
BY DEF PipeInv, Published, Receiving

\* The receiver server stops receiving.
LEMMA PipeStops ==
    ASSUME PipeInv, rpc' \notin Receiving,
           UNCHANGED <<chan, next>> \/ (chan' = << >> /\ next' \in Nat \ {0})
    PROVE  PipeInv'
<1>1. CASE UNCHANGED <<chan, next>>
  BY <1>1 DEF PipeInv
<1>2. CASE chan' = << >> /\ next' \in Nat \ {0}
  <2>1. Len(chan') = 0
    BY <1>2
  <2>2. 0 < next' /\ 1 .. 0 = {}
    BY <1>2
  <2> QED BY <2>1, <2>2, <1>2 DEF PipeInv
<1> QED BY <1>1, <1>2

\* The transactions in the pool stay where they are.
LEMMA LayoutStays ==
    ASSUME NEW folded \in BOOLEAN, NEW m, NEW n, Layout(folded, m, n),
           UNCHANGED <<lens, data, write, write_wrap, wrapped, read, temp_read, upd_seqno,
                       tupd_num>>,
           upc' = "unwrap" <=> upc = "unwrap",
           rpc' = "wrap_flag" => rpc = "wrap_flag",
           rpc' \in Receiving => \/ rpc \in Receiving /\ write_loc' = write_loc
                                \/ write_loc' <= write_wrap,
           Up' => /\ Up /\ (rpc = "wrap_flag" => rpc' = "wrap_flag" \/ wrapped)
                  /\ jnl_seqno' # 0 => jnl_seqno # 0 /\ Published' = Published,
           upc' \in {"record", "commit", "advance"} =>
              temp_read < IF folded THEN write_wrap ELSE write,
           upc' = "end" => folded \/ temp_read < write,
           upc' = "wrapped" => folded /\ temp_read = write_wrap
    PROVE  Layout(folded, m, n)'
<1>1. Position' = Position
  BY DEF Position
<1>2. /\ Chain(temp_read, write_wrap, Position, <<m, 1>>)' <=>
            Chain(temp_read, write_wrap, Position, <<m, 1>>)
      /\ Chain(0, write, <<m, 1>>, <<n, 1>>)' <=> Chain(0, write, <<m, 1>>, <<n, 1>>)
      /\ Chain(temp_read, write, Position, <<n, 1>>)' <=>
            Chain(temp_read, write, Position, <<n, 1>>)
  BY <1>1 DEF Chain, Succ, Records
<1>3. folded /\ rpc' \in Receiving => write_loc' <= write_wrap
  BY DEF Layout
<1> QED BY <1>2, <1>3 DEF Layout

\* The update process relies on the pool as before.
LEMMA ReadStays ==
    ASSUME ReadInv,
           UNCHANGED <<lens, data, write, write_wrap, wrapped, read, temp_read, upd_seqno,
                       tupd_num, upc>>,
           Relies' => Relies,
           rpc' = "wrap_flag" => rpc = "wrap_flag",
           rpc' \in Receiving => \/ rpc \in Receiving /\ write_loc' = write_loc
                                \/ write_loc' <= write_wrap,
           Up' => /\ Up /\ (rpc = "wrap_flag" => rpc' = "wrap_flag" \/ wrapped)
                  /\ jnl_seqno' # 0 => jnl_seqno # 0 /\ Published' = Published
    PROVE  ReadInv'
<1>1. ASSUME Relies'
      PROVE  \E folded \in BOOLEAN, m, n \in Seqnos : Layout(folded, m, n)'
  <2>1. PICK folded \in BOOLEAN, m \in Seqnos, n \in Seqnos : Layout(folded, m, n)
    BY <1>1 DEF ReadInv
  <2>2. /\ upc \in {"record", "commit", "advance"} =>
              temp_read < IF folded THEN write_wrap ELSE write
        /\ upc = "end" => folded \/ temp_read < write
        /\ upc = "wrapped" => folded /\ temp_read = write_wrap
    BY <2>1 DEF Layout
  <2>3. Layout(folded, m, n)'
    BY <2>1, <2>2, LayoutStays
  <2> QED BY <2>1, <2>3
<1> QED BY <1>1 DEF ReadInv, Seqnos

\* The update process does not rely on the pool.
LEMMA ReadFree ==
    ASSUME ~Relies', upc' \notin {"init_read", "commit", "advance"} PROVE ReadInv'
BY DEF ReadInv, Relies, Reading

\* A pool that was just reset, and an update process at its start.
LEMMA LayoutFresh ==
    ASSUME NEW n \in Seqnos, write' = 0, ~wrapped', AtStart', upd_seqno' = n,
           upc' \in {"init_read", "top"}, rpc' # "wrap_flag",
           Up' /\ jnl_seqno' # 0 => n = Published'
    PROVE  Layout(FALSE, n, n)'
<1>1. Position' = <<n, 1>> /\ temp_read' = write' /\ temp_read' = read' + tupd_num'
  BY DEF Position, AtStart
<1>2. Chain(temp_read, write, Position, <<n, 1>>)'
  <2>1. temp_read' = 0 /\ write' = 0
    BY DEF AtStart
  <2> QED BY <1>1, <2>1 DEF Chain
<1> QED BY <1>1, <1>2 DEF Layout

\* The update process may rely on a pool that was just reset.
LEMMA ReadFresh ==
    ASSUME TypeOK', write' = 0, ~wrapped', AtStart', upc' \in {"init_read", "top"},
           rpc' # "wrap_flag", Up' /\ jnl_seqno' # 0 => upd_seqno' = Published'
    PROVE  ReadInv'
<1>1. upd_seqno' \in Seqnos
  BY DEF TypeOK, Seqnos
<1>2. \E folded \in BOOLEAN, m, n \in Seqnos : Layout(folded, m, n)'
  BY <1>1, LayoutFresh
<1> QED BY <1>2 DEF ReadInv, AtStart, Seqnos

\* Steps of the receiver server and the source that meet no flag.
LEMMA FlagStays ==
    ASSUME FlagInv,
           UNCHANGED <<bad_trans, rolled_back, onln_rlbk_flg, upc, faults, restart, reported,
                       upd_seqno, read_jnl_seqno>>,
           jnl_seqno' = jnl_seqno \/ (jnl_seqno # 0 /\ jnl_seqno' # 0),
           Up, Up', reported => rpc' \in {"connect", "start"} /\ jnl_seqno' = jnl_seqno,
           jnl_seqno = 0 => UNCHANGED <<write, wrapped>>
    PROVE  FlagInv'
BY DEF FlagInv, Up

\* Steps that leave the flags and the update process alone.
LEMMA FreshStays ==
    ASSUME FreshInv,
           UNCHANGED <<bad_trans, onln_rlbk_flg, restart, upc, read, temp_read, tupd_num>>
    PROVE  FreshInv'
BY DEF FreshInv, AtStart

----------------------------------------------------------------------------
(* The source server and the receiver server.                              *)

\* Steps of the receiver server that touch neither pool nor pipe.
LEMMA QuietInv ==
    ASSUME IInv, TypeOK', FillInv', PipeInv', Up, Up', rpc # "wrap_flag", rpc' # "wrap_flag",
           UNCHANGED <<lens, data, write, write_wrap, wrapped, jnl_seqno, read, read_jnl_seqno,
                       bad_trans, onln_rlbk_flg, restart, reported, upc, temp_read, upd_seqno,
                       tupd_num, rolled_back, faults>>,
           rpc = "publish" <=> rpc' = "publish",
           rpc' \in Receiving => \/ rpc \in Receiving /\ write_loc' = write_loc
                                \/ write_loc' <= write_wrap,
           reported => rpc' \in {"connect", "start"}
    PROVE  IInv'
<1>1. FlagInv' /\ FreshInv'
  BY Known, FlagStays, FreshStays
<1>2. Relies' => Relies
  BY DEF Relies
<1>3. Published' = Published
  BY DEF Published
<1>4. ReadInv'
  BY <1>2, <1>3, Known, ReadStays
<1> QED BY <1>1, <1>4 DEF IInv

\* A transaction is sent.
LEMMA SourceSendInv == ASSUME IInv, SourceSend PROVE IInv'
<1> USE DEF ctlVars, rcvrVars, updVars, dbVars
<1>0. TypeOK /\ FillInv /\ PipeInv /\ FlagInv /\ FreshInv /\ ReadInv /\ NumTrans \in Nat
  BY Known
<1>1. /\ UNCHANGED <<lens, data, write, write_wrap, wrapped, jnl_seqno, read, read_jnl_seqno,
                     bad_trans, onln_rlbk_flg, restart, reported, upc, temp_read, upd_seqno,
                     tupd_num, applied, rolled_back, faults, rpc, write_loc, local_wrap, cur,
                     xoff_sent, avail, sending>>
      /\ next + 1 <= avail + 1 /\ next' = next + 1
      /\ chan' = chan \o [i \in 1 .. 1 |-> next + i - 1]
  BY DEF SourceSend, Stream!Send
<1>2. next \in Trans /\ next \in Nat /\ chan \in Seq(Trans) /\ Len(chan) \in Nat
  BY <1>0, <1>1 DEF TypeOK, Trans
<1>3. [i \in 1 .. 1 |-> next + i - 1] = <<next>>
  BY <1>2
<1>4. chan' = Append(chan, next)
  BY <1>1, <1>2, <1>3, AppendIsConcat, Zenon
<1>5. /\ chan' \in Seq(Trans) /\ Len(chan') = Len(chan) + 1 /\ chan'[Len(chan) + 1] = next
      /\ \A i \in 1 .. Len(chan) : chan'[i] = chan[i]
  BY <1>2, <1>4, AppendProperties
<1>6. TypeOK'
  BY <1>0, <1>1, <1>2, <1>5 DEF TypeOK, Trans
<1>7. FillInv'
  BY <1>0, <1>1, FillStays
<1>8. PipeInv'
  <2>1. Len(chan') < next' /\ next' - Len(chan') = next - Len(chan)
    BY <1>0, <1>1, <1>2, <1>5 DEF PipeInv
  <2>2. \A i \in 1 .. Len(chan') : chan'[i] = next' - Len(chan') + i - 1
    <3> SUFFICES ASSUME NEW i \in 1 .. Len(chan') PROVE chan'[i] = next' - Len(chan') + i - 1
      OBVIOUS
    <3>1. CASE i = Len(chan) + 1
      BY <3>1, <1>1, <1>2, <1>5
    <3>2. CASE i \in 1 .. Len(chan)
      <4>1. chan'[i] = next - Len(chan) + i - 1
        BY <3>2, <1>0, <1>5 DEF PipeInv
      <4> QED BY <4>1, <2>1
    <3> QED BY <3>1, <3>2, <1>2, <1>5
  <2> QED BY <2>1, <2>2, <1>0, <1>1 DEF PipeInv, Published
<1>9. FreshInv'
  BY <1>0, <1>1, FreshStays
<1>10. FlagInv'
  BY <1>0, <1>1 DEF FlagInv, Up
<1>11. ReadInv'
  <2>1. Relies' => Relies
    BY <1>1 DEF Relies
  <2>2. Published' = Published /\ (Up' <=> Up)
    BY <1>1 DEF Published, Up
  <2> QED BY <2>1, <2>2, <1>0, <1>1, ReadStays
<1> QED BY <1>6, <1>7, <1>8, <1>9, <1>10, <1>11 DEF IInv

\* Connections and the handshake.
LEMMA ConnectInv == ASSUME IInv, Connect \/ SendStart \/ WillRestart PROVE IInv'
<1> USE DEF ctlVars, updVars, dbVars, srcVars
<1>0. TypeOK /\ FillInv /\ PipeInv /\ FlagInv /\ FreshInv /\ NumTrans \in Nat
  BY Known
<1>1. UNCHANGED <<lens, data, write, write_wrap, wrapped, jnl_seqno, read, read_jnl_seqno,
                  bad_trans, onln_rlbk_flg, restart, reported, upc, temp_read, upd_seqno,
                  tupd_num, applied, rolled_back, faults>>
  BY DEF Connect, SendStart, WillRestart
<1>2. CASE Connect
  <2>1. /\ rpc = "connect" /\ rpc' = "start" /\ xoff_sent' \in BOOLEAN
        /\ UNCHANGED <<write_loc, local_wrap, cur, avail, next, chan, sending>>
    BY <1>2 DEF Connect
  <2>2. TypeOK'
    BY <2>1, <1>0, <1>1 DEF TypeOK
  <2>3. FillInv' /\ PipeInv'
    <3>1. rpc' \notin Receiving /\ write' <= write_wrap'
      BY <2>1, <1>0, <1>1 DEF Receiving, FillInv
    <3> QED BY <3>1, <2>1, <1>0, <1>1, FillStops, PipeStops
  <2> QED BY <2>1, <2>2, <2>3, <1>1, QuietInv DEF Up, Receiving
<1>3. CASE SendStart
  <2>1. /\ rpc = "start" /\ jnl_seqno # 0 /\ rpc' = "handshake"
        /\ next' = jnl_seqno /\ chan' = << >> /\ avail' = avail /\ sending' = TRUE
        /\ jnl_seqno \in 1 .. avail + 1
        /\ write_loc' = write /\ local_wrap' = write_wrap /\ cur' = NoTrans
        /\ UNCHANGED xoff_sent
    BY <1>3 DEF SendStart, Stream!Restart
  <2>2. chan' \in Seq(Trans) /\ Len(chan') = 0
    BY <2>1
  <2>3. TypeOK'
    BY <2>1, <2>2, <1>0, <1>1 DEF TypeOK, Receiving
  <2>4. FillInv'
    BY <2>1, <1>0, <1>1 DEF FillInv, TypeOK, Larger
  <2>5. PipeInv'
    BY <2>1, <2>2, <1>0, <1>1 DEF PipeInv, TypeOK, Published
  <2>6. ~reported
    BY <2>1, <1>0 DEF FlagInv
  <2>7. write_loc' <= write_wrap
    BY <2>1, <1>0 DEF FillInv
  <2> QED BY <2>1, <2>3, <2>4, <2>5, <2>6, <2>7, <1>1, QuietInv DEF Up
<1>4. CASE WillRestart
  <2>1. /\ rpc = "handshake" /\ rpc' = "recv"
        /\ UNCHANGED <<write_loc, local_wrap, cur, xoff_sent, avail, next, chan, sending>>
    BY <1>4 DEF WillRestart
  <2>2. TypeOK'
    BY <2>1, <1>0, <1>1 DEF TypeOK, Receiving
  <2>3. FillInv'
    BY <2>1, <1>0, <1>1 DEF FillInv, Receiving, Larger
  <2>4. PipeInv'
    BY <2>1, <1>0, <1>1 DEF PipeInv, Published, Receiving
  <2>5. ~reported
    BY <2>1, <1>0 DEF FlagInv
  <2> QED BY <2>1, <2>2, <2>3, <2>4, <2>5, <1>1, QuietInv DEF Up, Receiving
<1> QED BY <1>2, <1>3, <1>4

\* do_flow_control changes two flags.
LEMMA FlowControlType ==
    ASSUME TypeOK, NEW wrap, NEW pos, FlowControl(wrap, pos)
    PROVE  xoff_sent' \in BOOLEAN /\ sending' \in BOOLEAN
BY DEF FlowControl, TypeOK

\* A message arrives.
LEMMA ReceiveTransInv == ASSUME IInv, ReceiveTrans PROVE IInv'
<1> USE DEF ctlVars, updVars, dbVars
<1>0. /\ TypeOK /\ FillInv /\ PipeInv /\ FlagInv /\ FreshInv /\ NumTrans \in Nat
      /\ PoolSize \in Nat
      /\ \A s \in Trans : lens[s] \in Nat \ {0} /\ lens[s] <= PoolSize
  BY Known
<1>1. /\ UNCHANGED <<lens, data, write, write_wrap, wrapped, jnl_seqno, read, read_jnl_seqno,
                     bad_trans, onln_rlbk_flg, restart, reported, upc, temp_read, upd_seqno,
                     tupd_num, applied, rolled_back, faults, write_loc, local_wrap, avail, next>>
      /\ rpc = "recv" /\ chan # << >> /\ chan' = Tail(chan) /\ cur' = Head(chan)
      /\ \/ rpc' = "wrap" /\ NeedsWrap(lens[cur'])
         \/ rpc' = "copy" /\ ~NeedsWrap(lens[cur'])
  BY DEF ReceiveTrans, Stream!Receive
<1>2. xoff_sent' \in BOOLEAN /\ sending' \in BOOLEAN
  <2>1. UNCHANGED <<xoff_sent, sending>> \/ FlowControl(wrapped, write_loc)
    BY DEF ReceiveTrans
  <2>2. CASE UNCHANGED <<xoff_sent, sending>>
    BY <2>2, <1>0 DEF TypeOK
  <2>3. CASE FlowControl(wrapped, write_loc)
    BY <2>3, <1>0, FlowControlType
  <2> QED BY <2>1, <2>2, <2>3
<1>3. /\ Len(chan) \in Nat \ {0} /\ chan[1] = Head(chan) /\ Head(chan) \in Trans
      /\ chan' \in Seq(Trans) /\ Len(chan') = Len(chan) - 1
      /\ \A i \in 1 .. Len(chan) - 1 : chan'[i] = chan[i + 1]
  <2>1. chan \in Seq(Trans)
    BY <1>0 DEF TypeOK
  <2>2. Len(chan) \in Nat \ {0}
    BY <2>1, <1>1, EmptySeq
  <2>3. Head(chan) \in Trans /\ Tail(chan) \in Seq(Trans)
    BY <2>1, <1>1, HeadTailProperties
  <2>4. /\ chan[1] = Head(chan) /\ Len(Tail(chan)) = Len(chan) - 1
        /\ \A i \in 1 .. Len(chan) - 1 : Tail(chan)[i] = chan[i + 1]
    BY <2>1, <1>1, <2>2
  <2> QED BY <2>2, <2>3, <2>4, <1>1
<1>4. TypeOK'
  BY <1>0, <1>1, <1>2, <1>3 DEF TypeOK, Receiving
<1>5. FillInv'
  <2>1. /\ rpc' \in Receiving /\ rpc' \notin {"handshake", "recv"} /\ cur' \in Trans
        /\ write_loc = write /\ local_wrap = Larger(write_wrap, write_loc)
    BY <1>0, <1>1, <1>3 DEF FillInv, Receiving
  <2>2. lens[cur'] \in Nat \ {0} /\ write \in Nat /\ write_loc \in Nat
    BY <2>1, <1>0 DEF TypeOK
  <2>3. CASE rpc' = "wrap"
    BY <2>1, <2>3, <1>0, <1>1 DEF FillInv, NeedsWrap, Larger
  <2>4. CASE rpc' = "copy"
    <3>1. write + lens[cur'] <= PoolSize /\ write <= write + lens[cur'] /\ write <= write
      BY <2>1, <2>2, <2>4, <1>0, <1>1 DEF NeedsWrap
    <3>2. \A i \in write .. write - 1 : FALSE
      BY <2>2
    <3> QED BY <2>1, <2>4, <3>1, <3>2, <1>0, <1>1 DEF FillInv, Larger
  <2> QED BY <2>3, <2>4, <1>1
<1>6. PipeInv'
  <2>1. /\ next \in Nat /\ Len(chan) < next /\ jnl_seqno # 0 /\ next - Len(chan) = jnl_seqno
        /\ jnl_seqno \in Nat
    BY <1>0, <1>1 DEF PipeInv, FillInv, Receiving, Published, TypeOK
  <2>2. chan[1] = next - Len(chan) + 1 - 1
    <3>1. 1 \in 1 .. Len(chan)
      BY <1>3
    <3> QED BY <3>1, <1>0 DEF PipeInv
  <2>3. cur' = jnl_seqno /\ next - Len(chan') = jnl_seqno + 1 /\ Len(chan') < next
    BY <2>1, <2>2, <1>1, <1>3
  <2>4. \A i \in 1 .. Len(chan') : chan'[i] = next - Len(chan') + i - 1
    <3> SUFFICES ASSUME NEW i \in 1 .. Len(chan') PROVE chan'[i] = next - Len(chan') + i - 1
      OBVIOUS
    <3>1. i + 1 \in 1 .. Len(chan) /\ i \in 1 .. Len(chan) - 1
      BY <1>3
    <3>2. chan'[i] = next - Len(chan) + (i + 1) - 1
      BY <3>1, <1>0, <1>3 DEF PipeInv
    <3> QED BY <3>2, <2>1, <1>3
  <2>5. Published' = jnl_seqno /\ cur' # NoTrans
    BY <2>1, <2>3, <1>1 DEF Published, NoTrans
  <2> QED BY <2>1, <2>3, <2>4, <2>5, <1>1 DEF PipeInv
<1>7. ~reported
  BY <1>0, <1>1 DEF FlagInv
<1> QED BY <1>1, <1>4, <1>5, <1>6, <1>7, QuietInv DEF Up, Receiving

\* The source may go on.
LEMMA IdleFlowControlInv == ASSUME IInv, IdleFlowControl PROVE IInv'
<1> USE DEF ctlVars, updVars, dbVars
<1>0. TypeOK /\ FillInv /\ PipeInv /\ FlagInv
  BY Known
<1>1. /\ UNCHANGED <<lens, data, write, write_wrap, wrapped, jnl_seqno, read, read_jnl_seqno,
                     bad_trans, onln_rlbk_flg, restart, reported, upc, temp_read, upd_seqno,
                     tupd_num, applied, rolled_back, faults, write_loc, local_wrap, avail, next,
                     chan, rpc, cur>>
      /\ rpc = "recv" /\ FlowControl(wrapped, write_loc)
  BY DEF IdleFlowControl
<1>2. xoff_sent' \in BOOLEAN /\ sending' \in BOOLEAN
  BY <1>0, <1>1, FlowControlType
<1>3. TypeOK'
  BY <1>0, <1>1, <1>2 DEF TypeOK
<1>4. FillInv' /\ PipeInv'
  BY <1>0, <1>1, FillStays, PipeStays
<1>5. ~reported
  BY <1>0, <1>1 DEF FlagInv
<1> QED BY <1>1, <1>3, <1>4, <1>5, QuietInv DEF Up, Receiving

\* The pool is folded: write_wrap.
LEMMA WrapEndInv == ASSUME IInv, WrapEnd PROVE IInv'
<1> USE DEF updVars, dbVars, srcVars
<1>0. TypeOK /\ FillInv /\ PipeInv /\ FlagInv /\ FreshInv /\ ReadInv
  BY Known
<1>1. /\ UNCHANGED <<lens, data, write, wrapped, jnl_seqno, read, read_jnl_seqno,
                     bad_trans, onln_rlbk_flg, restart, reported, upc, temp_read, upd_seqno,
                     tupd_num, applied, rolled_back, faults, write_loc, avail, next,
                     chan, sending, cur, xoff_sent>>
      /\ rpc = "wrap" /\ rpc' = "wrap_write" /\ ~wrapped
      /\ write_wrap' = write_loc /\ local_wrap' = write_loc
  BY DEF WrapEnd
<1>2. write_loc = write /\ NeedsWrap(lens[cur]) /\ cur \in Trans
  BY <1>0, <1>1 DEF FillInv, Receiving
<1>3. TypeOK'
  BY <1>0, <1>1 DEF TypeOK, Receiving
<1>4. FillInv'
  <2>1. Larger(write_wrap', write_loc') = local_wrap' /\ write' <= write_wrap'
    BY <1>0, <1>1, <1>2 DEF Larger, TypeOK
  <2> QED BY <2>1, <1>0, <1>1, <1>2 DEF FillInv, NeedsWrap
<1>5. PipeInv'
  BY <1>0, <1>1 DEF PipeInv, Published, Receiving
<1>6. ~reported /\ Up /\ Up'
  BY <1>0, <1>1 DEF FlagInv, Up
<1>7. FlagInv' /\ FreshInv'
  BY <1>0, <1>1, <1>6, FlagStays, FreshStays
<1>8. ReadInv'
  <2>1. ASSUME Relies'
        PROVE  \E folded \in BOOLEAN, m, n \in Seqnos : Layout(folded, m, n)'
    <3>0. Relies
      BY <2>1, <1>1 DEF Relies
    <3>1. PICK folded \in BOOLEAN, m \in Seqnos, n \in Seqnos : Layout(folded, m, n)
      BY <3>0, <1>0 DEF ReadInv
    <3>2. ~folded
      BY <3>1, <1>1, <1>6 DEF Layout
    <3>3. Chain(temp_read, write, Position, <<n, 1>>)'
      <4>1. Chain(temp_read, write, Position, <<n, 1>>)
        BY <3>1, <3>2 DEF Layout
      <4> QED BY <4>1, <1>1 DEF Chain, Succ, Records, Position
    <3>4. Layout(folded, m, n)'
      BY <3>1, <3>2, <3>3, <1>1, <1>6 DEF Layout, Published
    <3> QED BY <3>1, <3>4
  <2> QED BY <2>1, <1>0, <1>1 DEF ReadInv, Seqnos
<1> QED BY <1>3, <1>4, <1>5, <1>7, <1>8 DEF IInv

\* The pool is folded: write.
LEMMA WrapWriteInv == ASSUME IInv, WrapWrite PROVE IInv'
<1> USE DEF updVars, dbVars, srcVars
<1>0. /\ TypeOK /\ FillInv /\ PipeInv /\ FlagInv /\ FreshInv /\ ReadInv /\ PoolSize \in Nat
      /\ \A s \in Trans : lens[s] \in Nat \ {0} /\ lens[s] <= PoolSize
  BY Known
<1>1. /\ UNCHANGED <<lens, data, write_wrap, wrapped, jnl_seqno, read, read_jnl_seqno,
                     bad_trans, onln_rlbk_flg, restart, reported, upc, temp_read, upd_seqno,
                     tupd_num, applied, rolled_back, faults, local_wrap, avail, next,
                     chan, sending, cur, xoff_sent>>
      /\ rpc = "wrap_write" /\ rpc' = "wrap_flag" /\ write' = 0 /\ write_loc' = 0
  BY DEF WrapWrite
<1>2. /\ write_loc = write /\ NeedsWrap(lens[cur]) /\ cur \in Trans /\ ~wrapped
      /\ write_wrap = write /\ local_wrap = Larger(write_wrap, write_loc) /\ write \in Nat
  BY <1>0, <1>1 DEF FillInv, Receiving, TypeOK
<1>3. write_wrap >= 1 /\ local_wrap = write_wrap
  BY <1>0, <1>2 DEF NeedsWrap, TypeOK, Larger
<1>4. TypeOK'
  BY <1>0, <1>1 DEF TypeOK, Receiving
<1>5. FillInv'
  <2>1. Larger(write_wrap', write_loc') = local_wrap' /\ write' <= write_wrap'
    BY <1>0, <1>1, <1>2, <1>3 DEF Larger, TypeOK
  <2> QED BY <2>1, <1>0, <1>1, <1>2, <1>3 DEF FillInv
<1>6. PipeInv' /\ jnl_seqno # 0
  BY <1>0, <1>1 DEF PipeInv, Published, Receiving
<1>7. ~reported /\ Up /\ Up'
  BY <1>0, <1>1 DEF FlagInv, Up
<1>8. FlagInv' /\ FreshInv'
  BY <1>0, <1>1, <1>6, <1>7, FlagStays, FreshStays
<1>9. ReadInv'
  <2>1. ASSUME Relies'
        PROVE  \E folded \in BOOLEAN, m, n \in Seqnos : Layout(folded, m, n)'
    <3>0. Relies
      BY <2>1, <1>1 DEF Relies
    <3>1. PICK folded \in BOOLEAN, m \in Seqnos, n \in Seqnos : Layout(folded, m, n)
      BY <3>0, <1>0 DEF ReadInv
    <3>2. ~folded /\ upc # "unwrap" /\ upc # "wrapped"
      BY <3>1, <1>1, <1>2, <1>7 DEF Layout
    <3>3. Chain(temp_read, write_wrap, Position, <<n, 1>>)'
      <4>1. Chain(temp_read, write_wrap, Position, <<n, 1>>)
        BY <3>1, <3>2, <1>2 DEF Layout
      <4> QED BY <4>1, <1>1 DEF Chain, Succ, Records, Position
    <3>4. Chain(0, write, <<n, 1>>, <<n, 1>>)'
      BY <1>1 DEF Chain
    <3>5. Published' = Published
      BY <1>1 DEF Published
    <3>6. temp_read' = read' + tupd_num' /\ (Up /\ jnl_seqno # 0 => n = Published)
      BY <3>1, <1>1 DEF Layout
    <3>7. upc \in {"record", "commit", "advance"} => temp_read < write_wrap
      BY <3>1, <3>2, <1>2 DEF Layout
    <3>8. write_loc' <= write_wrap'
      BY <1>1, <1>2, <1>3
    <3>9. Layout(TRUE, n, n)'
      BY <3>2, <3>3, <3>4, <3>5, <3>6, <3>7, <3>8, <1>1, <1>3, <1>7 DEF Layout
    <3> QED BY <3>9
  <2> QED BY <2>1, <1>0, <1>1 DEF ReadInv, Seqnos
<1> QED BY <1>4, <1>5, <1>6, <1>8, <1>9 DEF IInv

\* The pool is folded: wrapped.
LEMMA WrapFlagInv == ASSUME IInv, WrapFlag PROVE IInv'
<1> USE DEF updVars, dbVars
<1>0. /\ TypeOK /\ FillInv /\ PipeInv /\ FlagInv /\ FreshInv /\ ReadInv /\ PoolSize \in Nat
      /\ \A s \in Trans : lens[s] \in Nat \ {0} /\ lens[s] <= PoolSize
  BY Known
<1>1. /\ UNCHANGED <<lens, data, write, write_wrap, jnl_seqno, read, read_jnl_seqno,
                     bad_trans, onln_rlbk_flg, restart, reported, upc, temp_read, upd_seqno,
                     tupd_num, applied, rolled_back, faults, write_loc, local_wrap, avail, next,
                     chan, cur>>
      /\ rpc = "wrap_flag" /\ rpc' = "copy" /\ wrapped' = TRUE /\ FlowControl(TRUE, write_loc)
  BY DEF WrapFlag
<1>2. /\ write_loc = 0 /\ write = 0 /\ cur \in Trans /\ ~wrapped /\ write_wrap >= 1
      /\ local_wrap = Larger(write_wrap, write_loc)
  BY <1>0, <1>1 DEF FillInv, Receiving, TypeOK
<1>3. xoff_sent' \in BOOLEAN /\ sending' \in BOOLEAN /\ wrapped' \in BOOLEAN
  BY <1>0, <1>1, FlowControlType
<1>4. TypeOK'
  BY <1>0, <1>1, <1>3 DEF TypeOK, Receiving
<1>5. FillInv'
  <2>1. lens[cur] \in Nat /\ lens[cur] <= PoolSize /\ 0 + lens[cur] <= PoolSize
        /\ 0 <= 0 + lens[cur] /\ \A i \in 0 .. 0 - 1 : FALSE
    BY <1>0, <1>2
  <2>2. Larger(write_wrap', write_loc') = local_wrap'
    BY <1>1, <1>2 DEF Larger
  <2> QED BY <2>1, <2>2, <1>0, <1>1, <1>2 DEF FillInv
<1>6. PipeInv' /\ jnl_seqno # 0
  BY <1>0, <1>1 DEF PipeInv, Published, Receiving
<1>7. ~reported /\ Up /\ Up'
  BY <1>0, <1>1 DEF FlagInv, Up
<1>8. FlagInv' /\ FreshInv'
  BY <1>0, <1>1, <1>6, <1>7, FlagStays, FreshStays
<1>9. ReadInv'
  <2>1. ASSUME Relies'
        PROVE  \E folded \in BOOLEAN, m, n \in Seqnos : Layout(folded, m, n)'
    <3>0. Relies
      BY <2>1, <1>1 DEF Relies
    <3>1. PICK folded \in BOOLEAN, m \in Seqnos, n \in Seqnos : Layout(folded, m, n)
      BY <3>0, <1>0 DEF ReadInv
    <3>2. folded /\ upc # "unwrap"
      BY <3>1, <1>1, <1>2 DEF Layout
    <3>3. /\ Chain(temp_read, write_wrap, Position, <<m, 1>>)'
          /\ Chain(0, write, <<m, 1>>, <<n, 1>>)'
      <4>1. /\ Chain(temp_read, write_wrap, Position, <<m, 1>>)
            /\ Chain(0, write, <<m, 1>>, <<n, 1>>)
        BY <3>1, <3>2 DEF Layout
      <4> QED BY <4>1, <1>1 DEF Chain, Succ, Records, Position
    <3>5. Published' = Published
      BY <1>1 DEF Published
    <3>6. /\ temp_read' = read' + tupd_num' /\ (Up /\ jnl_seqno # 0 => n = Published)
          /\ write_loc <= write_wrap
      BY <3>1, <3>2, <1>1 DEF Layout, Receiving
    <3>7. /\ upc \in {"record", "commit", "advance"} => temp_read < write_wrap
          /\ upc = "wrapped" => temp_read = write_wrap
      BY <3>1, <3>2 DEF Layout
    <3>9. Layout(folded, m, n)'
      BY <3>2, <3>3, <3>5, <3>6, <3>7, <1>1, <1>2, <1>7 DEF Layout
    <3> QED BY <3>1, <3>9
  <2> QED BY <2>1, <1>0, <1>1 DEF ReadInv, Seqnos
<1> QED BY <1>4, <1>5, <1>6, <1>8, <1>9 DEF IInv

\* Records are copied into cells that the update process does not need.
LEMMA CopyInv == ASSUME IInv, NEW k \in 1 .. PoolSize, CopyToRecvpool(k) PROVE IInv'
<1> USE DEF ctlVars, updVars, dbVars, srcVars
<1>0. /\ TypeOK /\ FillInv /\ PipeInv /\ FlagInv /\ FreshInv /\ ReadInv /\ PoolSize \in Nat
      /\ \A s \in Trans : lens[s] \in Nat \ {0} /\ lens[s] <= PoolSize
      /\ NumTrans \in Nat
  BY Known
<1>1. /\ UNCHANGED <<lens, write, write_wrap, wrapped, jnl_seqno, read, read_jnl_seqno,
                     bad_trans, onln_rlbk_flg, restart, reported, upc, temp_read, upd_seqno,
                     tupd_num, applied, rolled_back, faults, avail, next, chan, sending, cur,
                     xoff_sent>>
      /\ rpc = "copy" /\ write_loc + k <= write + lens[cur]
      /\ wrapped => read > write_loc + k
      /\ write_loc' = write_loc + k /\ local_wrap' = Larger(local_wrap, write_loc')
      /\ rpc' = IF write_loc' = write + lens[cur] THEN "process" ELSE "copy"
  BY DEF CopyToRecvpool, RoomFor
<1>c. data' = [i \in DOMAIN data |->
                 IF i \in write_loc .. write_loc + k - 1
                 THEN <<cur, i - write + 1>> ELSE data[i]]
  BY DEF CopyToRecvpool
<1>2. /\ write \in Nat /\ write_loc \in Nat /\ k \in Nat \ {0} /\ write_wrap \in Nat
      /\ cur \in Trans /\ lens[cur] \in Nat \ {0} /\ lens[cur] <= PoolSize
      /\ write <= write_loc /\ write + lens[cur] <= PoolSize
      /\ local_wrap = Larger(write_wrap, write_loc) /\ local_wrap \in Nat
      /\ \A i \in write .. write_loc - 1 : data[i] = <<cur, i - write + 1>>
      /\ DOMAIN data = 0 .. PoolSize - 1
      /\ write_loc + k \in Nat /\ write_loc + k <= PoolSize
  <2>1. /\ cur \in Trans /\ write <= write_loc /\ write + lens[cur] <= PoolSize
        /\ local_wrap = Larger(write_wrap, write_loc)
        /\ \A i \in write .. write_loc - 1 : data[i] = <<cur, i - write + 1>>
    BY <1>0, <1>1 DEF FillInv, Receiving
  <2>2. /\ write \in Nat /\ write_loc \in Nat /\ write_wrap \in Nat /\ local_wrap \in Nat
        /\ DOMAIN data = 0 .. PoolSize - 1
    BY <1>0 DEF TypeOK
  <2>3. lens[cur] \in Nat \ {0} /\ lens[cur] <= PoolSize /\ k \in Nat \ {0}
    BY <2>1, <1>0
  <2>4. write_loc + k \in Nat /\ write_loc + k <= PoolSize
    BY <2>1, <2>2, <2>3, <1>0, <1>1
  <2> QED BY <2>1, <2>2, <2>3, <2>4
<1>3. /\ \A i \in 0 .. write_loc - 1 : data'[i] = data[i]
      /\ \A i \in write_loc + k .. PoolSize - 1 : data'[i] = data[i]
      /\ \A i \in write_loc .. write_loc + k - 1 : data'[i] = <<cur, i - write + 1>>
  <2>1. \A i \in 0 .. PoolSize - 1 :
           data'[i] = IF i \in write_loc .. write_loc + k - 1
                      THEN <<cur, i - write + 1>> ELSE data[i]
    BY <1>c, <1>2
  <2>2. ASSUME NEW i \in 0 .. write_loc - 1 PROVE data'[i] = data[i]
    <3>1. i \in 0 .. PoolSize - 1 /\ i \notin write_loc .. write_loc + k - 1
      BY <1>0, <1>2
    <3> QED BY <2>1, <3>1
  <2>3. ASSUME NEW i \in write_loc + k .. PoolSize - 1 PROVE data'[i] = data[i]
    <3>1. i \in 0 .. PoolSize - 1 /\ i \notin write_loc .. write_loc + k - 1
      BY <1>0, <1>2
    <3> QED BY <2>1, <3>1
  <2>4. ASSUME NEW i \in write_loc .. write_loc + k - 1 PROVE data'[i] = <<cur, i - write + 1>>
    <3>1. i \in 0 .. PoolSize - 1
      BY <1>0, <1>2
    <3> QED BY <2>1, <3>1
  <2> QED BY <2>2, <2>3, <2>4
<1>4. TypeOK'
  <2>1. data' \in [0 .. PoolSize - 1 -> (Trans \union {NoTrans}) \X (0 .. PoolSize)]
    <3>1. \A i \in 0 .. PoolSize - 1 : data[i] \in (Trans \union {NoTrans}) \X (0 .. PoolSize)
      BY <1>0 DEF TypeOK
    <3>2. \A i \in write_loc .. write_loc + k - 1 :
            <<cur, i - write + 1>> \in (Trans \union {NoTrans}) \X (0 .. PoolSize)
      <4> SUFFICES ASSUME NEW i \in write_loc .. write_loc + k - 1
                   PROVE  i - write + 1 \in 0 .. PoolSize
        BY <1>2
      <4>1. i \in Nat /\ write <= i /\ i + 1 <= write + lens[cur]
        BY <1>0, <1>1, <1>2
      <4> QED BY <4>1, <1>0, <1>2
    <3> QED BY <3>1, <3>2, <1>c, <1>2
  <2>2. write_loc' \in 0 .. PoolSize /\ local_wrap' \in 0 .. PoolSize
    <3>1. write_loc' \in 0 .. PoolSize /\ local_wrap \in 0 .. PoolSize
      BY <1>0, <1>1, <1>2 DEF TypeOK
    <3> QED BY <3>1, <1>1 DEF Larger
  <2>3. rpc' \in Receiving \union {"down", "restarting", "connect", "start"}
    BY <1>1 DEF Receiving
  <2>4. UNCHANGED <<write, write_wrap, wrapped, jnl_seqno, read, read_jnl_seqno,
                    bad_trans, onln_rlbk_flg, restart, reported, upc, temp_read, upd_seqno,
                    tupd_num, applied, rolled_back, faults, avail, next, chan, sending, cur,
                    xoff_sent>>
    BY <1>1
  <2>5. TypeOK
    BY <1>0
  <2> QED BY SMTT(30), <2>1, <2>2, <2>3, <2>4, <2>5 DEF TypeOK
<1>5. FillInv'
  <2>1. local_wrap' = Larger(write_wrap', write_loc')
    BY <1>1, <1>2 DEF Larger
  <2>2. \A i \in write .. write_loc' - 1 : data'[i] = <<cur, i - write + 1>>
    <3> SUFFICES ASSUME NEW i \in write .. write_loc' - 1
                 PROVE  data'[i] = <<cur, i - write + 1>>
      OBVIOUS
    <3>1. CASE i \in write .. write_loc - 1
      <4>1. i \in 0 .. write_loc - 1
        BY <3>1, <1>2
      <4> QED BY <3>1, <4>1, <1>2, <1>3
    <3>2. CASE i \in write_loc .. write_loc + k - 1
      BY <3>2, <1>3
    <3>3. i < write_loc \/ i >= write_loc
      BY <1>2
    <3>4. i \in write .. write_loc + k - 1
      <4>1. write_loc' = write_loc + k
        BY <1>1
      <4> QED BY <4>1, <1>2
    <3>5. i \in write .. write_loc - 1 \/ i \in write_loc .. write_loc + k - 1
      BY <3>3, <3>4, <1>2
    <3> QED BY <3>1, <3>2, <3>5
  <2>3. write <= write_loc' /\ write_loc' <= write + lens[cur]
    BY <1>1, <1>2
  <2>4. rpc' = "process" \/ rpc' = "copy"
    BY <1>1
  <2>5. rpc' = "process" => write_loc' = write + lens[cur]
    BY <1>1
  <2> QED BY <2>1, <2>2, <2>3, <2>4, <2>5, <1>0, <1>1, <1>2 DEF FillInv
<1>6. PipeInv' /\ jnl_seqno # 0
  BY <1>0, <1>1 DEF PipeInv, Published, Receiving
<1>7. ~reported /\ Up /\ Up'
  BY <1>0, <1>1 DEF FlagInv, Up
<1>8. FlagInv' /\ FreshInv'
  BY <1>0, <1>1, <1>6, <1>7, FlagStays, FreshStays
<1>9. ReadInv'
  <2>1. ASSUME Relies'
        PROVE  \E folded \in BOOLEAN, m, n \in Seqnos : Layout(folded, m, n)'
    <3>0. Relies
      BY <2>1, <1>1 DEF Relies
    <3>1. PICK folded \in BOOLEAN, m \in Seqnos, n \in Seqnos : Layout(folded, m, n)
      BY <3>0, <1>0 DEF ReadInv
    <3>2. folded => wrapped
      BY <3>1, <1>1, <1>7 DEF Layout
    <3>3. temp_read \in Nat /\ read \in Nat /\ tupd_num \in Nat /\ temp_read = read + tupd_num
      BY <3>1, <1>0 DEF Layout, TypeOK
    <3>4. ASSUME folded
          PROVE  /\ Chain(temp_read, write_wrap, Position, <<m, 1>>)'
                 /\ Chain(0, write, <<m, 1>>, <<n, 1>>)'
                 /\ write_loc' <= write_wrap
      <4>1. /\ Chain(temp_read, write_wrap, Position, <<m, 1>>)
            /\ Chain(0, write, <<m, 1>>, <<n, 1>>)
        BY <3>1, <3>4 DEF Layout
      <4>2. write_loc + k < temp_read /\ temp_read <= write_wrap /\ write_wrap <= PoolSize
        <5>1. write_loc + k < read
          BY <3>2, <3>3, <3>4, <1>1, <1>2
        <5>2. write_loc + k < temp_read
          BY <5>1, <3>3, <1>2
        <5>3. write_wrap <= PoolSize
          BY <1>0 DEF TypeOK
        <5> QED BY <5>2, <5>3, <4>1 DEF Chain
      <4>3. \A i \in temp_read .. write_wrap - 1 : data'[i] = data[i]
        <5> SUFFICES ASSUME NEW i \in temp_read .. write_wrap - 1 PROVE data'[i] = data[i]
          OBVIOUS
        <5>1. i \in write_loc + k .. PoolSize - 1
          BY <4>2, <3>3, <1>0, <1>2
        <5> QED BY <5>1, <1>3
      <4>4. \A i \in 0 .. write - 1 : data'[i] = data[i]
        <5> SUFFICES ASSUME NEW i \in 0 .. write - 1 PROVE data'[i] = data[i]
          OBVIOUS
        <5>1. i \in 0 .. write_loc - 1
          BY <1>2
        <5> QED BY <5>1, <1>3
      <4>5. \A f, l : Chain(temp_read, write_wrap, f, l) => Chain(temp_read, write_wrap, f, l)'
        BY <4>3, <3>3, <1>1, <1>2, ChainStays
      <4>6. \A f, l : Chain(0, write, f, l) => Chain(0, write, f, l)'
        BY <4>4, <1>1, <1>2, ChainStays
      <4>7. Position' = Position
        BY <1>1 DEF Position
      <4>8. Chain(temp_read, write_wrap, Position, <<m, 1>>)'
        BY <4>1, <4>5, <4>7
      <4>9. Chain(0, write, <<m, 1>>, <<n, 1>>)'
        BY <4>1, <4>6
      <4>10. write_loc' <= write_wrap
        BY <4>2, <3>3, <1>1, <1>2
      <4> QED BY <4>8, <4>9, <4>10
    <3>5. ASSUME ~folded PROVE Chain(temp_read, write, Position, <<n, 1>>)'
      <4>1. Chain(temp_read, write, Position, <<n, 1>>)
        BY <3>1, <3>5 DEF Layout
      <4>3. \A i \in temp_read .. write - 1 : data'[i] = data[i]
        <5> SUFFICES ASSUME NEW i \in temp_read .. write - 1 PROVE data'[i] = data[i]
          OBVIOUS
        <5>1. i \in 0 .. write_loc - 1
          BY <3>3, <1>2
        <5> QED BY <5>1, <1>3
      <4>5. \A f, l : Chain(temp_read, write, f, l) => Chain(temp_read, write, f, l)'
        BY <4>3, <3>3, <1>1, <1>2, ChainStays
      <4>7. Position' = Position
        BY <1>1 DEF Position
      <4> QED BY <4>1, <4>5, <4>7
    <3>6. Published' = Published
      BY <1>1 DEF Published
    <3>7. rpc' # "wrap_flag"
      BY <1>1
    <3>8. Layout(folded, m, n)'
      BY <3>1, <3>2, <3>4, <3>5, <3>6, <3>7, <1>1, <1>7 DEF Layout
    <3> QED BY <3>1, <3>8
  <2> QED BY <2>1, <1>0, <1>1 DEF ReadInv, Seqnos
<1> QED BY <1>4, <1>5, <1>6, <1>8, <1>9 DEF IInv

\* process_tr_buff, up to the memory barrier.
LEMMA ProcessTrBuffInv == ASSUME IInv, ProcessTrBuff PROVE IInv'
<1> USE DEF updVars, dbVars, srcVars
<1>0. TypeOK /\ FillInv /\ PipeInv /\ FlagInv /\ FreshInv /\ ReadInv /\ NumTrans \in Nat
  BY Known
<1>1. /\ UNCHANGED <<lens, data, write, wrapped, read, read_jnl_seqno,
                     bad_trans, onln_rlbk_flg, restart, reported, upc, temp_read, upd_seqno,
                     tupd_num, applied, rolled_back, faults, write_loc, local_wrap, avail, next,
                     chan, sending, cur, xoff_sent>>
      /\ rpc = "process" /\ rpc' = "publish"
      /\ write_wrap' = local_wrap /\ jnl_seqno' = jnl_seqno + 1
  BY DEF ProcessTrBuff
<1>2. /\ local_wrap = Larger(write_wrap, write_loc) /\ cur \in Trans /\ write <= write_wrap
      /\ write_wrap \in Nat /\ write_loc \in Nat /\ write \in Nat
  BY <1>0, <1>1 DEF FillInv, Receiving, TypeOK
<1>3. cur = jnl_seqno /\ jnl_seqno # 0 /\ jnl_seqno \in Nat /\ next - Len(chan) = jnl_seqno + 1
  <2>1. cur # NoTrans
    BY <1>2 DEF Trans, NoTrans
  <2> QED BY <2>1, <1>0, <1>1 DEF PipeInv, Published, Receiving, TypeOK
<1>4. TypeOK'
  <2>1. jnl_seqno' \in 0 .. NumTrans + 1
    BY <1>0, <1>1, <1>2, <1>3 DEF Trans
  <2> QED BY <2>1, <1>0, <1>1 DEF TypeOK, Receiving
<1>5. FillInv'
  <2>1. /\ local_wrap' = Larger(write_wrap', write_loc') /\ write' <= write_wrap'
    BY <1>1, <1>2 DEF Larger
  <2> QED BY <2>1, <1>0, <1>1, <1>2 DEF FillInv
<1>6. Published' = Published
  BY <1>1, <1>3 DEF Published
<1>7. PipeInv'
  <2>1. jnl_seqno' # 0
    BY <1>1, <1>3
  <2> QED BY <2>1, <1>0, <1>1, <1>6 DEF PipeInv, Receiving
<1>8. ~reported /\ Up /\ Up'
  BY <1>0, <1>1 DEF FlagInv, Up
<1>9. FlagInv' /\ FreshInv'
  <2>1. jnl_seqno # 0 /\ jnl_seqno' # 0
    BY <1>1, <1>3
  <2> QED BY <2>1, <1>0, <1>1, <1>8, FlagStays, FreshStays
<1>10. ReadInv'
  <2>1. ASSUME Relies'
        PROVE  \E folded \in BOOLEAN, m, n \in Seqnos : Layout(folded, m, n)'
    <3>0. Relies
      BY <2>1, <1>1 DEF Relies
    <3>1. PICK folded \in BOOLEAN, m \in Seqnos, n \in Seqnos : Layout(folded, m, n)
      BY <3>0, <1>0 DEF ReadInv
    <3>2. folded => write_wrap' = write_wrap /\ write_loc <= write_wrap
      <4>1. folded => write_loc <= write_wrap
        BY <3>1, <1>1 DEF Layout, Receiving
      <4> QED BY <4>1, <1>1, <1>2 DEF Larger
    <3>3. ~folded => Chain(temp_read, write, Position, <<n, 1>>)'
      <4>1. ~folded => Chain(temp_read, write, Position, <<n, 1>>)
        BY <3>1 DEF Layout
      <4> QED BY <4>1, <1>1 DEF Chain, Succ, Records, Position
    <3>4. folded => /\ Chain(temp_read, write_wrap, Position, <<m, 1>>)'
                    /\ Chain(0, write, <<m, 1>>, <<n, 1>>)'
      <4>1. folded => /\ Chain(temp_read, write_wrap, Position, <<m, 1>>)
                      /\ Chain(0, write, <<m, 1>>, <<n, 1>>)
        BY <3>1 DEF Layout
      <4> QED BY <4>1, <3>2, <1>1 DEF Chain, Succ, Records, Position
    <3>5. Layout(folded, m, n)'
      BY <3>1, <3>2, <3>3, <3>4, <1>1, <1>3, <1>6, <1>8 DEF Layout
    <3> QED BY <3>1, <3>5
  <2> QED BY <2>1, <1>0, <1>1 DEF ReadInv, Seqnos
<1> QED BY <1>4, <1>5, <1>7, <1>9, <1>10 DEF IInv

\* The transaction is published.
LEMMA PublishWriteInv == ASSUME IInv, PublishWrite PROVE IInv'
<1> USE DEF updVars, dbVars, srcVars
<1>0. /\ TypeOK /\ FillInv /\ PipeInv /\ FlagInv /\ FreshInv /\ ReadInv /\ NumTrans \in Nat
      /\ \A s \in Trans : lens[s] \in Nat \ {0} /\ lens[s] <= PoolSize
  BY Known
<1>1. /\ UNCHANGED <<lens, data, write_wrap, wrapped, jnl_seqno, read, read_jnl_seqno,
                     bad_trans, onln_rlbk_flg, restart, reported, upc, temp_read, upd_seqno,
                     tupd_num, applied, rolled_back, faults, write_loc, local_wrap, avail, next,
                     chan, sending, xoff_sent>>
      /\ rpc = "publish" /\ rpc' = "recv" /\ write' = write_loc /\ cur' = NoTrans
  BY DEF PublishWrite
<1>2. /\ local_wrap = Larger(write_wrap, write_loc) /\ cur \in Trans /\ write <= write_wrap
      /\ write_loc = write + lens[cur] /\ write_wrap = local_wrap /\ lens \in [Trans -> Lens]
      /\ \A i \in write .. write_loc - 1 : data[i] = <<cur, i - write + 1>>
  BY <1>0, <1>1 DEF FillInv, Receiving
<1>3. /\ write \in Nat /\ write_loc \in Nat /\ write_wrap \in Nat /\ lens[cur] \in Nat \ {0}
      /\ write < write_loc /\ write_loc <= write_wrap
  <2>1. write \in Nat /\ write_loc \in Nat /\ write_wrap \in Nat /\ lens[cur] \in Nat \ {0}
    BY <1>0, <1>2 DEF TypeOK
  <2> QED BY <2>1, <1>2 DEF Larger
<1>4. /\ cur = jnl_seqno - 1 /\ jnl_seqno # 0 /\ jnl_seqno \in Nat
      /\ next - Len(chan) = jnl_seqno /\ jnl_seqno = cur + 1
  <2>1. cur # NoTrans
    BY <1>2 DEF Trans, NoTrans
  <2>2. /\ cur = jnl_seqno - 1 /\ jnl_seqno # 0 /\ jnl_seqno \in Nat
        /\ next - Len(chan) = (jnl_seqno - 1) + 1
    BY <2>1, <1>0, <1>1 DEF PipeInv, Published, Receiving, TypeOK
  <2> QED BY <2>2
<1>5. TypeOK'
  BY <1>0, <1>1 DEF TypeOK, Receiving
<1>6. FillInv'
  BY <1>0, <1>1, <1>2, <1>3 DEF FillInv, Larger
<1>7. Published' = jnl_seqno /\ Published = cur
  BY <1>1, <1>4 DEF Published
<1>8. PipeInv'
  BY <1>0, <1>1, <1>4, <1>7 DEF PipeInv
<1>9. ~reported /\ Up /\ Up'
  BY <1>0, <1>1 DEF FlagInv, Up
<1>10. FlagInv' /\ FreshInv'
  BY <1>0, <1>1, <1>4, <1>9, FlagStays, FreshStays
<1>11. ReadInv'
  <2>1. ASSUME Relies'
        PROVE  \E folded \in BOOLEAN, m, n \in Seqnos : Layout(folded, m, n)'
    <3>0. Relies
      BY <2>1, <1>1 DEF Relies
    <3>1. PICK folded \in BOOLEAN, m \in Seqnos, n \in Seqnos : Layout(folded, m, n)
      BY <3>0, <1>0 DEF ReadInv
    <3>2. n = cur
      BY <3>1, <1>4, <1>7, <1>9 DEF Layout
    <3>3. temp_read \in Nat
      BY <1>0 DEF TypeOK
    <3>4. \A i \in write .. write + lens[cur] - 1 : data[i] = <<cur, i - write + 1>>
      BY <1>2, <1>3
    <3>5. ~folded => Chain(temp_read, write, Position, <<jnl_seqno, 1>>)'
      <4>1. ASSUME ~folded PROVE Chain(temp_read, write_loc, Position, <<jnl_seqno, 1>>)
        <5>1. Chain(temp_read, write, Position, <<cur, 1>>)
          BY <3>1, <3>2, <4>1 DEF Layout
        <5>2. Chain(temp_read, write + lens[cur], Position, <<cur + 1, 1>>)
          BY <5>1, <3>3, <3>4, <1>2, <1>3, ChainExtend
        <5> QED BY <5>2, <1>2, <1>4
      <4> QED BY <4>1, <1>1 DEF Chain, Succ, Records, Position
    <3>6. folded => /\ Chain(temp_read, write_wrap, Position, <<m, 1>>)'
                    /\ Chain(0, write, <<m, 1>>, <<jnl_seqno, 1>>)'
      <4>1. ASSUME folded PROVE Chain(0, write_loc, <<m, 1>>, <<jnl_seqno, 1>>)
        <5>1. Chain(0, write, <<m, 1>>, <<cur, 1>>)
          BY <3>1, <3>2, <4>1 DEF Layout
        <5>2. Chain(0, write + lens[cur], <<m, 1>>, <<cur + 1, 1>>)
          BY <5>1, <3>4, <1>2, <1>3, ChainExtend
        <5> QED BY <5>2, <1>2, <1>4
      <4>2. folded => Chain(temp_read, write_wrap, Position, <<m, 1>>)
        BY <3>1 DEF Layout
      <4> QED BY <4>1, <4>2, <1>1 DEF Chain, Succ, Records, Position
    <3>7. /\ upc \in {"record", "commit", "advance"} =>
               temp_read < IF folded THEN write_wrap ELSE write_loc
          /\ upc = "end" => folded \/ temp_read < write_loc
      <4>1. /\ upc \in {"record", "commit", "advance"} =>
                 temp_read < IF folded THEN write_wrap ELSE write
            /\ upc = "end" => folded \/ temp_read < write
        BY <3>1 DEF Layout
      <4> QED BY <4>1, <3>3, <1>3
    <3>8. Layout(folded, m, jnl_seqno)'
      BY <3>1, <3>5, <3>6, <3>7, <1>1, <1>3, <1>7, <1>9 DEF Layout
    <3>9. jnl_seqno \in Seqnos
      BY <1>0, <1>4 DEF TypeOK, Seqnos
    <3>10. Layout(folded, m, jnl_seqno)' <=> \E n1 \in {jnl_seqno} : Layout(folded, m, n1)'
      BY <1>1 DEF Layout, Chain
    <3> QED BY <3>1, <3>8, <3>9, <3>10
  <2> QED BY <2>1, <1>0, <1>1 DEF ReadInv, Seqnos
<1> QED BY <1>5, <1>6, <1>8, <1>10, <1>11 DEF IInv

----------------------------------------------------------------------------
(* gtmrecv_poll_actions, and restarts of the receiver server.              *)

\* A bad transaction and an online rollback do not come together.
LEMMA NotBoth ==
    ASSUME Excluded, FlagInv, rolled_back \/ onln_rlbk_flg \/ upc = "rollback"
    PROVE  ~bad_trans
<1>1. "rollback" \in faults /\ \E fs \in FaultSets : faults \subseteq fs
  BY DEF FlagInv
<1> QED BY <1>1 DEF FlagInv, Excluded

\* What a fault does.
LEMMA FaultFacts ==
    ASSUME NEW f \in Faults, TypeOK, Fault(f)
    PROVE  /\ faults' \subseteq Faults /\ faults \subseteq faults' /\ f \in faults'
           /\ \E fs \in FaultSets : faults' \subseteq fs
BY DEF Fault, TypeOK

\* What is true where the receiver server polls.
LEMMA PollFacts ==
    ASSUME Excluded, IInv, Polls
    PROVE  /\ Up /\ restart = "NO_RESTART"
           /\ rpc \in {"connect", "recv", "copy", "start", "wrap"}
           /\ rpc = "start" => jnl_seqno = 0
<1>1. rpc \in {"connect", "recv", "copy", "start", "wrap"}
  BY DEF Polls, Excluded
<1> QED BY <1>1, Known DEF Polls, Up, FlagInv

\* The pipe is emptied.
LEMMA DrainFacts ==
    ASSUME TypeOK, Drain
    PROVE  /\ next' = next /\ chan' = << >> /\ avail' = avail /\ sending' \in BOOLEAN
           /\ chan' \in Seq(Trans) /\ next' \in Nat \ {0}
<1>1. next' = next /\ chan' = << >> /\ avail' = avail /\ sending' = FALSE
  BY DEF Drain, Stream!Restart
<1>2. sending' \in BOOLEAN
  BY <1>1, Zenon
<1>3. next \in Nat \ {0}
  BY DEF TypeOK
<1>4. chan' \in Seq(Trans)
  BY <1>1
<1> QED BY <1>1, <1>2, <1>3, <1>4

\* The update process is found dead.
LEMMA PollDeadInv == ASSUME Excluded, IInv, PollDead PROVE IInv'
<1> USE DEF ctlVars, updVars, dbVars
<1>0. TypeOK /\ FillInv /\ PipeInv /\ FlagInv /\ FreshInv /\ NumTrans \in Nat
  BY Known
<1>1. /\ UNCHANGED <<lens, data, write, write_wrap, wrapped, read, read_jnl_seqno, restart,
                     upc, temp_read, upd_seqno, tupd_num, applied, rolled_back, faults,
                     write_loc, local_wrap, xoff_sent>>
      /\ Polls /\ upc = "dead" /\ reported' = TRUE /\ jnl_seqno' = 0
      /\ bad_trans' = FALSE /\ onln_rlbk_flg' = FALSE
      /\ (rpc # "handshake" => Drain) /\ WaitForJnlSeqno
  BY DEF PollDead, UnknownSeqno
<1>2. /\ Up /\ restart = "NO_RESTART" /\ rpc # "handshake"
      /\ rpc' \in {"connect", "start"} /\ cur' = NoTrans
  BY <1>1, PollFacts DEF WaitForJnlSeqno
<1>3. /\ next' = next /\ chan' = << >> /\ avail' = avail /\ sending' \in BOOLEAN
      /\ chan' \in Seq(Trans) /\ next' \in Nat \ {0}
  BY <1>0, <1>1, <1>2, DrainFacts
<1>4. TypeOK'
  <2>1. reported' \in BOOLEAN /\ bad_trans' \in BOOLEAN /\ onln_rlbk_flg' \in BOOLEAN
    BY <1>1, Zenon
  <2>2. jnl_seqno' \in 0 .. NumTrans + 1
    BY <1>0, <1>1
  <2> QED BY <2>1, <2>2, <1>0, <1>1, <1>2, <1>3 DEF TypeOK
<1>5. FillInv' /\ PipeInv'
  <2>1. rpc' \notin Receiving /\ write' <= write_wrap'
    BY <1>0, <1>1, <1>2 DEF Receiving, FillInv
  <2> QED BY <2>1, <1>0, <1>1, <1>3, FillStops, PipeStops
<1>6. FlagInv'
  BY <1>0, <1>1, <1>2 DEF FlagInv, Up
<1>7. FreshInv'
  BY <1>1 DEF FreshInv
<1>8. ReadInv'
  BY <1>1, ReadFree DEF Relies, Reading
<1> QED BY <1>4, <1>5, <1>6, <1>7, <1>8 DEF IInv

\* The update process is started again.
LEMMA PollStartUpdInv == ASSUME Excluded, IInv, PollStartUpd PROVE IInv'
<1> USE DEF dbVars, srcVars
<1>0. TypeOK /\ FillInv /\ PipeInv /\ FlagInv /\ FreshInv /\ PoolSize \in Nat
  BY Known
<1>1. /\ UNCHANGED <<lens, data, jnl_seqno, read, read_jnl_seqno, bad_trans, onln_rlbk_flg,
                     restart, temp_read, upd_seqno, tupd_num, applied, rolled_back, faults,
                     write_loc, local_wrap, xoff_sent, avail, next, chan, sending>>
      /\ Polls /\ upc = "dead" /\ reported /\ reported' = FALSE /\ upc' = "init"
      /\ write' = 0 /\ write_wrap' = PoolSize /\ wrapped' = FALSE /\ WaitForJnlSeqno
  BY DEF PollStartUpd, ResetPool
<1>2. /\ Up /\ restart = "NO_RESTART" /\ jnl_seqno = 0 /\ ~bad_trans
      /\ rpc' \in {"connect", "start"} /\ cur' = NoTrans
  BY <1>0, <1>1, PollFacts DEF WaitForJnlSeqno, FlagInv
<1>4. TypeOK'
  <2>1. reported' \in BOOLEAN /\ wrapped' \in BOOLEAN
    BY <1>1, Zenon
  <2>2. write' \in 0 .. PoolSize /\ write_wrap' \in 0 .. PoolSize
    BY <1>0, <1>1
  <2> QED BY <2>1, <2>2, <1>0, <1>1, <1>2 DEF TypeOK
<1>5. FillInv' /\ PipeInv'
  <2>1. rpc' \notin Receiving /\ write' <= write_wrap'
    BY <1>0, <1>1, <1>2 DEF Receiving
  <2> QED BY <2>1, <1>0, <1>1, FillStops, PipeStops
<1>6. FlagInv'
  BY <1>0, <1>1, <1>2 DEF FlagInv, Up
<1>7. FreshInv'
  BY <1>0, <1>1, <1>2 DEF FreshInv
<1>8. ReadInv'
  BY <1>1, ReadFree DEF Relies, Reading
<1> QED BY <1>4, <1>5, <1>6, <1>7, <1>8 DEF IInv

\* The update process met a bad transaction.
LEMMA PollBadTransInv == ASSUME Excluded, IInv, PollBadTrans PROVE IInv'
<1> USE DEF updVars, dbVars, srcVars
<1>0. TypeOK /\ FillInv /\ PipeInv /\ FlagInv /\ FreshInv /\ PoolSize \in Nat
  BY Known
<1>1. /\ UNCHANGED <<lens, data, read, read_jnl_seqno, onln_rlbk_flg, restart, upc,
                     temp_read, upd_seqno, tupd_num, applied, rolled_back, faults, xoff_sent,
                     reported>>
      /\ Polls /\ bad_trans /\ ~onln_rlbk_flg /\ upc # "bad" /\ bad_trans' = FALSE
      /\ write' = 0 /\ write_wrap' = PoolSize /\ wrapped' = FALSE
      /\ jnl_seqno' = read_jnl_seqno /\ write_loc' = 0 /\ local_wrap' = PoolSize
      /\ cur' = NoTrans /\ rpc # "start"
  BY DEF PollBadTrans, ResetPool, Excluded
<1>2. /\ Up /\ restart = "NO_RESTART" /\ upc \in {"top", "dead"} /\ ~reported
      /\ rpc \in {"connect", "recv", "copy", "wrap"}
  BY <1>0, <1>1, PollFacts DEF FlagInv, FreshInv
<1>3. \/ rpc' = "connect" /\ UNCHANGED <<avail, next, chan, sending>>
      \/ /\ rpc' = "recv" /\ sending' = TRUE /\ chan' = << >> /\ next' = read_jnl_seqno
         /\ avail' = avail /\ read_jnl_seqno \in 1 .. avail + 1
  BY <1>2 DEF PollBadTrans, Stream!Restart
<1>4. TypeOK'
  <2>0. bad_trans' \in BOOLEAN /\ wrapped' \in BOOLEAN
    BY <1>1, Zenon
  <2>1. /\ write' \in 0 .. PoolSize /\ write_wrap' \in 0 .. PoolSize
        /\ write_loc' \in 0 .. PoolSize /\ local_wrap' \in 0 .. PoolSize
        /\ cur' \in Trans \union {NoTrans}
    BY <1>0, <1>1
  <2>5. jnl_seqno' \in 0 .. NumTrans + 1
    <3>1. jnl_seqno' = read_jnl_seqno
      BY <1>1
    <3>2. read_jnl_seqno \in 0 .. NumTrans + 1
      BY <1>0 DEF TypeOK
    <3> QED BY <3>1, <3>2
  <2>2. chan' \in Seq(Trans) /\ next' \in 1 .. NumTrans + 1 /\ avail' = NumTrans
    <3>1. chan \in Seq(Trans) /\ next \in 1 .. NumTrans + 1 /\ avail = NumTrans
      BY <1>0 DEF TypeOK
    <3>2. << >> \in Seq(Trans)
      OBVIOUS
    <3> QED BY <3>1, <3>2, <1>3
  <2>3. rpc' \in Receiving \union {"down", "restarting", "connect", "start"}
    BY <1>3 DEF Receiving
  <2>4. sending' \in BOOLEAN
    <3>1. sending' = sending \/ sending' = TRUE
      BY <1>3
    <3>2. sending \in BOOLEAN
      BY <1>0 DEF TypeOK
    <3> QED BY <3>1, <3>2, Zenon
  <2> QED BY <2>0, <2>4, <2>5, <2>1, <2>2, <2>3, <1>0, <1>1 DEF TypeOK
<1>5. FillInv' /\ PipeInv'
  <2>1. CASE rpc' = "connect"
    <3>1. rpc' \notin Receiving /\ write' <= write_wrap'
      BY <1>0, <1>1, <2>1 DEF Receiving
    <3>2. UNCHANGED <<chan, next>>
      BY <1>3, <2>1
    <3> QED BY <3>1, <3>2, <1>0, <1>1, FillStops, PipeStops
  <2>2. CASE rpc' = "recv"
    <3>1. Larger(PoolSize, 0) = PoolSize /\ 0 <= PoolSize
      BY <1>0 DEF Larger
    <3>2. FillInv'
      BY <3>1, <2>2, <1>0, <1>1 DEF FillInv
    <3>3. /\ chan' = << >> /\ next' = read_jnl_seqno /\ read_jnl_seqno \in Nat \ {0}
          /\ Len(chan') = 0
      BY <2>2, <1>0, <1>3 DEF TypeOK
    <3>4. Published' = read_jnl_seqno
      BY <2>2, <1>1 DEF Published
    <3>5. PipeInv'
      BY <3>3, <3>4, <1>1 DEF PipeInv
    <3> QED BY <3>2, <3>5
  <2> QED BY <2>1, <2>2, <1>3
<1>6. FlagInv'
  BY <1>0, <1>1, <1>2, <1>3 DEF FlagInv, Up
<1>7. FreshInv'
  BY <1>0, <1>1, <1>2 DEF FreshInv
<1>8. ReadInv'
  <2>1. CASE upc = "dead"
    BY <2>1, <1>1, ReadFree DEF Relies, Reading
  <2>2. CASE upc = "top"
    <3>1. AtStart'
      BY <2>2, <1>0, <1>1 DEF FreshInv, AtStart
    <3>2. upd_seqno' = Published' /\ rpc' # "wrap_flag"
      BY <2>2, <1>0, <1>1, <1>3 DEF FlagInv, Published
    <3> QED BY <3>1, <3>2, <2>2, <1>1, <1>4, ReadFresh
  <2> QED BY <2>1, <2>2, <1>2
<1> QED BY <1>4, <1>5, <1>6, <1>7, <1>8 DEF IInv

\* The update process met an online rollback.
LEMMA PollRollbackInv == ASSUME Excluded, IInv, PollRollback PROVE IInv'
<1> USE DEF updVars, dbVars
<1>0. TypeOK /\ FillInv /\ PipeInv /\ FlagInv /\ FreshInv /\ PoolSize \in Nat /\ NumTrans \in Nat
  BY Known
<1>1. /\ UNCHANGED <<lens, data, read, read_jnl_seqno, bad_trans, restart, upc, temp_read,
                     upd_seqno, tupd_num, applied, rolled_back, faults, write_loc, local_wrap,
                     xoff_sent, reported>>
      /\ Polls /\ onln_rlbk_flg /\ onln_rlbk_flg' = FALSE /\ jnl_seqno' = 0 /\ Drain
      /\ write' = 0 /\ write_wrap' = PoolSize /\ wrapped' = FALSE
      /\ rpc' = "connect" /\ cur' = NoTrans
  BY DEF PollRollback, ResetPool
<1>2. /\ Up /\ restart = "NO_RESTART" /\ ~bad_trans
      /\ upc \in {"rollback", "dead", "init", "init_read", "top"}
  BY <1>0, <1>1, PollFacts, NotBoth DEF FreshInv
<1>3. /\ next' = next /\ chan' = << >> /\ avail' = avail /\ sending' \in BOOLEAN
      /\ chan' \in Seq(Trans) /\ next' \in Nat \ {0}
  BY <1>0, <1>1, DrainFacts
<1>4. TypeOK'
  <2>1. onln_rlbk_flg' \in BOOLEAN /\ wrapped' \in BOOLEAN
    BY <1>1, Zenon
  <2>2. /\ write' \in 0 .. PoolSize /\ write_wrap' \in 0 .. PoolSize
        /\ jnl_seqno' \in 0 .. NumTrans + 1
    BY <1>0, <1>1
  <2> QED BY <2>1, <2>2, <1>0, <1>1, <1>3 DEF TypeOK
<1>5. FillInv' /\ PipeInv'
  <2>1. rpc' \notin Receiving /\ write' <= write_wrap'
    BY <1>0, <1>1 DEF Receiving
  <2> QED BY <2>1, <1>0, <1>1, <1>3, FillStops, PipeStops
<1>6. FlagInv'
  BY <1>0, <1>1, <1>2 DEF FlagInv, Up
<1>7. FreshInv'
  BY <1>0, <1>1, <1>2 DEF FreshInv
<1>8. ReadInv'
  <2>1. CASE upc \in {"rollback", "dead", "init"}
    BY <2>1, <1>1, ReadFree DEF Relies, Reading
  <2>2. CASE upc \in {"init_read", "top"}
    <3>1. AtStart'
      BY <2>2, <1>0, <1>1 DEF FreshInv, AtStart
    <3> QED BY <3>1, <2>2, <1>1, <1>4, ReadFresh
  <2> QED BY <2>1, <2>2, <1>2
<1> QED BY <1>4, <1>5, <1>6, <1>7, <1>8 DEF IInv

\* The connection breaks.
LEMMA ConnectionResetInv == ASSUME IInv, ConnectionReset PROVE IInv'
<1> USE DEF ctlVars, updVars, dbVars
<1>0. TypeOK /\ FillInv /\ PipeInv /\ FlagInv /\ FreshInv /\ ReadInv
  BY Known
<1>1. /\ UNCHANGED <<lens, data, write, write_wrap, wrapped, jnl_seqno, read, read_jnl_seqno,
                     bad_trans, onln_rlbk_flg, restart, upc, temp_read, upd_seqno, tupd_num,
                     applied, rolled_back, write_loc, local_wrap, xoff_sent, reported>>
      /\ rpc \in {"start", "handshake", "recv", "copy"} /\ Fault("reset") /\ Drain
      /\ rpc' = "connect" /\ cur' = NoTrans
  BY DEF ConnectionReset
<1>2. /\ faults' \subseteq Faults /\ faults \subseteq faults'
      /\ \E fs \in FaultSets : faults' \subseteq fs
  BY <1>0, <1>1, FaultFacts DEF Faults
<1>3. /\ next' = next /\ chan' = << >> /\ avail' = avail /\ sending' \in BOOLEAN
      /\ chan' \in Seq(Trans) /\ next' \in Nat \ {0}
  BY <1>0, <1>1, DrainFacts
<1>4. TypeOK'
  BY <1>0, <1>1, <1>2, <1>3 DEF TypeOK
<1>5. FillInv' /\ PipeInv' /\ rpc' \notin Receiving
  <2>1. rpc' \notin Receiving /\ write' <= write_wrap'
    BY <1>0, <1>1 DEF Receiving, FillInv
  <2> QED BY <2>1, <1>0, <1>1, <1>3, FillStops, PipeStops
<1>6. FlagInv' /\ Up /\ Up'
  BY <1>0, <1>1, <1>2 DEF FlagInv, Up
<1>7. FreshInv'
  BY <1>0, <1>1, FreshStays
<1>8. ReadInv'
  <2>1. (Relies' => Relies) /\ Published' = Published
    BY <1>1 DEF Relies, Published
  <2> QED BY <2>1, <1>0, <1>1, <1>5, <1>6, ReadStays
<1> QED BY <1>4, <1>5, <1>6, <1>7, <1>8 DEF IInv

\* The receiver server is killed.
LEMMA KillReceiverInv == ASSUME IInv, KillReceiver PROVE IInv'
<1> USE DEF ctlVars, updVars, dbVars
<1>0. TypeOK /\ FillInv /\ PipeInv /\ FlagInv /\ FreshInv /\ ReadInv /\ PoolSize \in Nat
  BY Known
<1>1. /\ UNCHANGED <<lens, data, write, write_wrap, wrapped, jnl_seqno, read, read_jnl_seqno,
                     bad_trans, onln_rlbk_flg, restart, upc, temp_read, upd_seqno, tupd_num,
                     applied, rolled_back>>
      /\ Fault("rcvr_killed") /\ Drain /\ rpc' = "down" /\ write_loc' = 0
      /\ local_wrap' = PoolSize /\ cur' = NoTrans /\ xoff_sent' = FALSE /\ reported' = FALSE
  BY DEF KillReceiver
<1>2. /\ faults' \subseteq Faults /\ faults \subseteq faults'
      /\ \E fs \in FaultSets : faults' \subseteq fs
  BY <1>0, <1>1, FaultFacts DEF Faults
<1>3. /\ next' = next /\ chan' = << >> /\ avail' = avail /\ sending' \in BOOLEAN
      /\ chan' \in Seq(Trans) /\ next' \in Nat \ {0}
  BY <1>0, <1>1, DrainFacts
<1>4. TypeOK'
  <2>1. xoff_sent' \in BOOLEAN /\ reported' \in BOOLEAN
    BY <1>1, Zenon
  <2>2. write_loc' \in 0 .. PoolSize /\ local_wrap' \in 0 .. PoolSize
    BY <1>0, <1>1
  <2> QED BY <2>1, <2>2, <1>0, <1>1, <1>2, <1>3 DEF TypeOK
<1>5. FillInv' /\ PipeInv' /\ rpc' \notin Receiving
  <2>1. rpc' \notin Receiving /\ write' <= write_wrap'
    BY <1>0, <1>1 DEF Receiving, FillInv
  <2> QED BY <2>1, <1>0, <1>1, <1>3, FillStops, PipeStops
<1>6. FlagInv' /\ ~Up'
  BY <1>0, <1>1, <1>2 DEF FlagInv, Up
<1>7. FreshInv'
  BY <1>0, <1>1, FreshStays
<1>8. ReadInv'
  <2>1. Relies' => Relies
    BY <1>1 DEF Relies
  <2> QED BY <2>1, <1>0, <1>1, <1>5, <1>6, ReadStays
<1> QED BY <1>4, <1>5, <1>6, <1>7, <1>8 DEF IInv

\* The receiver server is started again.
LEMMA RestartReceiverInv == ASSUME IInv, RestartReceiver PROVE IInv'
<1> USE DEF ctlVars, dbVars, srcVars
<1>0. TypeOK /\ FillInv /\ PipeInv /\ FlagInv /\ FreshInv /\ ReadInv
  BY Known
<1>1. /\ UNCHANGED <<lens, data, write, write_wrap, wrapped, jnl_seqno, read, read_jnl_seqno,
                     bad_trans, onln_rlbk_flg, temp_read, upd_seqno, tupd_num, applied,
                     rolled_back, write_loc, local_wrap, xoff_sent, reported, cur, avail, next,
                     chan, sending, faults>>
      /\ rpc = "down" /\ restart' = "RCVR_RESTARTED" /\ rpc' = "restarting"
      /\ upc' = IF upc = "dead" THEN "init" ELSE upc
  BY DEF RestartReceiver
<1>4. TypeOK'
  BY <1>0, <1>1 DEF TypeOK
<1>5. FillInv' /\ PipeInv' /\ rpc' \notin Receiving
  <2>1. rpc' \notin Receiving /\ write' <= write_wrap'
    BY <1>0, <1>1 DEF Receiving, FillInv
  <2> QED BY <2>1, <1>0, <1>1, FillStops, PipeStops
<1>6. FlagInv' /\ ~Up'
  BY <1>0, <1>1 DEF FlagInv, Up
<1>7. FreshInv'
  BY <1>0, <1>1 DEF FreshInv, AtStart
<1>8. ReadInv'
  <2>1. CASE upc = "dead"
    BY <2>1, <1>1, ReadFree DEF Relies, Reading
  <2>2. CASE upc # "dead"
    <3>1. (Relies' => Relies) /\ upc' = upc
      BY <2>2, <1>1 DEF Relies
    <3> QED BY <3>1, <1>0, <1>1, <1>5, <1>6, ReadStays
  <2> QED BY <2>1, <2>2
<1> QED BY <1>4, <1>5, <1>6, <1>7, <1>8 DEF IInv

\* The update process has answered, or is dead.
LEMMA ReceiverRestartedInv == ASSUME IInv, ReceiverRestarted PROVE IInv'
<1> USE DEF updVars, dbVars, srcVars
<1>0. TypeOK /\ FillInv /\ PipeInv /\ FlagInv /\ FreshInv /\ PoolSize \in Nat
  BY Known
<1>1. /\ UNCHANGED <<lens, data, jnl_seqno, read, read_jnl_seqno, onln_rlbk_flg, upc,
                     temp_read, upd_seqno, tupd_num, applied, rolled_back, write_loc,
                     local_wrap, xoff_sent, reported, cur, avail, next, chan, sending, faults>>
      /\ rpc = "restarting" /\ bad_trans' = FALSE /\ restart' = "NO_RESTART"
      /\ rpc' = "connect" /\ write' = 0 /\ write_wrap' = PoolSize /\ wrapped' = FALSE
      /\ restart # "RCVR_RESTARTED" \/ upc = "dead"
  BY DEF ReceiverRestarted, ResetPool, UpdAnswered
<1>2. /\ ~reported
      /\ \/ upc = "dead"
         \/ upc = "top" /\ jnl_seqno = upd_seqno /\ restart = "UPD_RESTARTED"
  BY <1>0, <1>1 DEF FlagInv, TypeOK
<1>4. TypeOK'
  <2>1. bad_trans' \in BOOLEAN /\ wrapped' \in BOOLEAN
    BY <1>1, Zenon
  <2>2. write' \in 0 .. PoolSize /\ write_wrap' \in 0 .. PoolSize
    BY <1>0, <1>1
  <2> QED BY <2>1, <2>2, <1>0, <1>1 DEF TypeOK
<1>5. FillInv' /\ PipeInv'
  <2>1. rpc' \notin Receiving /\ write' <= write_wrap'
    BY <1>0, <1>1 DEF Receiving
  <2> QED BY <2>1, <1>0, <1>1, FillStops, PipeStops
<1>6. FlagInv'
  BY <1>0, <1>1, <1>2 DEF FlagInv, Up
<1>7. FreshInv'
  BY <1>0, <1>1, <1>2 DEF FreshInv, AtStart
<1>8. ReadInv'
  <2>1. CASE upc = "dead"
    BY <2>1, <1>1, ReadFree DEF Relies, Reading
  <2>2. CASE upc = "top"
    <3>1. AtStart'
      BY <2>2, <1>0, <1>1, <1>2 DEF FreshInv, AtStart
    <3>2. upd_seqno' = Published'
      BY <2>2, <1>1, <1>2 DEF Published
    <3> QED BY <3>1, <3>2, <2>2, <1>1, <1>4, ReadFresh
  <2> QED BY <2>1, <2>2, <1>2
<1> QED BY <1>4, <1>5, <1>6, <1>7, <1>8 DEF IInv

----------------------------------------------------------------------------
(* The update process.                                                     *)

\* Its steps leave the receiver server alone.
LEMMA UpdFrame ==
    ASSUME IInv, UNCHANGED rcvrOwn, wrapped' = wrapped \/ wrapped' = FALSE,
           jnl_seqno' = jnl_seqno \/ rpc \notin Receiving
    PROVE  FillInv' /\ PipeInv'
BY Known, FillStays, PipeStays DEF rcvrOwn, rcvrVars, srcVars

\* It goes on to another test, and the pool stays as it is.
LEMMA UpcInv ==
    ASSUME IInv, TypeOK', FlagInv', FreshInv', Relies' => Relies,
           UNCHANGED <<rcvrOwn, wrapped, jnl_seqno, read, temp_read, upd_seqno, tupd_num>>,
           upc # "unwrap", upc' # "unwrap",
           \A folded \in BOOLEAN, m, n \in Seqnos : Relies /\ Layout(folded, m, n) =>
              /\ upc' \in {"record", "commit", "advance"} =>
                    temp_read < IF folded THEN write_wrap ELSE write
              /\ upc' = "end" => folded \/ temp_read < write
              /\ upc' = "wrapped" => folded /\ temp_read = write_wrap,
           upc' \in {"compare", "wrapped", "unwrap", "reread", "init_read"} => tupd_num = 0,
           upc' # "reread",
           upc' \in {"commit", "advance"} => upd_seqno \in Trans /\ tupd_num + 1 = lens[upd_seqno]
    PROVE  IInv'
<1> USE DEF rcvrOwn, rcvrVars
<1>1. FillInv' /\ PipeInv'
  BY UpdFrame
<1>2. Published' = Published /\ (Up' <=> Up)
  BY DEF Published, Up
<1>3. ASSUME Relies'
      PROVE  \E folded \in BOOLEAN, m, n \in Seqnos : Layout(folded, m, n)'
  <2>1. PICK folded \in BOOLEAN, m \in Seqnos, n \in Seqnos : Layout(folded, m, n)
    BY <1>3, Known DEF ReadInv
  <2>2. /\ upc' \in {"record", "commit", "advance"} =>
              temp_read < IF folded THEN write_wrap ELSE write
        /\ upc' = "end" => folded \/ temp_read < write
        /\ upc' = "wrapped" => folded /\ temp_read = write_wrap
    BY <2>1, <1>3
  <2>3. Layout(folded, m, n)'
    BY <2>1, <2>2, <1>2, LayoutStays
  <2> QED BY <2>1, <2>3
<1>4. ReadInv'
  BY <1>3 DEF ReadInv, Seqnos
<1> QED BY <1>1, <1>4 DEF IInv

\* Where it reads, it relies on the pool and no flag is set.
LEMMA ReadingFacts ==
    ASSUME IInv, upc \in Reading
    PROVE  /\ Relies /\ ~bad_trans /\ ~onln_rlbk_flg /\ restart # "UPD_RESTARTED" /\ ~reported
           /\ read_jnl_seqno = upd_seqno
           /\ temp_read \in Nat /\ read \in Nat /\ tupd_num \in Nat /\ write \in Nat
           /\ write_wrap \in Nat /\ write <= write_wrap /\ write_wrap <= PoolSize
           /\ \E folded \in BOOLEAN, m, n \in Seqnos : Layout(folded, m, n)
<1>1. TypeOK /\ FlagInv /\ FreshInv /\ ReadInv /\ FillInv
  BY Known
<1>2. Relies
  BY DEF Relies
<1>3. ~bad_trans /\ ~onln_rlbk_flg
  BY <1>1 DEF FreshInv, Reading
<1>4. restart # "UPD_RESTARTED" /\ ~reported /\ read_jnl_seqno = upd_seqno
  BY <1>1 DEF FlagInv, Reading
<1>5. /\ temp_read \in Nat /\ read \in Nat /\ tupd_num \in Nat /\ write \in Nat
      /\ write_wrap \in Nat /\ write_wrap <= PoolSize
  BY <1>1 DEF TypeOK
<1>6. write <= write_wrap
  BY <1>1 DEF FillInv
<1> QED BY <1>1, <1>2, <1>3, <1>4, <1>5, <1>6 DEF ReadInv

\* The flags and the test it is at, when it goes on from one test to the next.
LEMMA GoesOn ==
    ASSUME IInv, upc \in Reading \/ (upc = "top" /\ ~bad_trans /\ ~onln_rlbk_flg
                                     /\ restart = "NO_RESTART"),
           upc' \in Reading \/ upc' = "top",
           UNCHANGED <<rcvrOwn, jnl_seqno, bad_trans, onln_rlbk_flg, restart, rolled_back,
                       faults>>,
           wrapped' = wrapped \/ wrapped' = FALSE, read_jnl_seqno' = upd_seqno'
    PROVE  FlagInv' /\ FreshInv'
<1> USE DEF rcvrOwn, rcvrVars
<1>1. /\ FlagInv /\ FreshInv /\ ~bad_trans /\ ~onln_rlbk_flg /\ restart # "UPD_RESTARTED"
      /\ upc \notin {"dead", "init", "rollback", "bad"}
      /\ upc' \notin {"dead", "init", "rollback", "bad"}
  BY Known, ReadingFacts DEF Reading
<1>2. ~reported
  BY <1>1 DEF FlagInv
<1>3. FlagInv'
  BY <1>1, <1>2 DEF FlagInv, Up
<1>4. FreshInv'
  BY <1>1 DEF FreshInv
<1> QED BY <1>3, <1>4

\* It has seen an online rollback.
LEMMA RollbackSeenInv ==
    ASSUME IInv, upc \in Reading, rolled_back, OnlineRollbackSeen,
           UNCHANGED <<rcvrOwn, wrapped, jnl_seqno, read, read_jnl_seqno, bad_trans,
                       restart, temp_read, upd_seqno, tupd_num, applied, faults>>
    PROVE  IInv'
<1> USE DEF rcvrOwn, rcvrVars, srcVars
<1>0. TypeOK /\ FlagInv /\ FreshInv
  BY Known
<1>1. rolled_back' = FALSE /\ onln_rlbk_flg' = TRUE /\ upc' = "rollback"
  BY DEF OnlineRollbackSeen
<1>2. TypeOK'
  <2>1. rolled_back' \in BOOLEAN /\ onln_rlbk_flg' \in BOOLEAN
    BY <1>1, Zenon
  <2> QED BY <2>1, <1>0, <1>1 DEF TypeOK
<1>3. FillInv' /\ PipeInv'
  BY UpdFrame
<1>4. FlagInv'
  BY <1>0, <1>1, ReadingFacts DEF FlagInv, Up, Reading
<1>5. FreshInv'
  BY <1>0, <1>1, ReadingFacts DEF FreshInv
<1>6. ReadInv'
  BY <1>1, ReadFree DEF Relies, Reading
<1> QED BY <1>2, <1>3, <1>4, <1>5, <1>6 DEF IInv

\* It starts.
LEMMA UpdInitInv == ASSUME IInv, UpdInit PROVE IInv'
<1> USE DEF rcvrOwn, rcvrVars, srcVars
<1>0. TypeOK /\ PipeInv /\ FlagInv /\ FreshInv /\ PoolSize \in Nat /\ NumTrans \in Nat
  BY Known
<1>1. /\ UNCHANGED <<rcvrOwn, wrapped, bad_trans, onln_rlbk_flg, restart, applied, faults>>
      /\ upc = "init" /\ upc' = "init_read" /\ read' = 0 /\ read_jnl_seqno' = 0
      /\ upd_seqno' = applied + 1 /\ jnl_seqno' = applied + 1 /\ rolled_back' = FALSE
      /\ temp_read' = 0 /\ tupd_num' = 0
  BY DEF UpdInit
<1>2. applied \in Nat /\ applied + 1 \in Nat \ {0} /\ applied + 1 \in 1 .. NumTrans + 1
  BY <1>0 DEF TypeOK
<1>3. rpc \notin Receiving
  BY <1>0, <1>1 DEF FlagInv, PipeInv, Receiving, Up
<1>4. TypeOK'
  <2>1. rolled_back' \in BOOLEAN
    BY <1>1, Zenon
  <2>2. /\ read' \in 0 .. PoolSize /\ temp_read' \in 0 .. PoolSize /\ tupd_num' \in 0 .. PoolSize
        /\ read_jnl_seqno' \in 0 .. NumTrans + 1 /\ upd_seqno' \in 1 .. NumTrans + 1
        /\ jnl_seqno' \in 0 .. NumTrans + 1
    BY <1>0, <1>1, <1>2
  <2> QED BY <2>1, <2>2, <1>0, <1>1 DEF TypeOK
<1>5. FillInv' /\ PipeInv'
  BY <1>1, <1>3, UpdFrame
<1>6. FlagInv'
  BY <1>0, <1>1, <1>2 DEF FlagInv, Up
<1>7. FreshInv' /\ AtStart'
  BY <1>0, <1>1 DEF FreshInv, AtStart
<1>8. ReadInv'
  <2>1. CASE restart = "NO_RESTART"
    <3>1. write' = 0 /\ ~wrapped'
      BY <2>1, <1>0, <1>1 DEF FlagInv
    <3>2. upd_seqno' = Published' /\ rpc' # "wrap_flag"
      BY <1>1, <1>3 DEF Published, Receiving
    <3> QED BY <3>1, <3>2, <1>1, <1>4, <1>7, ReadFresh
  <2>2. CASE restart # "NO_RESTART"
    BY <2>2, <1>1 DEF ReadInv, Relies, Reading
  <2> QED BY <2>1, <2>2
<1> QED BY <1>4, <1>5, <1>6, <1>7, <1>8 DEF IInv

\* It has written read_jnl_seqno.
LEMMA UpdInitReadInv == ASSUME IInv, UpdInitRead PROVE IInv'
<1> USE DEF rcvrOwn, rcvrVars, srcVars, dbVars
<1>0. TypeOK /\ FlagInv /\ FreshInv /\ NumTrans \in Nat
  BY Known
<1>1. /\ UNCHANGED <<rcvrOwn, wrapped, jnl_seqno, read, bad_trans, onln_rlbk_flg, restart,
                     temp_read, upd_seqno, tupd_num, applied, rolled_back, faults>>
      /\ upc = "init_read" /\ upc' = "top" /\ read_jnl_seqno' = upd_seqno
  BY DEF UpdInitRead
<1>2. TypeOK'
  BY <1>0, <1>1 DEF TypeOK
<1>3. FlagInv'
  BY <1>0, <1>1 DEF FlagInv, Up
<1>4. FreshInv'
  BY <1>0, <1>1 DEF FreshInv, AtStart
<1>5. Relies' => Relies
  BY <1>1 DEF Relies, Reading
<1> QED BY <1>1, <1>2, <1>3, <1>4, <1>5, UpcInv

\* It tells a receiver server that was started again where to go on.
LEMMA UpdRestartedInv == ASSUME IInv, UpdRestarted PROVE IInv'
<1> USE DEF rcvrOwn, rcvrVars, srcVars, dbVars
<1>0. TypeOK /\ FlagInv /\ FreshInv /\ PoolSize \in Nat
  BY Known
<1>1. /\ UNCHANGED <<rcvrOwn, wrapped, read_jnl_seqno, bad_trans, onln_rlbk_flg, upc,
                     upd_seqno, applied, rolled_back, faults>>
      /\ upc = "top" /\ restart = "RCVR_RESTARTED" /\ restart' = "UPD_RESTARTED"
      /\ jnl_seqno' = upd_seqno /\ read' = 0 /\ temp_read' = 0 /\ tupd_num' = 0
  BY DEF UpdRestarted
<1>2. rpc \notin Receiving /\ upd_seqno # 0
  BY <1>0, <1>1 DEF FlagInv, Receiving, Up, TypeOK
<1>3. TypeOK'
  <2>1. read' \in 0 .. PoolSize /\ temp_read' \in 0 .. PoolSize /\ tupd_num' \in 0 .. PoolSize
    BY <1>0, <1>1
  <2> QED BY <2>1, <1>0, <1>1 DEF TypeOK
<1>4. FillInv' /\ PipeInv'
  BY <1>1, <1>2, UpdFrame
<1>5. FlagInv'
  BY <1>0, <1>1, <1>2 DEF FlagInv, Up
<1>6. FreshInv'
  BY <1>0, <1>1 DEF FreshInv, AtStart
<1>7. ReadInv'
  BY <1>1, ReadFree DEF Relies, Reading
<1> QED BY <1>3, <1>4, <1>5, <1>6, <1>7 DEF IInv

\* In the middle of a transaction there are records to read.
LEMMA ChainAhead ==
    ASSUME NEW b, NEW s, temp_read \in Nat, b \in Nat, tupd_num \in Nat,
           Chain(temp_read, b, Position, <<s, 1>>)
    PROVE  temp_read <= b /\ (temp_read = b => tupd_num = 0)
<1>1. temp_read <= b /\ (temp_read = b => Position = <<s, 1>>)
  BY DEF Chain
<1>2. Position = <<s, 1>> => tupd_num + 1 = 1
  BY DEF Position
<1> QED BY <1>1, <1>2

\* The top of the loop.
LEMMA UpdTopInv == ASSUME Excluded, IInv, UpdTop PROVE IInv'
<1> USE DEF rcvrOwn, rcvrVars, srcVars
<1>0. TypeOK /\ FlagInv /\ FreshInv /\ ReadInv
  BY Known
<1>1. /\ UNCHANGED <<rcvrOwn, wrapped, jnl_seqno, read, read_jnl_seqno, bad_trans, restart,
                     temp_read, upd_seqno, tupd_num, applied, faults>>
      /\ upc = "top" /\ restart = "NO_RESTART"
      /\ \/ bad_trans /\ rolled_back
         \/ /\ ~bad_trans /\ ~onln_rlbk_flg /\ UNCHANGED <<rolled_back, onln_rlbk_flg>>
            /\ upc' = IF tupd_num = 0 /\ ~wrapped THEN "compare" ELSE "end"
  BY DEF UpdTop
<1>2. /\ ~bad_trans /\ ~onln_rlbk_flg /\ UNCHANGED <<rolled_back, onln_rlbk_flg>>
      /\ upc' = IF tupd_num = 0 /\ ~wrapped THEN "compare" ELSE "end"
  BY <1>0, <1>1, NotBoth
<1>3. upc' \in {"compare", "end"} /\ upc' \in Reading /\ Relies
  BY <1>1, <1>2 DEF Reading, Relies
<1>4. TypeOK'
  BY <1>0, <1>1, <1>2, <1>3 DEF TypeOK
<1>5. FlagInv' /\ FreshInv'
  <2>1. read_jnl_seqno' = upd_seqno'
    BY <1>0, <1>1 DEF FlagInv
  <2> QED BY <2>1, <1>1, <1>2, <1>3, GoesOn
<1>6. ASSUME NEW folded \in BOOLEAN, NEW m \in Seqnos, NEW n \in Seqnos,
             Layout(folded, m, n), upc' = "end"
      PROVE  folded \/ temp_read < write
  <2>1. temp_read \in Nat /\ write \in Nat /\ tupd_num \in Nat
    BY <1>0 DEF TypeOK
  <2>2. CASE wrapped
    BY <2>2, <1>1, <1>6 DEF Layout
  <2>3. CASE ~wrapped /\ ~folded
    <3>1. tupd_num # 0
      BY <2>3, <1>2, <1>6
    <3>2. Chain(temp_read, write, Position, <<n, 1>>)
      BY <2>3, <1>6 DEF Layout
    <3> QED BY <3>1, <3>2, <2>1, ChainAhead
  <2> QED BY <2>2, <2>3
<1> QED BY <1>1, <1>2, <1>3, <1>4, <1>5, <1>6, UpcInv

\* Is there something to process?
LEMMA UpdCompareInv == ASSUME IInv, UpdCompare PROVE IInv'
<1> USE DEF rcvrOwn, rcvrVars, srcVars
<1>0. TypeOK /\ FlagInv /\ FreshInv /\ ReadInv
  BY Known
<1>1. /\ UNCHANGED <<rcvrOwn, wrapped, jnl_seqno, read, read_jnl_seqno, bad_trans, restart,
                     temp_read, upd_seqno, tupd_num, applied, faults>>
      /\ upc = "compare" /\ upc \in Reading
  BY DEF UpdCompare, Reading
<1>2. CASE rolled_back /\ OnlineRollbackSeen
  BY <1>1, <1>2, RollbackSeenInv
<1>3. CASE /\ upc' = IF write = read THEN "top" ELSE "end"
           /\ UNCHANGED <<rolled_back, onln_rlbk_flg>>
  <2>1. upc' \in {"top", "end"} /\ (upc' \in Reading \/ upc' = "top")
    BY <1>3 DEF Reading
  <2>2. TypeOK'
    BY <1>0, <1>1, <1>3, <2>1 DEF TypeOK
  <2>3. FlagInv' /\ FreshInv' /\ Relies
    BY <1>1, <1>3, <2>1, ReadingFacts, GoesOn
  <2>4. ASSUME NEW folded \in BOOLEAN, NEW m \in Seqnos, NEW n \in Seqnos,
               Layout(folded, m, n), upc' = "end"
        PROVE  folded \/ temp_read < write
    <3>1. CASE ~folded
      <4>1. temp_read = read + tupd_num /\ temp_read <= write /\ tupd_num = 0
        BY <2>4, <3>1, <1>0, <1>1 DEF Layout, Chain, ReadInv
      <4>2. write # read /\ read \in Nat /\ write \in Nat /\ temp_read \in Nat
        BY <2>4, <1>0, <1>3 DEF TypeOK
      <4> QED BY <4>1, <4>2
    <3> QED BY <3>1
  <2> QED BY <1>1, <2>1, <2>2, <2>3, <2>4, UpcInv
<1> QED BY <1>2, <1>3 DEF UpdCompare

\* The receiver server has answered an online rollback.
LEMMA UpdRollbackInv == ASSUME Excluded, IInv, UpdRollback PROVE IInv'
<1> USE DEF rcvrOwn, rcvrVars, srcVars, dbVars
<1>0. TypeOK /\ FlagInv /\ FreshInv
  BY Known
<1>1. /\ UNCHANGED <<rcvrOwn, wrapped, jnl_seqno, read, read_jnl_seqno, bad_trans, restart,
                     temp_read, upd_seqno, tupd_num, applied, faults, onln_rlbk_flg,
                     rolled_back>>
      /\ upc = "rollback" /\ upc' = "init" /\ jnl_seqno = 0
  BY DEF UpdRollback
<1>2. ~bad_trans
  BY <1>0, <1>1, NotBoth
<1>3. TypeOK'
  BY <1>0, <1>1 DEF TypeOK
<1>4. FillInv' /\ PipeInv'
  BY <1>1, UpdFrame
<1>5. FlagInv'
  BY <1>0, <1>1, <1>2 DEF FlagInv, Up
<1>6. FreshInv'
  BY <1>0, <1>1, <1>2 DEF FreshInv
<1>7. ReadInv'
  BY <1>1, ReadFree DEF Relies, Reading
<1> QED BY <1>3, <1>4, <1>5, <1>6, <1>7 DEF IInv

\* Is this the end of the data before the wrap?
LEMMA UpdEndInv == ASSUME IInv, UpdEnd PROVE IInv'
<1> USE DEF rcvrOwn, rcvrVars, srcVars, dbVars
<1>0. TypeOK /\ FlagInv /\ FreshInv /\ ReadInv
  BY Known
<1>1. /\ UNCHANGED <<rcvrOwn, wrapped, jnl_seqno, read, read_jnl_seqno, bad_trans, restart,
                     temp_read, upd_seqno, tupd_num, applied, faults, onln_rlbk_flg,
                     rolled_back>>
      /\ upc = "end" /\ upc \in Reading
      /\ upc' = IF temp_read >= write_wrap THEN "wrapped" ELSE "record"
  BY DEF UpdEnd, Reading
<1>2. upc' \in {"wrapped", "record"} /\ upc' \in Reading
  BY <1>1 DEF Reading
<1>3. TypeOK'
  BY <1>0, <1>1, <1>2 DEF TypeOK
<1>4. FlagInv' /\ FreshInv' /\ Relies
  BY <1>1, <1>2, ReadingFacts, GoesOn
<1>5. ASSUME NEW folded \in BOOLEAN, NEW m \in Seqnos, NEW n \in Seqnos, Layout(folded, m, n)
      PROVE  /\ upc' = "record" => temp_read < IF folded THEN write_wrap ELSE write
             /\ upc' = "wrapped" => folded /\ temp_read = write_wrap /\ tupd_num = 0
  <2>1. /\ temp_read \in Nat /\ tupd_num \in Nat /\ write \in Nat
        /\ write_wrap \in Nat /\ write <= write_wrap
    BY <1>1, ReadingFacts
  <2>2. CASE folded
    <3>1. Chain(temp_read, write_wrap, Position, <<m, 1>>)
      BY <1>5, <2>2 DEF Layout
    <3>2. temp_read <= write_wrap /\ (temp_read = write_wrap => tupd_num = 0)
      BY <3>1, <2>1, ChainAhead
    <3> QED BY <3>2, <2>1, <2>2, <1>1
  <2>3. CASE ~folded
    <3>1. temp_read < write
      BY <1>5, <2>3, <1>1 DEF Layout
    <3>2. upc' = "record"
      BY <3>1, <2>1, <1>1
    <3> QED BY <3>1, <3>2, <2>3
  <2> QED BY <2>2, <2>3
<1>6. upc' = "wrapped" => tupd_num = 0
  BY <1>1, <1>5, ReadingFacts
<1> QED BY <1>1, <1>2, <1>3, <1>4, <1>5, <1>6, UpcInv

\* It follows the fold: read.
LEMMA UpdWrapReadInv == ASSUME IInv, UpdWrapRead PROVE IInv'
<1> USE DEF rcvrOwn, rcvrVars, srcVars, dbVars
<1>0. TypeOK /\ FlagInv /\ FreshInv /\ ReadInv /\ FillInv /\ PoolSize \in Nat
  BY Known
<1>1. /\ UNCHANGED <<rcvrOwn, wrapped, jnl_seqno, read_jnl_seqno, bad_trans, restart,
                     upd_seqno, tupd_num, applied, faults, onln_rlbk_flg, rolled_back>>
      /\ upc = "wrapped" /\ upc \in Reading
  BY DEF UpdWrapRead, Reading
<1>2. CASE wrapped /\ upc' = "unwrap" /\ temp_read' = 0 /\ read' = 0
  <2>1. TypeOK'
    <3>1. temp_read' \in 0 .. PoolSize /\ read' \in 0 .. PoolSize
      BY <1>0, <1>2
    <3> QED BY <3>1, <1>0, <1>1, <1>2 DEF TypeOK
  <2>2. FlagInv' /\ FreshInv'
    <3>1. upc' \in Reading
      BY <1>2 DEF Reading
    <3> QED BY <3>1, <1>1, ReadingFacts, GoesOn
  <2>3. FillInv' /\ PipeInv'
    BY <1>1, UpdFrame
  <2>4. PICK folded \in BOOLEAN, m \in Seqnos, n \in Seqnos : Layout(folded, m, n)
    BY <1>1, ReadingFacts
  <2>5. tupd_num = 0 /\ rpc # "wrap_flag"
    BY <1>0, <1>1, <1>2 DEF ReadInv, FillInv
  <2>6. /\ folded /\ temp_read = write_wrap /\ Chain(temp_read, write_wrap, Position, <<m, 1>>)
        /\ Chain(0, write, <<m, 1>>, <<n, 1>>)
    BY <2>4, <1>1 DEF Layout
  <2>7. Position = <<m, 1>> /\ Position' = Position
    BY <2>6, <1>1 DEF Chain, Position
  <2>8. Chain(temp_read, write, Position, <<n, 1>>)'
    BY <2>6, <2>7, <1>1, <1>2 DEF Chain, Succ, Records
  <2>9. Layout(FALSE, m, n)'
    <3>1. Published' = Published /\ (Up' <=> Up) /\ (Up /\ jnl_seqno # 0 => n = Published)
      BY <2>4, <1>1 DEF Published, Up, Layout
    <3>2. temp_read' = read' + tupd_num'
      BY <2>5, <1>1, <1>2
    <3> QED BY <3>1, <3>2, <2>5, <2>8, <1>1, <1>2 DEF Layout
  <2>10. ReadInv'
    BY <2>5, <2>9, <1>1, <1>2 DEF ReadInv, Seqnos
  <2> QED BY <2>1, <2>2, <2>3, <2>10 DEF IInv
<1>3. CASE upc' = "top" /\ UNCHANGED <<temp_read, read>>
  <2>1. TypeOK'
    BY <1>0, <1>1, <1>3 DEF TypeOK
  <2>2. FlagInv' /\ FreshInv' /\ Relies
    BY <1>1, <1>3, ReadingFacts, GoesOn
  <2> QED BY <2>1, <2>2, <1>1, <1>3, UpcInv
<1> QED BY <1>2, <1>3 DEF UpdWrapRead

\* It follows the fold: wrapped.
LEMMA UpdWrapFlagInv == ASSUME IInv, UpdWrapFlag PROVE IInv'
<1> USE DEF rcvrOwn, rcvrVars, srcVars, dbVars
<1>0. TypeOK /\ FlagInv /\ FreshInv /\ ReadInv
  BY Known
<1>1. /\ UNCHANGED <<rcvrOwn, jnl_seqno, read, read_jnl_seqno, bad_trans, restart, temp_read,
                     upd_seqno, tupd_num, applied, faults, onln_rlbk_flg, rolled_back>>
      /\ upc = "unwrap" /\ upc \in Reading /\ upc' = "reread" /\ upc' \in Reading
      /\ wrapped' = FALSE
  BY DEF UpdWrapFlag, Reading
<1>2. TypeOK'
  <2>1. wrapped' \in BOOLEAN
    BY <1>1, Zenon
  <2> QED BY <2>1, <1>0, <1>1 DEF TypeOK
<1>3. FlagInv' /\ FreshInv'
  BY <1>1, ReadingFacts, GoesOn
<1>4. FillInv' /\ PipeInv'
  BY <1>1, UpdFrame
<1>5. PICK folded \in BOOLEAN, m \in Seqnos, n \in Seqnos : Layout(folded, m, n)
  BY <1>1, ReadingFacts
<1>6. ~folded /\ Chain(temp_read, write, Position, <<n, 1>>) /\ temp_read = read + tupd_num
      /\ rpc # "wrap_flag"
  BY <1>5, <1>1 DEF Layout
<1>7. Chain(temp_read, write, Position, <<n, 1>>)'
  BY <1>6, <1>1 DEF Chain, Succ, Records, Position
<1>8. Layout(folded, m, n)'
  <2>1. Published' = Published /\ (Up' <=> Up) /\ (Up /\ jnl_seqno # 0 => n = Published)
    BY <1>5, <1>1 DEF Published, Up, Layout
  <2> QED BY <2>1, <1>6, <1>7, <1>1 DEF Layout
<1>9. ReadInv'
  BY <1>8, <1>0, <1>1 DEF ReadInv, Seqnos
<1> QED BY <1>2, <1>3, <1>4, <1>9 DEF IInv

\* It looks at write again.
LEMMA UpdRereadInv == ASSUME IInv, UpdReread PROVE IInv'
<1> USE DEF rcvrOwn, rcvrVars, srcVars, dbVars
<1>0. TypeOK /\ FlagInv /\ FreshInv /\ ReadInv
  BY Known
<1>1. /\ UNCHANGED <<rcvrOwn, wrapped, jnl_seqno, read, read_jnl_seqno, bad_trans, restart,
                     temp_read, upd_seqno, tupd_num, applied, faults, onln_rlbk_flg,
                     rolled_back>>
      /\ upc = "reread" /\ upc \in Reading
      /\ upc' = IF write = 0 THEN "top" ELSE "record"
  BY DEF UpdReread, Reading
<1>2. upc' \in {"top", "record"} /\ (upc' \in Reading \/ upc' = "top")
  BY <1>1 DEF Reading
<1>3. TypeOK'
  BY <1>0, <1>1, <1>2 DEF TypeOK
<1>4. FlagInv' /\ FreshInv' /\ Relies
  BY <1>1, <1>2, ReadingFacts, GoesOn
<1>5. ASSUME NEW folded \in BOOLEAN, NEW m \in Seqnos, NEW n \in Seqnos, Layout(folded, m, n),
             upc' = "record"
      PROVE  temp_read < IF folded THEN write_wrap ELSE write
  <2>1. temp_read = 0 /\ write # 0 /\ write \in Nat /\ write_wrap \in Nat
    BY <1>0, <1>1, <1>5, ReadingFacts DEF ReadInv
  <2>2. folded => write_wrap >= 1
    BY <1>5 DEF Layout
  <2> QED BY <2>1, <2>2
<1> QED BY <1>1, <1>2, <1>3, <1>4, <1>5, UpcInv

\* The next record of the transaction is in the pool, and the rest of the pool follows it.
LEMMA NextRecord ==
    ASSUME IInv, upc \in {"record", "commit", "advance"}, NEW folded \in BOOLEAN,
           NEW m \in Seqnos, NEW n \in Seqnos, Layout(folded, m, n)
    PROVE  /\ GoodRecord /\ Position \in Records /\ temp_read + 1 \in 0 .. PoolSize
           /\ folded => Chain(temp_read + 1, write_wrap, Succ(Position), <<m, 1>>)
           /\ ~folded => Chain(temp_read + 1, write, Succ(Position), <<n, 1>>)
<1>1. upc \in Reading
  BY DEF Reading
<1>2. /\ temp_read \in Nat /\ tupd_num \in Nat /\ write \in Nat /\ write_wrap \in Nat
      /\ write <= write_wrap /\ write_wrap <= PoolSize
  BY <1>1, ReadingFacts
<1>3. PoolSize \in Nat
  BY Known
<1>4. temp_read < IF folded THEN write_wrap ELSE write
  BY DEF Layout
<1>5. temp_read < PoolSize /\ temp_read + 1 \in 0 .. PoolSize
  <2>1. temp_read < write_wrap
    BY <1>2, <1>4
  <2> QED BY <2>1, <1>2, <1>3
<1>6. /\ data[temp_read] = Position /\ Position \in Records
      /\ folded => Chain(temp_read + 1, write_wrap, Succ(Position), <<m, 1>>)
      /\ ~folded => Chain(temp_read + 1, write, Succ(Position), <<n, 1>>)
  <2>1. CASE folded
    <3>1. Chain(temp_read, write_wrap, Position, <<m, 1>>) /\ temp_read < write_wrap
      BY <2>1, <1>4 DEF Layout
    <3> QED BY <3>1, <2>1, <1>2, ChainRead
  <2>2. CASE ~folded
    <3>1. Chain(temp_read, write, Position, <<n, 1>>) /\ temp_read < write
      BY <2>2, <1>4 DEF Layout
    <3> QED BY <3>1, <2>2, <1>2, ChainRead
  <2> QED BY <2>1, <2>2
<1>7. upd_seqno \in Trans
  BY <1>6 DEF Records, Position
<1> QED BY <1>5, <1>6, <1>7 DEF GoodRecord, Position

\* The transaction goes on, or the next one begins, behind the record at temp_read.
LEMMA StepAhead ==
    ASSUME IInv, upc \in {"record", "advance"}, upc' = "top",
           UNCHANGED <<rcvrOwn, wrapped, jnl_seqno>>,
           Position' = Succ(Position), temp_read' = temp_read + 1,
           temp_read' = read' + tupd_num'
    PROVE  ReadInv'
<1> USE DEF rcvrOwn, rcvrVars
<1>1. upc \in Reading /\ upc \in {"record", "commit", "advance"}
  BY DEF Reading
<1>2. PICK folded \in BOOLEAN, m \in Seqnos, n \in Seqnos : Layout(folded, m, n)
  BY <1>1, ReadingFacts
<1>3. /\ folded => Chain(temp_read + 1, write_wrap, Succ(Position), <<m, 1>>)
      /\ ~folded => Chain(temp_read + 1, write, Succ(Position), <<n, 1>>)
  BY <1>1, <1>2, NextRecord
<1>4. folded => Chain(0, write, <<m, 1>>, <<n, 1>>) /\ write_wrap >= 1
  BY <1>2 DEF Layout
<1>6. folded => Chain(temp_read, write_wrap, Position, <<m, 1>>)'
  BY <1>3 DEF Chain, Succ, Records
<1>7. ~folded => Chain(temp_read, write, Position, <<n, 1>>)'
  BY <1>3 DEF Chain, Succ, Records
<1>8. folded => Chain(0, write, <<m, 1>>, <<n, 1>>)'
  BY <1>4 DEF Chain, Succ, Records
<1>9. Layout(folded, m, n)'
  <2>1. Published' = Published /\ (Up' <=> Up)
    BY DEF Published, Up
  <2>2. /\ wrapped => folded
        /\ rpc = "wrap_flag" => folded
        /\ Up /\ folded => wrapped \/ rpc = "wrap_flag"
        /\ Up /\ jnl_seqno # 0 => n = Published
        /\ folded /\ rpc \in Receiving => write_loc <= write_wrap
    BY <1>1, <1>2 DEF Layout
  <2> QED BY <2>1, <2>2, <1>4, <1>6, <1>7, <1>8 DEF Layout
<1> QED BY <1>9 DEF ReadInv, Seqnos

\* A record is processed.
LEMMA UpdRecordInv == ASSUME IInv, UpdRecord PROVE IInv'
<1> USE DEF rcvrOwn, rcvrVars, srcVars, dbVars
<1>0. /\ TypeOK /\ FlagInv /\ FreshInv /\ ReadInv /\ PoolSize \in Nat
      /\ \A s \in Trans : lens[s] \in Nat \ {0} /\ lens[s] <= PoolSize
  BY Known
<1>1. /\ UNCHANGED <<rcvrOwn, wrapped, jnl_seqno, read, read_jnl_seqno, bad_trans, restart,
                     upd_seqno, applied, faults, onln_rlbk_flg, rolled_back>>
      /\ upc = "record" /\ upc \in Reading /\ GoodRecord
  BY DEF UpdRecord, Reading
<1>2. PICK folded \in BOOLEAN, m \in Seqnos, n \in Seqnos : Layout(folded, m, n)
  BY <1>1, ReadingFacts
<1>3. Position \in Records /\ temp_read + 1 \in 0 .. PoolSize
  BY <1>1, <1>2, NextRecord
<1>4. upd_seqno \in Trans /\ tupd_num + 1 \in 1 .. lens[upd_seqno] /\ tupd_num \in Nat
  BY <1>0, <1>3 DEF Records, Position, TypeOK
<1>5. CASE /\ tupd_num + 1 = lens[upd_seqno] /\ upc' = "commit"
           /\ UNCHANGED <<temp_read, tupd_num>>
  <2>1. TypeOK'
    BY <1>0, <1>1, <1>5 DEF TypeOK
  <2>2. upc' \in Reading
    BY <1>5 DEF Reading
  <2>3. FlagInv' /\ FreshInv' /\ Relies
    BY <1>1, <1>5, <2>2, ReadingFacts, GoesOn
  <2>4. ASSUME NEW f \in BOOLEAN, NEW k \in Seqnos, NEW l \in Seqnos, Layout(f, k, l)
        PROVE  temp_read < IF f THEN write_wrap ELSE write
    BY <2>4, <1>1 DEF Layout
  <2> QED BY <2>1, <2>3, <2>4, <1>1, <1>4, <1>5, UpcInv
<1>6. CASE /\ tupd_num + 1 # lens[upd_seqno] /\ upc' = "top"
           /\ temp_read' = temp_read + 1 /\ tupd_num' = tupd_num + 1
  <2>1. lens[upd_seqno] \in Nat /\ lens[upd_seqno] <= PoolSize
    BY <1>0, <1>4
  <2>2. tupd_num' \in 0 .. PoolSize /\ temp_read' \in 0 .. PoolSize
    BY <2>1, <1>0, <1>3, <1>4, <1>6
  <2>3. TypeOK'
    BY <2>2, <1>0, <1>1, <1>6 DEF TypeOK
  <2>4. FlagInv' /\ FreshInv'
    BY <1>1, <1>6, ReadingFacts, GoesOn
  <2>5. FillInv' /\ PipeInv'
    BY <1>1, UpdFrame
  <2>6. Position' = Succ(Position)
    <3>1. Position[1] = upd_seqno /\ Position[2] = tupd_num + 1
      BY DEF Position
    <3> QED BY <3>1, <1>1, <1>6 DEF Position, Succ
  <2>7. temp_read' = read' + tupd_num'
    <3>1. temp_read = read + tupd_num /\ read \in Nat
      BY <1>0, <1>2 DEF Layout, TypeOK
    <3> QED BY <3>1, <1>1, <1>4, <1>6
  <2>8. ReadInv'
    BY <2>6, <2>7, <1>1, <1>6, StepAhead
  <2> QED BY <2>3, <2>4, <2>5, <2>8 DEF IInv
<1> QED BY <1>5, <1>6 DEF UpdRecord

\* A record does not fit into the database.
LEMMA UpdBadRecordInv == ASSUME IInv, UpdBadRecord PROVE IInv'
<1> USE DEF rcvrOwn, rcvrVars, srcVars, dbVars
<1>0. TypeOK /\ FlagInv /\ FreshInv
  BY Known
<1>1. /\ UNCHANGED <<rcvrOwn, wrapped, jnl_seqno, read, read_jnl_seqno, restart, temp_read,
                     upd_seqno, tupd_num, applied, onln_rlbk_flg, rolled_back>>
      /\ upc = "record" /\ upc \in Reading /\ upc' = "bad" /\ bad_trans' = TRUE
      /\ GoodRecord => Fault("bad_trans")
  BY DEF UpdBadRecord, Reading
<1>2. Fault("bad_trans")
  <2>1. PICK folded \in BOOLEAN, m \in Seqnos, n \in Seqnos : Layout(folded, m, n)
    BY <1>1, ReadingFacts
  <2> QED BY <2>1, <1>1, NextRecord
<1>3. /\ faults' \subseteq Faults /\ faults \subseteq faults' /\ "bad_trans" \in faults'
      /\ \E fs \in FaultSets : faults' \subseteq fs
  BY <1>0, <1>2, FaultFacts DEF Faults
<1>4. TypeOK'
  <2>1. bad_trans' \in BOOLEAN
    BY <1>1, Zenon
  <2> QED BY <2>1, <1>0, <1>1, <1>3 DEF TypeOK
<1>5. FillInv' /\ PipeInv'
  BY <1>1, UpdFrame
<1>6. FlagInv'
  BY <1>0, <1>1, <1>3, ReadingFacts DEF FlagInv, Up
<1>7. FreshInv'
  BY <1>0, <1>1, ReadingFacts DEF FreshInv
<1>8. ReadInv'
  BY <1>1, ReadFree DEF Relies, Reading
<1> QED BY <1>4, <1>5, <1>6, <1>7, <1>8 DEF IInv

\* The bad transaction is rolled back.
LEMMA UpdBadTransInv == ASSUME IInv, UpdBadTrans PROVE IInv'
<1> USE DEF rcvrOwn, rcvrVars, srcVars, dbVars
<1>0. TypeOK /\ FlagInv /\ FreshInv /\ PoolSize \in Nat
  BY Known
<1>1. /\ UNCHANGED <<rcvrOwn, wrapped, jnl_seqno, read_jnl_seqno, bad_trans, restart,
                     upd_seqno, applied, onln_rlbk_flg, rolled_back, faults>>
      /\ upc = "bad" /\ upc' = "top" /\ read' = 0 /\ temp_read' = 0 /\ tupd_num' = 0
  BY DEF UpdBadTrans
<1>2. bad_trans
  BY <1>0, <1>1 DEF FreshInv
<1>3. TypeOK'
  <2>1. read' \in 0 .. PoolSize /\ temp_read' \in 0 .. PoolSize /\ tupd_num' \in 0 .. PoolSize
    BY <1>0, <1>1
  <2> QED BY <2>1, <1>0, <1>1 DEF TypeOK
<1>4. FillInv' /\ PipeInv'
  BY <1>1, UpdFrame
<1>5. FlagInv'
  BY <1>0, <1>1 DEF FlagInv, Up
<1>6. FreshInv'
  BY <1>0, <1>1 DEF FreshInv, AtStart
<1>7. ReadInv'
  BY <1>1, <1>2, ReadFree DEF Relies, Reading
<1> QED BY <1>3, <1>4, <1>5, <1>6, <1>7 DEF IInv

\* The transaction is committed.
LEMMA UpdCommitInv == ASSUME IInv, UpdCommit PROVE IInv'
<1> USE DEF rcvrOwn, rcvrVars, srcVars
<1>0. TypeOK /\ FlagInv /\ FreshInv /\ ReadInv /\ NumTrans \in Nat
  BY Known
<1>1. /\ UNCHANGED <<rcvrOwn, wrapped, jnl_seqno, read, read_jnl_seqno, bad_trans, restart,
                     temp_read, upd_seqno, tupd_num, faults>>
      /\ upc = "commit" /\ upc \in Reading
  BY DEF UpdCommit, Reading
<1>2. CASE rolled_back /\ OnlineRollbackSeen /\ UNCHANGED applied
  BY <1>1, <1>2, RollbackSeenInv
<1>3. CASE applied' = upd_seqno /\ upc' = "advance" /\ UNCHANGED <<rolled_back, onln_rlbk_flg>>
  <2>1. upd_seqno \in Trans /\ tupd_num + 1 = lens[upd_seqno]
    BY <1>0, <1>1 DEF ReadInv
  <2>2. TypeOK'
    <3>1. applied' \in 0 .. NumTrans
      BY <2>1, <1>0, <1>3 DEF Trans
    <3> QED BY <3>1, <1>0, <1>1, <1>3 DEF TypeOK
  <2>3. upc' \in Reading
    BY <1>3 DEF Reading
  <2>4. FlagInv' /\ FreshInv' /\ Relies
    BY <1>1, <1>3, <2>3, ReadingFacts, GoesOn
  <2>5. ASSUME NEW f \in BOOLEAN, NEW k \in Seqnos, NEW l \in Seqnos, Layout(f, k, l)
        PROVE  temp_read < IF f THEN write_wrap ELSE write
    BY <2>5, <1>1 DEF Layout
  <2> QED BY <2>1, <2>2, <2>4, <2>5, <1>1, <1>3, UpcInv
<1> QED BY <1>2, <1>3 DEF UpdCommit

\* It goes on to the next transaction.
LEMMA UpdAdvanceInv == ASSUME IInv, UpdAdvance PROVE IInv'
<1> USE DEF rcvrOwn, rcvrVars, srcVars, dbVars
<1>0. TypeOK /\ FlagInv /\ FreshInv /\ ReadInv /\ PoolSize \in Nat /\ NumTrans \in Nat
  BY Known
<1>1. /\ UNCHANGED <<rcvrOwn, wrapped, jnl_seqno, bad_trans, restart, applied, faults,
                     onln_rlbk_flg, rolled_back>>
      /\ upc = "advance" /\ upc \in Reading /\ upc' = "top"
      /\ upd_seqno' = upd_seqno + 1 /\ read_jnl_seqno' = upd_seqno + 1
      /\ temp_read' = temp_read + 1 /\ read' = temp_read + 1 /\ tupd_num' = 0
  BY DEF UpdAdvance, Reading
<1>2. PICK folded \in BOOLEAN, m \in Seqnos, n \in Seqnos : Layout(folded, m, n)
  BY <1>1, ReadingFacts
<1>3. Position \in Records /\ temp_read + 1 \in 0 .. PoolSize
  BY <1>1, <1>2, NextRecord
<1>4. upd_seqno \in Trans /\ tupd_num + 1 = lens[upd_seqno]
  BY <1>0, <1>1 DEF ReadInv
<1>5. TypeOK'
  <2>1. upd_seqno' \in 1 .. NumTrans + 1 /\ read_jnl_seqno' \in 0 .. NumTrans + 1
    BY <1>0, <1>1, <1>4 DEF Trans
  <2>2. temp_read' \in 0 .. PoolSize /\ read' \in 0 .. PoolSize /\ tupd_num' \in 0 .. PoolSize
    BY <1>0, <1>1, <1>3
  <2> QED BY <2>1, <2>2, <1>0, <1>1 DEF TypeOK
<1>6. FlagInv' /\ FreshInv'
  BY <1>1, ReadingFacts, GoesOn
<1>7. FillInv' /\ PipeInv'
  BY <1>1, UpdFrame
<1>8. ReadInv'
  <2>1. Position' = Succ(Position)
    <3>1. Position[1] = upd_seqno /\ Position[2] = tupd_num + 1 /\ tupd_num' + 1 = 1
      BY <1>1 DEF Position
    <3> QED BY <3>1, <1>1, <1>4 DEF Position, Succ
  <2>2. temp_read' = read' + tupd_num'
    BY <1>1, <1>3
  <2> QED BY <2>1, <2>2, <1>1, StepAhead
<1> QED BY <1>5, <1>6, <1>7, <1>8 DEF IInv

\* The update process is killed.
LEMMA KillUpdInv == ASSUME IInv, KillUpd PROVE IInv'
<1> USE DEF rcvrOwn, rcvrVars, srcVars, dbVars
<1>0. TypeOK /\ FlagInv /\ FreshInv /\ PoolSize \in Nat
  BY Known
<1>1. /\ UNCHANGED <<rcvrOwn, wrapped, jnl_seqno, read, read_jnl_seqno, bad_trans, restart,
                     upd_seqno, applied, onln_rlbk_flg, rolled_back>>
      /\ upc # "dead" /\ upc' = "dead" /\ temp_read' = 0 /\ tupd_num' = 0
      /\ Fault("upd_killed")
  BY DEF KillUpd
<1>2. /\ faults' \subseteq Faults /\ faults \subseteq faults'
      /\ \E fs \in FaultSets : faults' \subseteq fs
  BY <1>0, <1>1, FaultFacts DEF Faults
<1>3. TypeOK'
  <2>1. temp_read' \in 0 .. PoolSize /\ tupd_num' \in 0 .. PoolSize
    BY <1>0, <1>1
  <2> QED BY <2>1, <1>0, <1>1, <1>2 DEF TypeOK
<1>4. FillInv' /\ PipeInv'
  BY <1>1, UpdFrame
<1>5. FlagInv'
  BY <1>0, <1>1, <1>2 DEF FlagInv, Up
<1>6. FreshInv'
  BY <1>0, <1>1 DEF FreshInv
<1>7. ReadInv'
  BY <1>1, ReadFree DEF Relies, Reading
<1> QED BY <1>3, <1>4, <1>5, <1>6, <1>7 DEF IInv

\* Transactions are taken away.
LEMMA OnlineRollbackInv == ASSUME IInv, OnlineRollback PROVE IInv'
<1> USE DEF rcvrOwn, rcvrVars, srcVars, updVars
<1>0. TypeOK /\ FlagInv /\ FreshInv /\ ReadInv /\ NumTrans \in Nat
  BY Known
<1>1. /\ UNCHANGED <<rcvrOwn, wrapped, jnl_seqno, read, read_jnl_seqno, bad_trans, restart,
                     upc, temp_read, upd_seqno, tupd_num, onln_rlbk_flg>>
      /\ rolled_back' = TRUE /\ Fault("rollback") /\ applied' \in 0 .. applied - 1
  BY DEF OnlineRollback
<1>2. /\ faults' \subseteq Faults /\ faults \subseteq faults' /\ "rollback" \in faults'
      /\ \E fs \in FaultSets : faults' \subseteq fs
  BY <1>0, <1>1, FaultFacts DEF Faults
<1>3. TypeOK'
  <2>1. rolled_back' \in BOOLEAN
    BY <1>1, Zenon
  <2>2. applied' \in 0 .. NumTrans
    <3>1. applied \in 0 .. NumTrans
      BY <1>0 DEF TypeOK
    <3> QED BY <3>1, <1>0, <1>1
  <2> QED BY <2>1, <2>2, <1>0, <1>1, <1>2 DEF TypeOK
<1>4. FillInv' /\ PipeInv'
  BY <1>1, UpdFrame
<1>5. FlagInv'
  BY <1>0, <1>1, <1>2 DEF FlagInv, Up
<1>6. FreshInv'
  BY <1>0, <1>1, FreshStays
<1>7. ReadInv'
  <2>1. (Relies' => Relies) /\ Published' = Published /\ (Up' <=> Up)
    BY <1>1 DEF Relies, Published, Up
  <2> QED BY <2>1, <1>0, <1>1, ReadStays
<1> QED BY <1>3, <1>4, <1>5, <1>6, <1>7 DEF IInv

----------------------------------------------------------------------------
(* The theorems.                                                           *)

\* The invariant holds at the start.
LEMMA InitInv == ASSUME Init PROVE IInv
<1>0. PoolSize \in Nat /\ NumTrans \in Nat
  BY RecvPoolAssumption
<1>1. /\ lens \in [Trans -> Lens] /\ data = [i \in 0 .. PoolSize - 1 |-> NoRecord]
      /\ write = 0 /\ write_wrap = PoolSize /\ wrapped = FALSE /\ jnl_seqno = 0
      /\ read = 0 /\ read_jnl_seqno = 0 /\ bad_trans = FALSE /\ onln_rlbk_flg = FALSE
      /\ restart = "NO_RESTART" /\ rpc = "connect" /\ write_loc = 0 /\ local_wrap = PoolSize
      /\ cur = NoTrans /\ xoff_sent = FALSE /\ reported = FALSE
      /\ upc = "init" /\ temp_read = 0 /\ upd_seqno = 1 /\ tupd_num = 0
      /\ applied = 0 /\ rolled_back = FALSE
      /\ avail = NumTrans /\ next = 1 /\ chan = << >> /\ sending = FALSE /\ faults = {}
  BY DEF Init
<1>2. TypeOK
  <2>1. /\ wrapped \in BOOLEAN /\ bad_trans \in BOOLEAN /\ onln_rlbk_flg \in BOOLEAN
        /\ xoff_sent \in BOOLEAN /\ reported \in BOOLEAN /\ rolled_back \in BOOLEAN
        /\ sending \in BOOLEAN
    BY <1>1, Zenon
  <2>2. NoRecord \in (Trans \union {NoTrans}) \X (0 .. PoolSize)
    BY <1>0 DEF NoRecord
  <2>3. data \in [0 .. PoolSize - 1 -> (Trans \union {NoTrans}) \X (0 .. PoolSize)]
    BY <2>2, <1>1
  <2>4. /\ write \in 0 .. PoolSize /\ write_wrap \in 0 .. PoolSize /\ read \in 0 .. PoolSize
        /\ write_loc \in 0 .. PoolSize /\ local_wrap \in 0 .. PoolSize
        /\ temp_read \in 0 .. PoolSize /\ tupd_num \in 0 .. PoolSize
    BY <1>0, <1>1
  <2>5. /\ jnl_seqno \in 0 .. NumTrans + 1 /\ read_jnl_seqno \in 0 .. NumTrans + 1
        /\ upd_seqno \in 1 .. NumTrans + 1 /\ next \in 1 .. NumTrans + 1
        /\ applied \in 0 .. NumTrans
    BY <1>0, <1>1
  <2>6. chan \in Seq(Trans) /\ cur \in Trans \union {NoTrans} /\ faults \subseteq Faults
    BY <1>1
  <2>7. /\ restart \in {"NO_RESTART", "RCVR_RESTARTED", "UPD_RESTARTED"}
        /\ rpc \in Receiving \union {"down", "restarting", "connect", "start"}
        /\ upc \in {"dead", "init", "init_read", "top", "compare", "rollback", "end",
                    "wrapped", "unwrap", "reread", "record", "bad", "commit", "advance"}
    BY <1>1
  <2> QED BY <2>1, <2>3, <2>4, <2>5, <2>6, <2>7, <1>1 DEF TypeOK
<1>3. FillInv
  BY <1>0, <1>1 DEF FillInv, Receiving
<1>4. PipeInv
  <2>1. Len(chan) = 0 /\ rpc \notin Receiving
    BY <1>1 DEF Receiving
  <2> QED BY <2>1, <1>1 DEF PipeInv
<1>5. FlagInv
  BY <1>1 DEF FlagInv, Up
<1>6. FreshInv
  BY <1>1 DEF FreshInv
<1>7. ReadInv
  BY <1>1 DEF ReadInv, Relies, Reading
<1> QED BY <1>2, <1>3, <1>4, <1>5, <1>6, <1>7 DEF IInv

\* A step that changes nothing.
LEMMA StutterInv == ASSUME IInv, UNCHANGED vars PROVE IInv'
<1> USE DEF vars, ctlVars, rcvrVars, updVars, dbVars, srcVars
<1>0. TypeOK /\ FillInv /\ PipeInv /\ FlagInv /\ FreshInv /\ ReadInv
  BY Known
<1>1. TypeOK' /\ FillInv' /\ PipeInv' /\ FreshInv'
  BY <1>0, FillStays, PipeStays, FreshStays DEF TypeOK
<1>2. FlagInv'
  BY <1>0 DEF FlagInv, Up
<1>3. (Relies' => Relies) /\ Published' = Published /\ (Up' <=> Up)
  BY DEF Relies, Published, Up
<1>4. ReadInv'
  BY <1>0, <1>3, ReadStays
<1> QED BY <1>1, <1>2, <1>4 DEF IInv

\* Every step keeps the invariant.
LEMMA NextInv == ASSUME Excluded, IInv, [Next]_vars PROVE IInv'
<1>1. CASE SourceSend
  BY <1>1, SourceSendInv
<1>2. CASE Receive
  BY <1>2, ConnectInv, ReceiveTransInv, IdleFlowControlInv, WrapEndInv, WrapWriteInv,
     WrapFlagInv, CopyInv, ProcessTrBuffInv, PublishWriteInv DEF Receive
<1>3. CASE Poll
  BY <1>3, PollDeadInv, PollStartUpdInv, PollBadTransInv, PollRollbackInv DEF Poll
<1>4. CASE RestartReceiver \/ ReceiverRestarted
  BY <1>4, RestartReceiverInv, ReceiverRestartedInv
<1>5. CASE Update
  BY <1>5, UpdInitInv, UpdInitReadInv, UpdRestartedInv, UpdTopInv, UpdCompareInv,
     UpdRollbackInv, UpdEndInv, UpdWrapReadInv, UpdWrapFlagInv, UpdRereadInv, UpdRecordInv,
     UpdBadTransInv, UpdCommitInv, UpdAdvanceInv, UpdBadRecordInv DEF Update
<1>6. CASE ConnectionReset \/ KillReceiver \/ KillUpd \/ OnlineRollback
  BY <1>6, ConnectionResetInv, KillReceiverInv, KillUpdInv, OnlineRollbackInv
<1>7. CASE UNCHANGED vars
  BY <1>7, StutterInv
<1> QED BY <1>1, <1>2, <1>3, <1>4, <1>5, <1>6, <1>7 DEF Next

\* The receive pool keeps its inductive invariant whatever is killed, reset, rolled back or
\* bad, in any order.
THEOREM RecvPoolInvariant == ASSUME Excluded PROVE Spec => []IInv
<1>1. Init => IInv
  BY InitInv
<1>2. IInv /\ [Next]_vars => IInv'
  BY NextInv
<1> QED BY <1>1, <1>2, PTL DEF Spec

\* Type correctness: offsets stay in the pool, and the receiver server never counts beyond
\* the transactions that were sent.
THEOREM TypeCorrect == ASSUME Excluded PROVE Spec => []TypeOK
<1>1. IInv => TypeOK
  BY DEF IInv
<1> QED BY <1>1, RecvPoolInvariant, PTL

\* The update process reads the records of the pool in order, never one that is stale,
\* overwritten or not yet there, and the pool does not wrap in the middle of a transaction
\* (updproc_actions), although it and the receiver server share the pool without a lock.
THEOREM ReadsInOrder == ASSUME Excluded PROVE Spec => []ReadsNextRecord
<1>1. ASSUME IInv PROVE ReadsNextRecord
  <2>1. ASSUME upc = "record" PROVE GoodRecord
    <3>1. upc \in Reading /\ upc \in {"record", "commit", "advance"}
      BY <2>1 DEF Reading
    <3>2. PICK folded \in BOOLEAN, m \in Seqnos, n \in Seqnos : Layout(folded, m, n)
      BY <3>1, <1>1, ReadingFacts
    <3> QED BY <3>1, <3>2, <1>1, NextRecord
  <2>2. upc = "wrapped" => tupd_num = 0
    BY <1>1, Known DEF ReadInv
  <2> QED BY <2>1, <2>2 DEF ReadsNextRecord
<1> QED BY <1>1, RecvPoolInvariant, PTL

\* What the pipe brings next is what the receiver server counts on, although it does not look
\* at the seqno of a message before it stores it (process_tr_buff, do_main_loop).
THEOREM PipeContinues == ASSUME Excluded PROVE Spec => []PipeContinuesPool
<1>1. ASSUME IInv PROVE PipeContinuesPool
  <2>0. TypeOK /\ FillInv /\ PipeInv
    BY <1>1, Known
  <2> SUFFICES ASSUME rpc \in Receiving PROVE PipeContinuesPool
    BY DEF PipeContinuesPool
  <2>1. /\ jnl_seqno \in Nat /\ next \in Nat /\ chan \in Seq(Trans) /\ Len(chan) \in Nat
        /\ cur \in Trans \union {NoTrans}
    BY <2>0 DEF TypeOK
  <2>2. CASE cur # NoTrans
    <3>1. cur = Published
      BY <2>0, <2>2 DEF PipeInv
    <3> QED BY <3>1, <2>1, <2>2 DEF PipeContinuesPool, Published
  <2>3. CASE cur = NoTrans
    <3>1. rpc # "publish"
      BY <2>0, <2>3 DEF FillInv, Trans, NoTrans, Receiving
    <3>2. next - Len(chan) = jnl_seqno
      BY <2>0, <2>3, <3>1 DEF PipeInv, Published
    <3>3. CASE chan = << >>
      <4>1. Len(chan) = 0
        BY <3>3
      <4>2. jnl_seqno = next
        BY <4>1, <3>2, <2>1
      <4> QED BY <4>2, <3>1, <3>3, <2>1, <2>3 DEF PipeContinuesPool
    <3>4. CASE chan # << >>
      <4>1. 1 \in 1 .. Len(chan) /\ chan[1] = Head(chan)
        BY <3>4, <2>1, EmptySeq
      <4>2. chan[1] = next - Len(chan) + 1 - 1
        BY <4>1, <2>0 DEF PipeInv
      <4>3. jnl_seqno = Head(chan)
        BY <4>1, <4>2, <3>2, <2>1
      <4> QED BY <4>3, <3>1, <3>4, <2>1, <2>3 DEF PipeContinuesPool
    <3> QED BY <3>3, <3>4
  <2> QED BY <2>2, <2>3
<1> QED BY <1>1, RecvPoolInvariant, PTL
============================================================================
