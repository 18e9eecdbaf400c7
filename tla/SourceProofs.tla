---------------------------- MODULE SourceProofs ----------------------------
(***************************************************************************)
(* Proofs about SourceServer, for every pool size, first seqno, lengths of *)
(* transactions and set of bad ones: read_addr stays in step with the      *)
(* seqno, and what is sent is the stream of SeqStream.                     *)
(***************************************************************************)
EXTENDS SourceServer, SequenceTheorems, TLAPS

\* None of the races that SourceServer names happens; with one of them the properties
\* are violated.
NoRaces == Races = {}

----------------------------------------------------------------------------
(* The inductive invariant.                                                *)

\* The pool: transactions lie one after the other, whole ones are published, and at most
\* one reservation follows.
LogInv ==
    /\ log \in Seq(Transaction)
    /\ \A s \in DOMAIN log : log[s].start_write_addr = End(s - 1)
    /\ \A r, s \in 0 .. Len(log) : r < s => End(r) < End(s)
    /\ \E w \in 0 .. Len(log) : write_addr = End(w)
    /\ lastwrite_len \in Lens \union {0}
    /\ rsrv_write_addr \in {End(Len(log)), End(Len(log)) + lastwrite_len}

\* End of the transactions that are published, or in the files: they are complete.
Done == Larger(write_addr, Start(filed + 1))

\* What the server has sent is complete.  Only when everything is, and nothing is reserved
\* behind it, can write_addr be behind a server that reads the pool.
PublishedInv ==
    /\ filed \in StartSeqno - 1 .. jnl_seqno - 1
    /\ StartSeqno <= read_jnl_seqno => Start(read_jnl_seqno) <= Done
    /\ AheadOfPool => filed = jnl_seqno - 1 /\ rsrv_write_addr = End(Len(log))

\* gtmsource_readpool has seen the transaction at read_addr published.  If its copy is
\* not what it should be, the pool has overflowed, and the second check finds out.
CopyInv ==
    /\ pc \in {"copy", "check"} =>
        read_state = "READ_POOL" /\ read_addr < stop_read_at /\ stop_read_at <= write_addr
    /\ pc = "check" /\ ~copied => Overwritten(read_addr)

\* gtmsource_srch_restart is at a transaction that is complete, not before the one it
\* looks for.  A length that is not that of the transaction before was read from a part of
\* the pool that is overwritten.
SearchInv ==
    /\ pc \in Searching =>
        /\ read_state = "READ_POOL"
        /\ StartSeqno <= cur_read_jnl_seqno /\ recvd_jnl_seqno <= cur_read_jnl_seqno
        /\ cur_read_addr <= Done /\ cur_read_addr <= read_addr
    /\ pc \in {"srch_cmp", "srch_step"} =>
        StartSeqno < cur_read_jnl_seqno /\ recvd_jnl_seqno < cur_read_jnl_seqno
    /\ pc = "srch_wait" => (write_addr < cur_read_addr => cur_read_addr < Done)
    /\ pc = "srch_loop" => (GoOnSearching => cur_read_addr < Done)
    /\ pc = "srch_step" => \/ prev_tr_size = Length(cur_read_jnl_seqno - 1)
                           \/ Overwritten(cur_read_addr)

\* In either state the seqno that read_addr stands for is in the pool's range.
RangeInv ==
    /\ read_state = "READ_POOL" => StartSeqno <= read_jnl_seqno
    /\ read_state = "READ_FILE" => StartSeqno <= save_read_jnl_seqno
    /\ salvaged = {}

IInv == /\ LogInv /\ TypeOK /\ ReadAddrIsSeqno /\ RangeInv /\ CopyInv /\ SearchInv
        /\ PublishedInv

----------------------------------------------------------------------------
(* The pool.                                                               *)

\* Addresses of the pool.
LEMMA LogFacts ==
    ASSUME LogInv
    PROVE  /\ Len(log) \in Nat
           /\ \A s \in 0 .. Len(log) : End(s) \in Nat
           /\ \A r, s \in 0 .. Len(log) : r <= s <=> End(r) <= End(s)
           /\ \A s \in 1 .. Len(log) : /\ log[s].tot_jrec_len \in Nat \ {0}
                                       /\ log[s].tot_jrec_len \in Lens
                                       /\ End(s) = End(s - 1) + log[s].tot_jrec_len
           /\ write_addr \in Nat /\ rsrv_write_addr \in Nat /\ lastwrite_len \in Nat
           /\ write_addr <= End(Len(log)) /\ End(Len(log)) <= rsrv_write_addr
           /\ jnl_seqno \in Nat /\ StartSeqno <= jnl_seqno /\ StartSeqno \in Nat \ {0}
<1>1. Len(log) \in Nat /\ DOMAIN log = 1 .. Len(log)
  BY DEF LogInv
<1>2. \A s \in 1 .. Len(log) : log[s] \in Transaction
  BY <1>1, ElementOfSeq DEF LogInv
<1>3. \A s \in 1 .. Len(log) :
        /\ log[s].tot_jrec_len \in Nat \ {0} /\ log[s].start_write_addr \in Nat
        /\ log[s].tot_jrec_len \in Lens
  BY <1>2, CommitLogAssumption DEF Transaction
<1>4. \A s \in 0 .. Len(log) : End(s) \in Nat
  BY <1>1, <1>3 DEF End
<1>5. \A s \in 1 .. Len(log) : End(s) = End(s - 1) + log[s].tot_jrec_len
  <2> SUFFICES ASSUME NEW s \in 1 .. Len(log)
               PROVE  End(s) = End(s - 1) + log[s].tot_jrec_len
    OBVIOUS
  <2>1. log[s].start_write_addr = End(s - 1)
    BY <1>1 DEF LogInv
  <2>2. End(s) = log[s].start_write_addr + log[s].tot_jrec_len
    BY <1>1 DEF End
  <2> QED BY <2>1, <2>2
<1>6. \A r, s \in 0 .. Len(log) : r <= s <=> End(r) <= End(s)
  <2> SUFFICES ASSUME NEW r \in 0 .. Len(log), NEW s \in 0 .. Len(log)
               PROVE  r <= s <=> End(r) <= End(s)
    OBVIOUS
  <2>1. (r < s => End(r) < End(s)) /\ (s < r => End(s) < End(r))
    BY DEF LogInv
  <2>2. End(r) \in Nat /\ End(s) \in Nat
    BY <1>4
  <2>3. r < s \/ s < r \/ r = s
    BY <1>1
  <2> QED BY <2>1, <2>2, <2>3, <1>1
<1>7. write_addr \in Nat /\ write_addr <= End(Len(log))
  <2>1. PICK w \in 0 .. Len(log) : write_addr = End(w)
    BY DEF LogInv
  <2>2. w <= Len(log) /\ Len(log) \in 0 .. Len(log)
    BY <1>1
  <2> QED BY <2>1, <2>2, <1>4, <1>6
<1>8. lastwrite_len \in Nat
  BY CommitLogAssumption DEF LogInv
<1>9. End(Len(log)) \in Nat
  BY <1>1, <1>4
<1>10. rsrv_write_addr \in Nat /\ End(Len(log)) <= rsrv_write_addr
  BY <1>8, <1>9 DEF LogInv
<1>11. jnl_seqno \in Nat /\ StartSeqno <= jnl_seqno /\ StartSeqno \in Nat \ {0}
  BY <1>1, SourceAssumption DEF jnl_seqno
<1> QED BY <1>1, <1>3, <1>4, <1>5, <1>6, <1>7, <1>8, <1>10, <1>11

\* What a step of updaters keeps.
Grown ==
    /\ Len(log') >= Len(log) /\ write_addr' >= write_addr
    /\ \A s \in 0 .. Len(log) : End(s)' = End(s)
    /\ \A s \in 1 .. Len(log) : log'[s].tot_jrec_len = log[s].tot_jrec_len
    /\ End(Len(log))' >= End(Len(log))

\* The reservation becomes a transaction.
LEMMA CommitLogInv == ASSUME LogInv, Commit PROVE LogInv' /\ Grown
<1> DEFINE e == [start_write_addr |-> End(Len(log)), tot_jrec_len |-> lastwrite_len]
           n == Len(log)
<1>0. /\ log \in Seq(Transaction) /\ n \in Nat /\ End(n) \in Nat /\ DOMAIN log = 1 .. n
      /\ \A s \in 0 .. n : End(s) \in Nat
      /\ \A r, s \in 0 .. n : r <= s <=> End(r) <= End(s)
  BY LogFacts DEF LogInv
<1>1. /\ log' = Append(log, e) /\ rsrv_write_addr = End(n) + lastwrite_len
      /\ lastwrite_len \in Lens /\ UNCHANGED <<write_addr, rsrv_write_addr, lastwrite_len>>
  BY DEF Commit
<1>2. e \in Transaction /\ lastwrite_len \in Nat \ {0}
  BY <1>0, <1>1, CommitLogAssumption DEF Transaction
<1>3. /\ log' \in Seq(Transaction) /\ Len(log') = n + 1 /\ DOMAIN log' = 1 .. n + 1
      /\ log'[n + 1] = e /\ \A s \in 1 .. n : log'[s] = log[s]
  <2> HIDE DEF e
  <2> QED BY <1>0, <1>1, <1>2
<1>4. \A s \in 0 .. n : End(s)' = End(s)
  BY <1>0, <1>3 DEF End
<1>5. e.start_write_addr = End(n) /\ e.tot_jrec_len = lastwrite_len
  OBVIOUS
<1>6. \A s \in Nat : s = n + 1 => End(s)' = rsrv_write_addr
  BY <1>0, <1>1, <1>3, <1>5 DEF End
<1> HIDE DEF e, n
<1>7. (\A s \in DOMAIN log : log[s].start_write_addr = End(s - 1))'
  <2> SUFFICES ASSUME NEW s \in 1 .. n + 1
               PROVE  log'[s].start_write_addr = End(s - 1)'
    BY <1>3
  <2>1. CASE s = n + 1
    <3>1. s - 1 = n /\ s - 1 \in 0 .. n
      BY <2>1, <1>0
    <3>2. End(s - 1)' = End(s - 1)
      BY <3>1, <1>4
    <3> QED BY <3>1, <3>2, <2>1, <1>3, <1>5
  <2>2. CASE s # n + 1
    <3>1. s \in 1 .. n /\ s - 1 \in 0 .. n
      BY <2>2, <1>0
    <3>2. log[s].start_write_addr = End(s - 1)
      BY <3>1, <1>0 DEF LogInv
    <3>3. End(s - 1)' = End(s - 1)
      BY <3>1, <1>4
    <3> QED BY <3>1, <3>2, <3>3, <1>3
  <2> QED BY <2>1, <2>2
<1>8. \A r, s \in 0 .. n + 1 : r < s => End(r)' < End(s)'
  <2> SUFFICES ASSUME NEW r \in 0 .. n + 1, NEW s \in 0 .. n + 1, r < s
               PROVE  End(r)' < End(s)'
    OBVIOUS
  <2>1. r \in 0 .. n /\ End(r)' = End(r) /\ End(r) \in Nat
    BY <1>0, <1>4
  <2>2. End(r) <= End(n)
    <3>1. r <= n /\ n \in 0 .. n
      BY <2>1, <1>0
    <3> QED BY <3>1, <2>1, <1>0
  <2>3. CASE s = n + 1
    BY <2>1, <2>2, <2>3, <1>0, <1>1, <1>2, <1>6
  <2>4. CASE s # n + 1
    <3>1. s \in 0 .. n
      BY <2>4, <1>0
    <3> QED BY <3>1, <2>1, <1>4 DEF LogInv, n
  <2> QED BY <2>3, <2>4
<1>9. \E w \in 0 .. n + 1 : write_addr' = End(w)'
  <2>1. PICK w \in 0 .. n : write_addr = End(w)
    BY DEF LogInv, n
  <2> QED BY <2>1, <1>0, <1>1, <1>4
<1>10. End(Len(log))' = rsrv_write_addr
  BY <1>0, <1>3, <1>6
<1>11. LogInv'
  <2>1. (\A r, s \in 0 .. Len(log) : r < s => End(r) < End(s))'
    BY <1>3, <1>8
  <2>2. (\E w \in 0 .. Len(log) : write_addr = End(w))'
    BY <1>3, <1>9
  <2> QED BY <2>1, <2>2, <1>1, <1>3, <1>7, <1>10 DEF LogInv
<1>12. Grown
  <2>1. Len(log') >= Len(log) /\ End(Len(log))' >= End(Len(log))
    BY <1>0, <1>1, <1>2, <1>3, <1>10 DEF n
  <2>2. write_addr' >= write_addr
    BY <1>1, LogFacts
  <2>3. \A s \in 1 .. Len(log) : log'[s].tot_jrec_len = log[s].tot_jrec_len
    BY <1>3 DEF n
  <2> QED BY <2>1, <2>2, <2>3, <1>4 DEF Grown, n
<1> QED BY <1>11, <1>12

\* The other steps of updaters leave the transactions alone.
LEMMA OtherLogInv ==
    ASSUME LogInv,
           \/ \E len \in Lens : StoreLength(len)
           \/ StoreAddr \/ Abort \/ Publish
    PROVE  LogInv' /\ Grown
<1>0. /\ Len(log) \in Nat /\ (\A s \in 0 .. Len(log) : End(s) \in Nat)
      /\ write_addr \in Nat /\ End(Len(log)) \in Nat
  BY LogFacts
<1>1. log' = log /\ \A s : End(s)' = End(s)
  BY DEF StoreLength, StoreAddr, Abort, Publish, End
<1>2. End(Len(log))' = End(Len(log))
  BY <1>1
<1>3. /\ lastwrite_len' \in Lens \union {0}
      /\ rsrv_write_addr' \in {End(Len(log)), End(Len(log)) + lastwrite_len'}
  <2>1. LastLen \in Lens \union {0}
    <3>1. CASE log = << >>
      BY <3>1 DEF LastLen
    <3>2. CASE log # << >>
      <4>1. Len(log) \in 1 .. Len(log)
        BY <3>2, EmptySeq, LenProperties DEF LogInv
      <4> QED BY <4>1, <3>2, LogFacts DEF LastLen
    <3> QED BY <3>1, <3>2
  <2>2. CASE \E len \in Lens : StoreLength(len)
    BY <2>2 DEF StoreLength, LogInv
  <2>3. CASE StoreAddr
    BY <2>3 DEF StoreAddr, LogInv
  <2>4. CASE Abort
    BY <2>1, <2>4 DEF Abort
  <2>5. CASE Publish
    BY <2>5 DEF Publish, LogInv
  <2> QED BY <2>2, <2>3, <2>4, <2>5
<1>4. (\E w \in 0 .. Len(log) : write_addr' = End(w)) /\ write_addr' >= write_addr
  <2>1. CASE write_addr' = write_addr
    BY <2>1, <1>0 DEF LogInv
  <2>2. CASE Publish
    <3>1. PICK s \in DOMAIN log : write_addr < End(s) /\ write_addr' = End(s)
      BY <2>2 DEF Publish
    <3>2. s \in 0 .. Len(log)
      BY <1>0 DEF LogInv
    <3> QED BY <3>1, <3>2, <1>0
  <2> QED BY <2>1, <2>2 DEF StoreLength, StoreAddr, Abort
<1>5. LogInv'
  <2>1. (\A s \in DOMAIN log : log[s].start_write_addr = End(s - 1))'
    BY <1>1 DEF LogInv
  <2>2. (\A r, s \in 0 .. Len(log) : r < s => End(r) < End(s))'
    BY <1>1 DEF LogInv
  <2>3. (\E w \in 0 .. Len(log) : write_addr = End(w))'
    BY <1>1, <1>4
  <2> QED BY <2>1, <2>2, <2>3, <1>1, <1>2, <1>3 DEF LogInv
<1>6. Grown
  BY <1>0, <1>1, <1>2, <1>4 DEF Grown
<1> QED BY <1>5, <1>6

----------------------------------------------------------------------------
(* The server.                                                             *)

\* Addresses of transactions by seqno.
LEMMA StartFacts ==
    ASSUME LogInv
    PROVE  /\ \A s \in StartSeqno .. jnl_seqno : Start(s) \in Nat
           /\ \A r, s \in StartSeqno .. jnl_seqno : r <= s <=> Start(r) <= Start(s)
           /\ \A r \in StartSeqno .. jnl_seqno - 1 :
                /\ Length(r) \in Nat \ {0} /\ Length(r) \in Lens
                /\ Start(r + 1) = Start(r) + Length(r)
           /\ Start(jnl_seqno) = End(Len(log))
<1>0. Len(log) \in Nat /\ StartSeqno \in Nat \ {0}
  BY LogFacts
<1>1. \A s \in StartSeqno .. jnl_seqno :
        s - StartSeqno \in 0 .. Len(log) /\ Start(s) = End(s - StartSeqno)
  BY <1>0 DEF Start, jnl_seqno
<1>2. \A s \in StartSeqno .. jnl_seqno : Start(s) \in Nat
  BY <1>1, LogFacts
<1>3. \A r, s \in StartSeqno .. jnl_seqno : r <= s <=> Start(r) <= Start(s)
  <2> SUFFICES ASSUME NEW r \in StartSeqno .. jnl_seqno, NEW s \in StartSeqno .. jnl_seqno
               PROVE  r <= s <=> Start(r) <= Start(s)
    OBVIOUS
  <2>1. r - StartSeqno <= s - StartSeqno <=> End(r - StartSeqno) <= End(s - StartSeqno)
    BY <1>1, LogFacts
  <2>2. r <= s <=> r - StartSeqno <= s - StartSeqno
    BY <1>0
  <2> QED BY <2>1, <2>2, <1>1
<1>4. ASSUME NEW r \in StartSeqno .. jnl_seqno - 1
      PROVE  /\ Length(r) \in Nat \ {0} /\ Length(r) \in Lens
             /\ Start(r + 1) = Start(r) + Length(r)
  <2> DEFINE s == r - StartSeqno + 1
  <2>1. s \in 1 .. Len(log) /\ s - 1 = r - StartSeqno /\ s = (r + 1) - StartSeqno
    BY <1>0 DEF jnl_seqno
  <2>2. Length(r) = log[s].tot_jrec_len /\ Start(r + 1) = End(s) /\ Start(r) = End(s - 1)
    BY <2>1 DEF Length, Start
  <2> HIDE DEF s
  <2> QED BY <2>1, <2>2, LogFacts
<1>5. Start(jnl_seqno) = End(Len(log))
  BY <1>0 DEF Start, jnl_seqno
<1> QED BY <1>2, <1>3, <1>4, <1>5

\* How far transactions are complete.
LEMMA DoneFacts ==
    ASSUME LogInv, filed \in StartSeqno - 1 .. jnl_seqno - 1
    PROVE  /\ filed \in Nat /\ filed + 1 \in StartSeqno .. jnl_seqno /\ Start(filed + 1) \in Nat
           /\ Done \in Nat /\ write_addr <= Done /\ Start(filed + 1) <= Done
           /\ Done <= End(Len(log)) /\ Done \in {write_addr, Start(filed + 1)}
<1>0. /\ StartSeqno \in Nat \ {0} /\ jnl_seqno \in Nat /\ StartSeqno <= jnl_seqno
      /\ write_addr \in Nat /\ write_addr <= End(Len(log)) /\ Len(log) \in Nat
  BY LogFacts
<1>1. filed \in Nat /\ filed + 1 \in StartSeqno .. jnl_seqno /\ jnl_seqno \in StartSeqno .. jnl_seqno
  BY <1>0
<1>2. Start(filed + 1) \in Nat /\ Start(filed + 1) <= Start(jnl_seqno)
  BY <1>0, <1>1, StartFacts
<1>3. Start(filed + 1) <= End(Len(log))
  BY <1>2, StartFacts
<1> QED BY <1>0, <1>1, <1>2, <1>3 DEF Done, Larger

\* What is known before a step.
LEMMA Known ==
    ASSUME IInv
    PROVE  /\ LogInv /\ TypeOK /\ ReadAddrIsSeqno /\ RangeInv /\ CopyInv /\ SearchInv
           /\ PublishedInv /\ filed \in StartSeqno - 1 .. jnl_seqno - 1
           /\ jnl_seqno \in Nat /\ StartSeqno \in Nat \ {0} /\ StartSeqno <= jnl_seqno
           /\ write_addr \in Nat /\ rsrv_write_addr \in Nat
           /\ write_addr <= End(Len(log)) /\ End(Len(log)) <= rsrv_write_addr
           /\ End(Len(log)) \in Nat /\ PoolSize \in Nat
<1>1. LogInv
  BY DEF IInv
<1>2. Len(log) \in 0 .. Len(log)
  BY <1>1, LogFacts
<1> QED BY <1>1, <1>2, LogFacts, SourceAssumption DEF IInv, PublishedInv

\* The pool overflows for a reader whose transaction is overwritten.
LEMMA OverwrittenOverflows ==
    ASSUME IInv, NEW a \in Nat, Overwritten(a)
    PROVE  \A b \in Nat : b <= a => ~jnlpool_hasnt_overflowed(b)
BY Known DEF Overwritten, jnlpool_hasnt_overflowed

\* Steps of the updaters do not move what the server has an address of.
LEMMA UpdatersInv == ASSUME NoRaces, IInv, Updaters PROVE IInv'
<1>0. /\ LogInv /\ TypeOK /\ ReadAddrIsSeqno /\ RangeInv /\ CopyInv /\ SearchInv
      /\ PublishedInv /\ filed \in StartSeqno - 1 .. jnl_seqno - 1
      /\ jnl_seqno \in Nat /\ StartSeqno \in Nat \ {0} /\ StartSeqno <= jnl_seqno
      /\ write_addr \in Nat /\ rsrv_write_addr \in Nat
      /\ End(Len(log)) \in Nat /\ PoolSize \in Nat
  BY Known
<1>1. /\ \/ \E len \in Lens : StoreLength(len)
         \/ ~AheadOfPool /\ StoreAddr
         \/ Commit \/ Publish
         \/ pc # "srch_loop" /\ Abort
      /\ UNCHANGED <<filed, salvaged, read_state, read_addr, read_jnl_seqno,
                     save_read_jnl_seqno, pc, stop_read_at, copied, recvd_jnl_seqno,
                     cur_read_addr, cur_read_jnl_seqno, prev_tr_size, chan>>
  BY DEF Updaters, NoRaces, fileVars, readVars, localVars
<1>2. LogInv' /\ Grown
  BY <1>0, <1>1, CommitLogInv, OtherLogInv
<1>3. /\ jnl_seqno' \in Nat /\ jnl_seqno <= jnl_seqno' /\ write_addr' \in Nat
      /\ rsrv_write_addr' \in Nat /\ (End(Len(log)) \in Nat)'
  <2>1. (LogInv => /\ Len(log) \in Nat /\ write_addr \in Nat /\ rsrv_write_addr \in Nat
                   /\ \A s \in 0 .. Len(log) : End(s) \in Nat)'
    BY LogFacts, PTL
  <2>2. (End(Len(log)) \in Nat)'
    BY <2>1, <1>2
  <2>3. Len(log) \in Nat
    BY <1>0, LogFacts
  <2> QED BY <2>1, <2>2, <2>3, <1>0, <1>2 DEF jnl_seqno, Grown
<1>4. /\ \A s \in StartSeqno .. jnl_seqno : Start(s)' = Start(s)
      /\ \A s \in StartSeqno .. jnl_seqno - 1 : Length(s)' = Length(s)
  <2>1. \A s \in StartSeqno .. jnl_seqno : s - StartSeqno \in 0 .. Len(log)
    BY <1>0, LogFacts DEF jnl_seqno
  <2>2. \A s \in StartSeqno .. jnl_seqno - 1 : s - StartSeqno + 1 \in 1 .. Len(log)
    BY <1>0, LogFacts DEF jnl_seqno
  <2> QED BY <2>1, <2>2, <1>2 DEF Grown, Start, Length
<1>5. \A a \in Nat : Overwritten(a) => Overwritten(a)'
  BY <1>0, <1>2, <1>3 DEF Overwritten, Grown
<1>6. pc = "srch_loop" => rsrv_write_addr <= rsrv_write_addr'
  <2>1. lastwrite_len \in Nat
    BY <1>0, LogFacts
  <2> QED BY <2>1, <1>0, <1>1 DEF StoreLength, StoreAddr, Commit, Publish
<1>7. TypeOK'
  BY <1>0, <1>1, <1>3 DEF TypeOK
<1>8. Done \in Nat /\ Done' \in Nat /\ Done <= Done'
  <2>1. filed + 1 \in StartSeqno .. jnl_seqno /\ Start(filed + 1) \in Nat /\ Done \in Nat
    BY <1>0, DoneFacts
  <2>2. Start(filed + 1)' = Start(filed + 1)
    BY <2>1, <1>1, <1>4
  <2>3. write_addr <= write_addr'
    BY <1>0, <1>2, <1>3 DEF Grown
  <2> QED BY <2>1, <2>2, <2>3, <1>0, <1>3 DEF Done, Larger
<1>9. PublishedInv'
  <2>1. (filed \in StartSeqno - 1 .. jnl_seqno - 1)'
    <3>1. filed' = filed
      BY <1>1
    <3>2. filed \in Int /\ StartSeqno - 1 <= filed /\ filed <= jnl_seqno - 1
      BY <1>0
    <3>3. jnl_seqno \in Int /\ jnl_seqno' \in Int /\ jnl_seqno <= jnl_seqno' /\ StartSeqno \in Int
      BY <1>0, <1>3
    <3>4. \A f, a, m, n \in Int : a - 1 <= f /\ f <= m - 1 /\ m <= n => f \in a - 1 .. n - 1
      OBVIOUS
    <3>5. filed \in StartSeqno - 1 .. jnl_seqno' - 1
      BY <3>2, <3>3, <3>4
    <3> QED BY <3>1, <3>5
  <2>2. (StartSeqno <= read_jnl_seqno => Start(read_jnl_seqno) <= Done)'
    <3>1. ASSUME StartSeqno <= read_jnl_seqno PROVE Start(read_jnl_seqno)' <= Done'
      <4>1. read_jnl_seqno \in StartSeqno .. jnl_seqno
        BY <3>1, <1>0 DEF TypeOK
      <4>2. Start(read_jnl_seqno)' = Start(read_jnl_seqno) /\ Start(read_jnl_seqno) \in Nat
        BY <4>1, <1>0, <1>1, <1>4, StartFacts
      <4> QED BY <3>1, <4>2, <1>0, <1>8 DEF PublishedInv
    <3> QED BY <3>1, <1>1
  <2>3. ASSUME AheadOfPool' PROVE filed = jnl_seqno' - 1 /\ rsrv_write_addr' = End(Len(log))'
    <3>1. AheadOfPool
      BY <2>3, <1>0, <1>1, <1>2, <1>3 DEF AheadOfPool, Grown, TypeOK
    <3>2. filed = jnl_seqno - 1 /\ rsrv_write_addr = End(Len(log))
      BY <3>1, <1>0 DEF PublishedInv
    <3>3. ~Commit
      <4>1. lastwrite_len \in Lens => lastwrite_len \in Nat /\ lastwrite_len > 0
        BY CommitLogAssumption
      <4>2. End(Len(log)) \in Nat
        BY <1>0
      <4> QED BY <4>1, <4>2, <3>2 DEF Commit
    <3>4. log' = log /\ (rsrv_write_addr' = rsrv_write_addr \/ rsrv_write_addr' = End(Len(log)))
      BY <3>1, <3>3, <1>1 DEF StoreLength, Publish, Abort
    <3> QED BY <3>2, <3>4 DEF jnl_seqno, End
  <2> QED BY <2>1, <2>2, <2>3, <1>1 DEF PublishedInv
<1>10. ReadAddrIsSeqno'
  <2>1. read_state = "READ_POOL" => read_addr = Start(read_jnl_seqno)'
    BY <1>0, <1>1, <1>2, <1>3, <1>4 DEF TypeOK, ReadAddrIsSeqno, RangeInv
  <2>2. read_state = "READ_FILE" =>
          read_addr = Start(Larger(read_jnl_seqno, save_read_jnl_seqno))'
    <3>1. read_state = "READ_FILE" =>
            Larger(read_jnl_seqno, save_read_jnl_seqno) \in StartSeqno .. jnl_seqno
      BY <1>0 DEF TypeOK, RangeInv, Larger
    <3> QED BY <3>1, <1>0, <1>1, <1>4 DEF ReadAddrIsSeqno, Larger
  <2>3. pc \in Searching => cur_read_addr = Start(cur_read_jnl_seqno)'
    BY <1>0, <1>1, <1>4 DEF TypeOK, ReadAddrIsSeqno, SearchInv
  <2>4. /\ UNCHANGED <<read_state, read_addr, read_jnl_seqno, save_read_jnl_seqno, pc,
                       cur_read_addr, cur_read_jnl_seqno>>
        /\ read_state \in {"READ_POOL", "READ_FILE"}
    BY <1>0, <1>1 DEF TypeOK
  <2>5. CASE read_state = "READ_POOL"
    BY <2>1, <2>3, <2>4, <2>5 DEF ReadAddrIsSeqno
  <2>6. CASE read_state = "READ_FILE"
    BY <2>2, <2>3, <2>4, <2>6 DEF ReadAddrIsSeqno
  <2> QED BY <2>4, <2>5, <2>6
<1>11. RangeInv' /\ CopyInv'
  <2>1. RangeInv'
    BY <1>0, <1>1 DEF RangeInv
  <2>2. write_addr <= write_addr'
    BY <1>2 DEF Grown
  <2>3. pc \in {"copy", "check"} => stop_read_at <= write_addr'
    BY <2>2, <1>0, <1>3 DEF CopyInv, TypeOK
  <2>4. pc = "check" /\ ~copied => Overwritten(read_addr)'
    <3>1. read_addr \in Nat /\ read_addr' = read_addr
      BY <1>0, <1>1 DEF TypeOK
    <3>2. Overwritten(read_addr) => Overwritten(read_addr)'
      BY <3>1, <1>5 DEF Overwritten
    <3> QED BY <3>2, <1>0 DEF CopyInv
  <2> QED BY <2>1, <2>3, <2>4, <1>0, <1>1 DEF CopyInv
<1>12. SearchInv'
  <2>1. pc \in Searching => cur_read_addr <= Done'
    BY <1>0, <1>8 DEF SearchInv, TypeOK
  <2>2. pc = "srch_wait" => (write_addr' < cur_read_addr => cur_read_addr < Done')
    <3>1. write_addr <= write_addr' /\ cur_read_addr \in Nat
      BY <1>0, <1>2, <1>3 DEF Grown, TypeOK
    <3> QED BY <3>1, <1>0, <1>3, <1>8 DEF SearchInv
  <2>3. pc = "srch_loop" /\ GoOnSearching' => GoOnSearching
    <3>1. pc = "srch_loop" => cur_read_addr <= rsrv_write_addr
      <4>1. Done <= End(Len(log)) /\ End(Len(log)) <= rsrv_write_addr
        BY <1>0, DoneFacts, Known
      <4> QED BY <4>1, <1>0, <1>8 DEF SearchInv, Searching, TypeOK
    <3>2. cur_read_addr \in Nat /\ cur_read_addr' = cur_read_addr
      BY <1>0, <1>1 DEF TypeOK
    <3>3. pc = "srch_loop" /\ jnlpool_hasnt_overflowed(cur_read_addr)' =>
            jnlpool_hasnt_overflowed(cur_read_addr)
      <4>1. jnlpool_hasnt_overflowed(cur_read_addr)' <=>
              cur_read_addr <= rsrv_write_addr' /\ rsrv_write_addr' - cur_read_addr <= PoolSize
        BY <3>2 DEF jnlpool_hasnt_overflowed
      <4>2. /\ PoolSize \in Nat /\ rsrv_write_addr \in Nat /\ rsrv_write_addr' \in Nat
            /\ cur_read_addr \in Nat
        BY <3>2, <1>0, <1>3
      <4>3. \A a, b, c, k \in Nat : a <= b /\ b <= c /\ c - a <= k => b - a <= k
        OBVIOUS
      <4>4. pc = "srch_loop" /\ rsrv_write_addr' - cur_read_addr <= PoolSize =>
              rsrv_write_addr - cur_read_addr <= PoolSize
        BY <4>2, <4>3, <3>1, <1>6
      <4> QED BY <4>1, <4>4, <3>1 DEF jnlpool_hasnt_overflowed
    <3> QED BY <3>3, <1>1 DEF GoOnSearching
  <2>4. pc = "srch_loop" => (GoOnSearching' => cur_read_addr < Done')
    BY <2>3, <1>0, <1>8 DEF SearchInv, TypeOK
  <2>5. pc = "srch_step" => \/ prev_tr_size = Length(cur_read_jnl_seqno - 1)'
                            \/ Overwritten(cur_read_addr)'
    <3>1. pc = "srch_step" => cur_read_jnl_seqno - 1 \in StartSeqno .. jnl_seqno - 1
      BY <1>0 DEF SearchInv, TypeOK
    <3> QED BY <3>1, <1>0, <1>1, <1>4, <1>5 DEF SearchInv, TypeOK
  <2> QED BY <2>1, <2>4, <2>5, <2>2, <1>0, <1>1 DEF SearchInv
<1> QED BY <1>2, <1>7, <1>10, <1>11, <1>12, <1>9 DEF IInv

\* Most of the server's steps do not change the pool.
LEMMA SamePool ==
    ASSUME IInv, UNCHANGED logVars
    PROVE  /\ LogInv' /\ jnl_seqno' = jnl_seqno
           /\ write_addr' = write_addr /\ rsrv_write_addr' = rsrv_write_addr
           /\ \A s : Start(s)' = Start(s) /\ Length(s)' = Length(s)
           /\ \A a : Overwritten(a)' <=> Overwritten(a)
           /\ \A a : jnlpool_hasnt_overflowed(a)' <=> jnlpool_hasnt_overflowed(a)
<1>1. log' = log /\ UNCHANGED <<write_addr, rsrv_write_addr, lastwrite_len>>
  BY DEF logVars
<1>2. \A s : End(s)' = End(s)
  BY <1>1 DEF End
<1>3. LogInv'
  BY <1>1, <1>2 DEF IInv, LogInv
<1>4. /\ jnl_seqno' = jnl_seqno
      /\ \A s : Start(s)' = Start(s) /\ Length(s)' = Length(s)
      /\ \A a : Overwritten(a)' <=> Overwritten(a)
      /\ \A a : jnlpool_hasnt_overflowed(a)' <=> jnlpool_hasnt_overflowed(a)
  BY <1>1, <1>2 DEF jnl_seqno, Start, Length, Overwritten, jnlpool_hasnt_overflowed
<1> QED BY <1>1, <1>3, <1>4

\* repl_phase2_cleanup publishes everything that is complete, and changes nothing else.
LEMMA CleanedPool ==
    ASSUME NoRaces, IInv, repl_phase2_cleanup
    PROVE  /\ LogInv' /\ jnl_seqno' = jnl_seqno /\ write_addr' = Done /\ log' = log
           /\ rsrv_write_addr' = rsrv_write_addr /\ End(Len(log))' = End(Len(log))
           /\ \A s : Start(s)' = Start(s) /\ Length(s)' = Length(s)
           /\ \A a : Overwritten(a)' <=> Overwritten(a)
           /\ \A a : jnlpool_hasnt_overflowed(a)' <=> jnlpool_hasnt_overflowed(a)
<1>0. /\ LogInv /\ filed \in StartSeqno - 1 .. jnl_seqno - 1 /\ StartSeqno \in Nat \ {0}
      /\ jnl_seqno \in Nat
  BY Known
<1>1. log' = log /\ UNCHANGED <<rsrv_write_addr, lastwrite_len>> /\ write_addr' = Done
  BY DEF repl_phase2_cleanup, Complete, Done, NoRaces
<1>2. \A s : End(s)' = End(s)
  BY <1>1 DEF End
<1>3. \E w \in 0 .. Len(log) : Done = End(w)
  <2>1. CASE Done = write_addr
    BY <2>1, <1>0 DEF LogInv
  <2>2. CASE Done = Start(filed + 1)
    <3>1. (filed + 1) - StartSeqno \in 0 .. Len(log)
      BY <1>0, LogFacts DEF jnl_seqno
    <3> QED BY <2>2, <3>1 DEF Start
  <2> QED BY <2>1, <2>2, <1>0, DoneFacts
<1>4. LogInv'
  <2>1. (\A s \in DOMAIN log : log[s].start_write_addr = End(s - 1))'
    BY <1>0, <1>1, <1>2 DEF LogInv
  <2>2. (\A r, s \in 0 .. Len(log) : r < s => End(r) < End(s))'
    BY <1>0, <1>1, <1>2 DEF LogInv
  <2>3. (\E w \in 0 .. Len(log) : write_addr = End(w))'
    BY <1>1, <1>2, <1>3
  <2> QED BY <2>1, <2>2, <2>3, <1>0, <1>1, <1>2 DEF LogInv
<1>5. /\ jnl_seqno' = jnl_seqno /\ End(Len(log))' = End(Len(log))
      /\ \A s : Start(s)' = Start(s) /\ Length(s)' = Length(s)
      /\ \A a : Overwritten(a)' <=> Overwritten(a)
      /\ \A a : jnlpool_hasnt_overflowed(a)' <=> jnlpool_hasnt_overflowed(a)
  BY <1>1, <1>2 DEF jnl_seqno, Start, Length, Overwritten, jnlpool_hasnt_overflowed
<1> QED BY <1>1, <1>4, <1>5

\* Steps that move neither the pool nor the server in it.
LEMMA SamePublished ==
    ASSUME IInv,
           UNCHANGED <<logVars, filed, read_state, read_addr, read_jnl_seqno>>
    PROVE  PublishedInv' /\ Done' = Done
<1>1. PublishedInv
  BY Known
<1>2. /\ log' = log /\ jnl_seqno' = jnl_seqno /\ End(Len(log))' = End(Len(log))
      /\ \A s : Start(s)' = Start(s)
  <2>1. log' = log
    BY DEF logVars
  <2> QED BY <2>1, SamePool DEF End
<1>3. Done' = Done /\ (AheadOfPool' <=> AheadOfPool)
  BY <1>2, SamePool DEF Done, Larger, AheadOfPool
<1> QED BY <1>1, <1>2, <1>3, SamePool DEF PublishedInv

\* A transaction reaches the journal files.
LEMMA FileCompleteInv == ASSUME NoRaces, IInv, FileComplete PROVE IInv'
<1>0. /\ TypeOK /\ ReadAddrIsSeqno /\ RangeInv /\ CopyInv /\ SearchInv /\ PublishedInv /\ LogInv
      /\ filed \in StartSeqno - 1 .. jnl_seqno - 1 /\ write_addr \in Nat
      /\ StartSeqno \in Nat \ {0} /\ jnl_seqno \in Nat
  BY Known
<1>1. /\ filed < jnl_seqno - 1 /\ filed' = filed + 1 /\ salvaged' = salvaged
      /\ UNCHANGED <<logVars, read_state, read_addr, read_jnl_seqno,
                     save_read_jnl_seqno, pc, stop_read_at, copied, recvd_jnl_seqno,
                     cur_read_addr, cur_read_jnl_seqno, prev_tr_size, chan>>
  BY DEF FileComplete, NoRaces, readVars, localVars
<1>2. TypeOK'
  BY <1>0, <1>1, SamePool DEF TypeOK, RangeInv
<1>3. ReadAddrIsSeqno' /\ RangeInv' /\ CopyInv'
  BY <1>0, <1>1, SamePool DEF ReadAddrIsSeqno, RangeInv, CopyInv, Larger
<1>4. Done \in Nat /\ Done' \in Nat /\ Done <= Done'
  <2>1. /\ filed + 1 \in StartSeqno .. jnl_seqno /\ (filed + 1) + 1 \in StartSeqno .. jnl_seqno
        /\ filed + 1 <= (filed + 1) + 1
    BY <1>0, <1>1
  <2>2. /\ Start(filed + 1) \in Nat /\ Start((filed + 1) + 1) \in Nat
        /\ Start(filed + 1) <= Start((filed + 1) + 1)
    BY <2>1, <1>0, StartFacts
  <2>3. Done' = Larger(write_addr, Start((filed + 1) + 1))
    BY <1>1, SamePool DEF Done, Larger
  <2> QED BY <2>2, <2>3, <1>0 DEF Done, Larger
<1>5. PublishedInv'
  <2>1. (filed \in StartSeqno - 1 .. jnl_seqno - 1)'
    BY <1>0, <1>1, SamePool
  <2>2. StartSeqno <= read_jnl_seqno => Start(read_jnl_seqno)' <= Done'
    <3>1. StartSeqno <= read_jnl_seqno => Start(read_jnl_seqno) \in Nat
      BY <1>0, StartFacts DEF TypeOK
    <3> QED BY <3>1, <1>0, <1>1, <1>4, SamePool DEF PublishedInv
  <2>3. ~AheadOfPool'
    <3>1. ~AheadOfPool
      BY <1>0, <1>1 DEF PublishedInv
    <3> QED BY <3>1, <1>1, SamePool DEF AheadOfPool
  <2> QED BY <2>1, <2>2, <2>3, <1>1 DEF PublishedInv
<1>6. SearchInv'
  <2>1. /\ pc \in Searching => cur_read_addr <= Done'
        /\ pc = "srch_wait" => (write_addr < cur_read_addr => cur_read_addr < Done')
        /\ pc = "srch_loop" => (GoOnSearching => cur_read_addr < Done')
    BY <1>0, <1>4 DEF SearchInv, TypeOK
  <2>2. GoOnSearching' <=> GoOnSearching
    BY <1>1, SamePool DEF GoOnSearching
  <2> QED BY <2>1, <2>2, <1>0, <1>1, SamePool DEF SearchInv
<1> QED BY <1>1, <1>2, <1>3, <1>5, <1>6, SamePool DEF IInv

\* What is complete is published; then the first overflow check of gtmsource_readpool.
LEMMA ReadPoolInv == ASSUME NoRaces, IInv, ReadPool PROVE IInv'
<1>0. /\ TypeOK /\ ReadAddrIsSeqno /\ RangeInv /\ PublishedInv /\ LogInv
      /\ filed \in StartSeqno - 1 .. jnl_seqno - 1 /\ StartSeqno \in Nat \ {0}
      /\ jnl_seqno \in Nat
  BY Known
<1>1. /\ pc = "sending" /\ read_state = "READ_POOL" /\ repl_phase2_cleanup
      /\ UNCHANGED <<filed, salvaged, copied, recvd_jnl_seqno, cur_read_addr,
                     cur_read_jnl_seqno, prev_tr_size, chan>>
  BY DEF ReadPool, fileVars
<1>2. /\ LogInv' /\ jnl_seqno' = jnl_seqno /\ write_addr' = Done
      /\ \A s : Start(s)' = Start(s)
  BY <1>1, CleanedPool
<1>3. Done \in Nat /\ Start(filed + 1) <= Done /\ Start(filed + 1) \in Nat
  BY <1>0, DoneFacts
<1>4. Done' = Done
  BY <1>1, <1>2, <1>3 DEF Done, Larger
<1>5. read_addr \in Nat /\ read_addr <= Done
  BY <1>0, <1>1 DEF TypeOK, ReadAddrIsSeqno, RangeInv, PublishedInv
<1>6. ASSUME UNCHANGED <<read_addr, read_jnl_seqno>> PROVE PublishedInv'
  <2>1. ~AheadOfPool'
    BY <1>2, <1>3, <1>5, <1>6 DEF AheadOfPool
  <2>2. (StartSeqno <= read_jnl_seqno => Start(read_jnl_seqno) <= Done)'
    BY <1>0, <1>2, <1>4, <1>6 DEF PublishedInv
  <2> QED BY <2>1, <2>2, <1>0, <1>1, <1>2 DEF PublishedInv
<1>7. CASE UNCHANGED <<pc, stop_read_at, read_state, read_addr, read_jnl_seqno, save_read_jnl_seqno>>
  <2>1. TypeOK'
    BY <1>0, <1>1, <1>2, <1>7 DEF TypeOK
  <2>2. ReadAddrIsSeqno' /\ RangeInv' /\ CopyInv' /\ SearchInv'
    BY <1>0, <1>1, <1>2, <1>7 DEF ReadAddrIsSeqno, RangeInv, CopyInv, SearchInv, Searching
  <2> QED BY <2>1, <2>2, <1>2, <1>6, <1>7 DEF IInv
<1>8. CASE /\ read_addr # write_addr' /\ pc' = "copy" /\ stop_read_at' = write_addr'
           /\ UNCHANGED <<read_state, read_addr, read_jnl_seqno, save_read_jnl_seqno>>
  <2>1. TypeOK'
    BY <1>0, <1>1, <1>2, <1>3, <1>8 DEF TypeOK, Points
  <2>2. read_addr' < stop_read_at' /\ stop_read_at' <= write_addr'
    BY <1>2, <1>3, <1>5, <1>8
  <2>3. ReadAddrIsSeqno' /\ RangeInv' /\ CopyInv' /\ SearchInv'
    BY <2>2, <1>0, <1>1, <1>2, <1>8 DEF ReadAddrIsSeqno, RangeInv, CopyInv, SearchInv, Searching
  <2> QED BY <2>1, <2>3, <1>2, <1>6, <1>8 DEF IInv
<1>9. CASE SwitchToFile /\ UNCHANGED <<pc, stop_read_at>>
  <2>1. TypeOK'
    BY <1>0, <1>1, <1>2, <1>9 DEF TypeOK, SwitchToFile
  <2>2. Larger(read_jnl_seqno, read_jnl_seqno) = read_jnl_seqno
    BY DEF Larger
  <2>3. ReadAddrIsSeqno' /\ RangeInv' /\ CopyInv' /\ SearchInv'
    BY <2>2, <1>0, <1>1, <1>2, <1>9 DEF ReadAddrIsSeqno, RangeInv, CopyInv, SearchInv,
        Larger, Searching, SwitchToFile
  <2> QED BY <2>1, <2>3, <1>2, <1>6, <1>9 DEF IInv, SwitchToFile
<1> QED BY <1>7, <1>8, <1>9 DEF ReadPool, readVars

\* The copy is right, or the transaction is overwritten.
LEMMA CopyFromPoolInv == ASSUME IInv, CopyFromPool PROVE IInv'
<1>0. /\ TypeOK /\ ReadAddrIsSeqno /\ RangeInv /\ CopyInv /\ write_addr \in Nat
  BY Known
<1>1. /\ pc = "copy" /\ pc' = "check"
      /\ UNCHANGED <<logVars, filed, salvaged, read_state, read_addr, read_jnl_seqno,
                     save_read_jnl_seqno, stop_read_at, recvd_jnl_seqno, cur_read_addr,
                     cur_read_jnl_seqno, prev_tr_size, chan>>
  BY DEF CopyFromPool, fileVars, readVars
<1>2. read_state = "READ_POOL" /\ read_addr < stop_read_at /\ stop_read_at <= write_addr
  BY <1>0, <1>1 DEF CopyInv
<1>3. read_addr = Start(read_jnl_seqno) /\ read_addr < write_addr
  BY <1>0, <1>2 DEF ReadAddrIsSeqno, TypeOK
<1>4. copied' \in BOOLEAN /\ (~copied' => Overwritten(read_addr))
  BY <1>3 DEF CopyFromPool
<1>5. TypeOK'
  BY <1>0, <1>1, <1>4, SamePool DEF TypeOK, Points
<1>6. ReadAddrIsSeqno' /\ RangeInv' /\ CopyInv' /\ SearchInv'
  BY <1>0, <1>1, <1>2, <1>4, SamePool DEF ReadAddrIsSeqno, RangeInv, CopyInv, SearchInv,
      Larger, Searching
<1> QED BY <1>1, <1>5, <1>6, SamePool, SamePublished DEF IInv

\* What gtmsource_readpool sends: whole transactions from read_jnl_seqno on.
LEMMA SendFromPoolIs ==
    ASSUME IInv, SendFromPool
    PROVE  /\ pc = "check" /\ pc' = "sending" /\ Return
           /\ UNCHANGED <<logVars, filed, salvaged>> /\ read_state = "READ_POOL"
           /\ \/ SwitchToFile /\ UNCHANGED chan
              \/ \E n \in 1 .. MaxSeqno :
                    /\ Whole(n) /\ read_addr' = Start(read_jnl_seqno + n)
                    /\ chan' = chan \o [i \in 1 .. n |-> read_jnl_seqno + i - 1]
                    /\ read_jnl_seqno' = read_jnl_seqno + n
                    /\ UNCHANGED <<read_state, save_read_jnl_seqno>>
<1>0. TypeOK /\ CopyInv
  BY Known
<1>1. /\ pc = "check" /\ pc' = "sending" /\ Return /\ UNCHANGED <<logVars, filed, salvaged>>
  BY DEF SendFromPool, fileVars
<1>2. read_state = "READ_POOL" /\ (~copied => Overwritten(read_addr)) /\ copied \in BOOLEAN
  BY <1>0, <1>1 DEF CopyInv, TypeOK
<1>3. ~copied => ~jnlpool_hasnt_overflowed(read_addr)
  <2>1. read_addr \in Nat /\ read_addr <= read_addr
    BY <1>0 DEF TypeOK
  <2> QED BY <2>1, <1>2, OverwrittenOverflows
<1>4. ASSUME ~RecheckPool(~jnlpool_hasnt_overflowed(read_addr)) PROVE copied
  BY <1>3, <1>4 DEF RecheckPool
<1> QED BY <1>1, <1>2, <1>4 DEF SendFromPool

\* Transactions are sent from the pool.
LEMMA SendFromPoolInv == ASSUME IInv, SendFromPool PROVE IInv'
<1>0. /\ TypeOK /\ ReadAddrIsSeqno /\ RangeInv /\ CopyInv /\ write_addr \in Nat
      /\ StartSeqno \in Nat \ {0} /\ jnl_seqno \in Nat /\ LogInv
      /\ PublishedInv /\ filed \in StartSeqno - 1 .. jnl_seqno - 1
  BY Known
<1>1. /\ pc = "check" /\ pc' = "sending" /\ Return
      /\ UNCHANGED <<logVars, filed, salvaged>> /\ read_state = "READ_POOL"
  BY SendFromPoolIs
<1>2. /\ stop_read_at' \in Nat /\ copied' \in BOOLEAN /\ recvd_jnl_seqno' = 1
      /\ cur_read_addr' \in Nat /\ cur_read_jnl_seqno' = 1 /\ prev_tr_size' \in Nat
      /\ 1 \in 1 .. jnl_seqno
  <2>1. 1 \in 1 .. jnl_seqno
    BY <1>0 DEF TypeOK
  <2> QED BY <2>1, <1>1 DEF Return
<1>3. CASE SwitchToFile /\ UNCHANGED chan
  <2>1. TypeOK'
    BY <1>0, <1>1, <1>2, <1>3, SamePool DEF TypeOK, SwitchToFile, Points
  <2>2. Larger(read_jnl_seqno, read_jnl_seqno) = read_jnl_seqno
    BY DEF Larger
  <2>3. ReadAddrIsSeqno' /\ RangeInv' /\ CopyInv' /\ SearchInv'
    BY <2>2, <1>0, <1>1, <1>3, SamePool DEF ReadAddrIsSeqno, RangeInv, CopyInv, SearchInv,
        Larger, Searching, SwitchToFile
  <2>4. PublishedInv'
    <3>1. Done' = Done /\ ~AheadOfPool'
      BY <1>1, <1>3, SamePool DEF Done, Larger, AheadOfPool, SwitchToFile
    <3> QED BY <3>1, <1>0, <1>1, <1>3, SamePool DEF PublishedInv, SwitchToFile
  <2> QED BY <2>1, <2>3, <2>4, <1>1, SamePool DEF IInv
<1>4. ASSUME NEW n \in 1 .. MaxSeqno,
             Whole(n), read_addr' = Start(read_jnl_seqno + n),
             chan' = chan \o [i \in 1 .. n |-> read_jnl_seqno + i - 1],
             read_jnl_seqno' = read_jnl_seqno + n,
             UNCHANGED <<read_state, save_read_jnl_seqno>>
      PROVE  IInv'
  <2>0. n \in Nat \ {0}
    BY SourceAssumption
  <2>1. /\ read_jnl_seqno + n \in StartSeqno .. jnl_seqno
        /\ read_jnl_seqno + n \in 1 .. jnl_seqno
        /\ Start(read_jnl_seqno + n) <= stop_read_at /\ stop_read_at <= write_addr
    BY <2>0, <1>0, <1>1, <1>4 DEF Whole, TypeOK, RangeInv, CopyInv
  <2>2. Start(read_jnl_seqno + n) \in Nat
    BY <2>1, <1>0, StartFacts
  <2>3. Start(read_jnl_seqno + n) <= write_addr
    BY <2>1, <2>2, <1>0 DEF TypeOK
  <2>4. chan' \in Seq(Nat)
    <3>1. [i \in 1 .. n |-> read_jnl_seqno + i - 1] \in Seq(Nat)
      BY <2>0, <1>0 DEF TypeOK
    <3> QED BY <3>1, <1>0, <1>4, ConcatProperties DEF TypeOK
  <2>5. TypeOK'
    BY <2>1, <2>2, <2>4, <1>0, <1>1, <1>2, <1>4, SamePool DEF TypeOK, Points
  <2>6. ReadAddrIsSeqno' /\ RangeInv' /\ CopyInv' /\ SearchInv'
    BY <2>1, <2>3, <1>0, <1>1, <1>4, SamePool DEF ReadAddrIsSeqno, RangeInv, CopyInv,
        SearchInv, Searching
  <2>7. PublishedInv'
    <3>1. Done' = Done /\ Done \in Nat /\ write_addr <= Done
      BY <1>0, <1>1, SamePool, DoneFacts DEF Done, Larger
    <3>2. Start(read_jnl_seqno + n) <= Done
      BY <2>2, <2>3, <3>1, <1>0
    <3>3. ~AheadOfPool'
      BY <2>2, <2>3, <1>0, <1>1, <1>4, SamePool DEF AheadOfPool
    <3> QED BY <3>1, <3>2, <3>3, <1>0, <1>1, <1>4, SamePool DEF PublishedInv
  <2> QED BY <2>5, <2>6, <2>7, <1>1, SamePool DEF IInv
<1> QED BY <1>3, <1>4, SendFromPoolIs

\* A transaction is read from the journal files.
LEMMA ReadFilesInv == ASSUME NoRaces, IInv, ReadFiles PROVE IInv'
<1> DEFINE sync == InSync(read_jnl_seqno)
           addr == IF sync THEN read_addr + FileLength(read_jnl_seqno) ELSE read_addr
           file2pool == sync /\ jnlpool_hasnt_overflowed(addr)
<1>0. /\ TypeOK /\ ReadAddrIsSeqno /\ RangeInv /\ write_addr \in Nat
      /\ StartSeqno \in Nat \ {0} /\ jnl_seqno \in Nat /\ LogInv
      /\ PublishedInv /\ filed \in StartSeqno - 1 .. jnl_seqno - 1
  BY Known
<1>1. /\ pc = "sending" /\ read_state = "READ_FILE" /\ read_jnl_seqno < jnl_seqno
      /\ read_jnl_seqno <= filed
      /\ IF file2pool /\ write_addr < addr THEN repl_phase2_cleanup ELSE UNCHANGED logVars
      /\ read_state' = IF file2pool THEN "READ_POOL" ELSE "READ_FILE"
      /\ read_addr' = addr /\ read_jnl_seqno' = read_jnl_seqno + 1
      /\ chan' = Append(chan, read_jnl_seqno)
      /\ UNCHANGED <<filed, salvaged, save_read_jnl_seqno, pc, stop_read_at,
                     copied, recvd_jnl_seqno, cur_read_addr, cur_read_jnl_seqno,
                     prev_tr_size>>
  BY DEF ReadFiles, fileVars, localVars
<1>2. /\ read_jnl_seqno \in Nat \ {0} /\ save_read_jnl_seqno \in Nat
      /\ StartSeqno <= save_read_jnl_seqno /\ save_read_jnl_seqno <= jnl_seqno
      /\ read_addr = Start(Larger(read_jnl_seqno, save_read_jnl_seqno))
      /\ read_addr \in Nat
  BY <1>0, <1>1 DEF TypeOK, RangeInv, ReadAddrIsSeqno
<1>3. /\ addr = Start(Larger(read_jnl_seqno + 1, save_read_jnl_seqno)) /\ addr \in Nat
      /\ sync => StartSeqno <= read_jnl_seqno
                 /\ Larger(read_jnl_seqno + 1, save_read_jnl_seqno) = read_jnl_seqno + 1
  <2>1. CASE sync
    <3>1. /\ read_jnl_seqno \in StartSeqno .. jnl_seqno - 1
          /\ Larger(read_jnl_seqno, save_read_jnl_seqno) = read_jnl_seqno
          /\ Larger(read_jnl_seqno + 1, save_read_jnl_seqno) = read_jnl_seqno + 1
      BY <2>1, <1>0, <1>1, <1>2 DEF InSync, Larger
    <3>2. FileLength(read_jnl_seqno) = Length(read_jnl_seqno)
      BY <1>0 DEF FileLength, RangeInv
    <3>3. /\ Length(read_jnl_seqno) \in Nat
          /\ Start(read_jnl_seqno + 1) = Start(read_jnl_seqno) + Length(read_jnl_seqno)
      BY <3>1, <1>0, StartFacts
    <3> QED BY <2>1, <3>1, <3>2, <3>3, <1>2
  <2>2. CASE ~sync
    BY <2>2, <1>2 DEF InSync, Larger
  <2> QED BY <2>1, <2>2
<1> HIDE DEF sync, addr, file2pool
<1>4. /\ LogInv' /\ jnl_seqno' = jnl_seqno /\ write_addr' \in {write_addr, Done}
      /\ file2pool /\ write_addr < addr => write_addr' = Done
      /\ \A s : Start(s)' = Start(s)
  <2>1. CASE repl_phase2_cleanup
    BY <2>1, CleanedPool
  <2>2. CASE UNCHANGED logVars /\ ~(file2pool /\ write_addr < addr)
    BY <2>2, SamePool
  <2> QED BY <2>1, <2>2, <1>1
<1>5. /\ Done \in Nat /\ write_addr <= Done /\ Start(filed + 1) \in Nat
      /\ Start(filed + 1) <= Done /\ filed + 1 \in StartSeqno .. jnl_seqno /\ filed \in Nat
  BY <1>0, DoneFacts
<1>6. Done' = Done
  BY <1>0, <1>1, <1>4, <1>5 DEF Done, Larger
<1>7. StartSeqno <= read_jnl_seqno + 1 => Start(read_jnl_seqno + 1) <= Done
  <2>1. ASSUME StartSeqno <= read_jnl_seqno + 1
        PROVE  Start(read_jnl_seqno + 1) \in Nat /\ Start(read_jnl_seqno + 1) <= Start(filed + 1)
    <3>1. read_jnl_seqno + 1 \in StartSeqno .. jnl_seqno /\ read_jnl_seqno + 1 <= filed + 1
      BY <2>1, <1>0, <1>1, <1>2, <1>5
    <3> QED BY <3>1, <1>0, <1>5, StartFacts
  <2> QED BY <2>1, <1>5
<1>8. TypeOK'
  <2>1. chan' \in Seq(Nat)
    BY <1>0, <1>1, <1>2, AppendProperties DEF TypeOK
  <2> QED BY <2>1, <1>0, <1>1, <1>2, <1>3, <1>4 DEF TypeOK
<1>9. ReadAddrIsSeqno' /\ RangeInv'
  <2>1. CASE file2pool
    BY <2>1, <1>0, <1>1, <1>2, <1>3, <1>4 DEF ReadAddrIsSeqno, RangeInv, Searching, file2pool
  <2>2. CASE ~file2pool
    BY <2>2, <1>0, <1>1, <1>2, <1>3, <1>4 DEF ReadAddrIsSeqno, RangeInv, Searching, Larger
  <2> QED BY <2>1, <2>2
<1>10. PublishedInv'
  <2>1. ~AheadOfPool'
    <3>1. CASE file2pool
      <4>1. addr = Start(read_jnl_seqno + 1) /\ StartSeqno <= read_jnl_seqno + 1
        BY <3>1, <1>0, <1>2, <1>3 DEF file2pool
      <4>2. addr <= write_addr'
        BY <3>1, <4>1, <1>0, <1>3, <1>4, <1>5, <1>7
      <4> QED BY <4>2, <1>0, <1>1, <1>3, <1>4, <1>5 DEF AheadOfPool
    <3>2. CASE ~file2pool
      BY <3>2, <1>1 DEF AheadOfPool
    <3> QED BY <3>1, <3>2
  <2> QED BY <2>1, <1>0, <1>1, <1>4, <1>6, <1>7 DEF PublishedInv
<1>11. CopyInv' /\ SearchInv'
  BY <1>1 DEF CopyInv, SearchInv, Searching
<1> QED BY <1>4, <1>8, <1>9, <1>10, <1>11 DEF IInv

----------------------------------------------------------------------------
(* gtmsource_srch_restart.                                                 *)

\* The receiver's request.
LEMMA SrchRestartInv ==
    ASSUME IInv, NEW s \in 1 .. jnl_seqno, SrchRestart(s) PROVE IInv'
<1>0. /\ TypeOK /\ ReadAddrIsSeqno /\ RangeInv /\ write_addr \in Nat
      /\ StartSeqno \in Nat \ {0} /\ jnl_seqno \in Nat /\ LogInv /\ StartSeqno <= jnl_seqno
      /\ End(Len(log)) \in Nat /\ PublishedInv /\ filed \in StartSeqno - 1 .. jnl_seqno - 1
  BY Known
<1>1. /\ chan' = << >>
      /\ UNCHANGED <<logVars, filed, salvaged, stop_read_at, copied, prev_tr_size>>
  BY DEF SrchRestart, fileVars
<1>2. chan' \in Seq(Nat) /\ s \in Nat \ {0} /\ read_jnl_seqno \in Nat /\ save_read_jnl_seqno \in Nat
  BY <1>0, <1>1 DEF TypeOK
<1>3. CASE s <= read_jnl_seqno /\ read_state = "READ_POOL"
  <2>1. /\ pc' = "srch_first" /\ recvd_jnl_seqno' = s /\ cur_read_addr' = read_addr
        /\ cur_read_jnl_seqno' = read_jnl_seqno
        /\ UNCHANGED <<read_state, read_addr, read_jnl_seqno, save_read_jnl_seqno>>
    BY <1>3 DEF SrchRestart, readVars
  <2>2. TypeOK'
    BY <2>1, <1>0, <1>1, <1>2, SamePool DEF TypeOK, Points, Searching
  <2>3. PublishedInv' /\ Done' = Done
    BY <2>1, <1>1, SamePublished
  <2>4. read_addr <= Done /\ read_addr \in Nat
    BY <1>0, <1>3 DEF ReadAddrIsSeqno, RangeInv, PublishedInv, TypeOK
  <2>5. ReadAddrIsSeqno' /\ RangeInv' /\ CopyInv'
    BY <2>1, <1>0, <1>1, <1>3, SamePool DEF ReadAddrIsSeqno, RangeInv, CopyInv
  <2>6. SearchInv'
    BY <2>1, <2>3, <2>4, <1>0, <1>1, <1>3 DEF SearchInv, RangeInv
  <2> QED BY <2>2, <2>3, <2>5, <2>6, <1>1, SamePool DEF IInv
<1>4. CASE ~(s <= read_jnl_seqno /\ read_state = "READ_POOL")
  <2>1. /\ pc' = "sending" /\ read_jnl_seqno' = s
        /\ UNCHANGED <<recvd_jnl_seqno, cur_read_addr, cur_read_jnl_seqno>>
    BY <1>4 DEF SrchRestart
  <2>2. /\ read_state' = "READ_FILE" /\ read_addr' \in Nat
        /\ save_read_jnl_seqno' \in StartSeqno .. jnl_seqno
        /\ read_addr' = Start(Larger(s, save_read_jnl_seqno'))
    <3>1. CASE s <= read_jnl_seqno
      <4>1. /\ save_read_jnl_seqno' = Larger(save_read_jnl_seqno, read_jnl_seqno)
            /\ UNCHANGED <<read_state, read_addr>>
        BY <3>1, <1>4 DEF SrchRestart, SyncForFile
      <4>2. read_state = "READ_FILE"
        BY <3>1, <1>0, <1>4 DEF TypeOK
      <4>3. /\ Larger(save_read_jnl_seqno, read_jnl_seqno) \in StartSeqno .. jnl_seqno
            /\ Larger(s, Larger(save_read_jnl_seqno, read_jnl_seqno))
                 = Larger(read_jnl_seqno, save_read_jnl_seqno)
        BY <3>1, <4>2, <1>0, <1>2 DEF Larger, TypeOK, RangeInv
      <4> QED BY <4>1, <4>2, <4>3, <1>0 DEF ReadAddrIsSeqno, TypeOK
    <3>2. CASE s > read_jnl_seqno /\ (read_state = "READ_POOL" \/ s > save_read_jnl_seqno)
      <4>0. ~(s <= read_jnl_seqno)
        BY <3>2, <1>2
      <4>1. SyncWithPool
        BY <3>2, <4>0, <1>4 DEF SrchRestart
      <4>2. read_addr' = Start(jnl_seqno) /\ Larger(s, jnl_seqno) = jnl_seqno
        BY <4>1, <1>0, StartFacts DEF SyncWithPool, NoReservation, Larger
      <4>3. Start(jnl_seqno) \in Nat
        BY <1>0, StartFacts
      <4> QED BY <4>1, <4>2, <4>3, <1>0 DEF SyncWithPool
    <3>3. CASE s > read_jnl_seqno /\ ~(read_state = "READ_POOL" \/ s > save_read_jnl_seqno)
      <4>0. ~(s <= read_jnl_seqno)
        BY <3>3, <1>2
      <4>1. UNCHANGED <<read_state, read_addr, save_read_jnl_seqno>>
        BY <3>3, <4>0, <1>4 DEF SrchRestart
      <4>2. read_state = "READ_FILE" /\ s <= save_read_jnl_seqno
        BY <3>3, <1>0, <1>2 DEF TypeOK
      <4>3. Larger(s, save_read_jnl_seqno) = Larger(read_jnl_seqno, save_read_jnl_seqno)
        BY <3>3, <4>2, <1>2 DEF Larger
      <4> QED BY <4>1, <4>2, <4>3, <1>0 DEF ReadAddrIsSeqno, TypeOK, RangeInv
    <3> QED BY <3>1, <3>2, <3>3, <1>2
  <2>3. TypeOK'
    BY <2>1, <2>2, <1>0, <1>1, <1>2, SamePool DEF TypeOK, Points
  <2>4. ReadAddrIsSeqno'
    BY <2>1, <2>2, <1>1, SamePool DEF ReadAddrIsSeqno, Searching, Larger
  <2>5. RangeInv' /\ CopyInv' /\ SearchInv'
    BY <2>1, <2>2, <1>0, <1>1 DEF RangeInv, CopyInv, SearchInv, Searching
  <2>6. PublishedInv'
    <3>1. Done' = Done /\ ~AheadOfPool'
      BY <2>2, <1>1, SamePool DEF Done, Larger, AheadOfPool
    <3>2. /\ Done \in Nat /\ write_addr <= Done /\ Start(filed + 1) \in Nat
          /\ Start(filed + 1) <= Done /\ filed + 1 \in StartSeqno .. jnl_seqno /\ filed \in Nat
      BY <1>0, DoneFacts
    <3>3. ASSUME StartSeqno <= s PROVE Start(s) <= Done
      <4>1. s \in StartSeqno .. jnl_seqno
        BY <3>3, <1>0, <1>2
      <4>2. Start(s) \in Nat
        BY <4>1, <1>0, StartFacts
      <4>3. CASE s - 1 <= filed
        <5>1. s <= filed + 1
          BY <4>3, <3>2, <1>2
        <5>2. Start(s) <= Start(filed + 1)
          BY <5>1, <4>1, <3>2, <1>0, StartFacts
        <5> QED BY <5>2, <4>2, <3>2
      <4>4. CASE Start(s) <= write_addr
        BY <4>4, <4>2, <3>2, <1>0
      <4> QED BY <4>3, <4>4 DEF SrchRestart, MayAskFor
    <3> QED BY <3>1, <3>3, <2>1, <1>0, <1>1, SamePool DEF PublishedInv
  <2> QED BY <2>3, <2>4, <2>5, <2>6, <1>1, SamePool DEF IInv
<1> QED BY <1>3, <1>4

\* A step of the search that moves nothing but its own variables.
LEMMA SearchStepInv ==
    ASSUME IInv, pc \in Searching, pc' \in Searching,
           UNCHANGED <<logVars, filed, salvaged, read_state, read_addr, read_jnl_seqno,
                       save_read_jnl_seqno, stop_read_at, copied, recvd_jnl_seqno, chan>>,
           cur_read_jnl_seqno' \in StartSeqno .. jnl_seqno,
           cur_read_addr' = Start(cur_read_jnl_seqno'), prev_tr_size' \in Nat,
           SearchInv'
    PROVE  IInv'
<1>0. /\ TypeOK /\ ReadAddrIsSeqno /\ RangeInv /\ StartSeqno \in Nat \ {0} /\ LogInv
      /\ jnl_seqno \in Nat
  BY Known
<1>1. cur_read_addr' \in Nat
  BY <1>0, StartFacts
<1>2. TypeOK'
  BY <1>0, <1>1, SamePool DEF TypeOK, Points
<1>3. ReadAddrIsSeqno'
  BY <1>0, SamePool DEF ReadAddrIsSeqno, Larger
<1>4. RangeInv' /\ CopyInv'
  BY <1>0 DEF RangeInv, CopyInv, Searching
<1> QED BY <1>2, <1>3, <1>4, SamePool, SamePublished DEF IInv

\* Where the search is.
LEMMA SearchFacts ==
    ASSUME IInv, pc \in Searching
    PROVE  /\ cur_read_jnl_seqno \in StartSeqno .. jnl_seqno
           /\ recvd_jnl_seqno \in Nat /\ recvd_jnl_seqno <= cur_read_jnl_seqno
           /\ cur_read_addr = Start(cur_read_jnl_seqno) /\ cur_read_addr \in Nat
           /\ cur_read_addr <= Done /\ Done \in Nat /\ Done <= rsrv_write_addr
           /\ write_addr <= Done /\ cur_read_addr <= read_addr
           /\ prev_tr_size \in Nat /\ read_state = "READ_POOL"
<1>0. TypeOK /\ ReadAddrIsSeqno /\ SearchInv /\ StartSeqno \in Nat \ {0} /\ jnl_seqno \in Nat
  BY Known
<1>2. Done \in Nat /\ Done <= rsrv_write_addr /\ write_addr <= Done
  <2>1. /\ Done \in Nat /\ Done <= End(Len(log)) /\ write_addr <= Done
    BY Known, DoneFacts
  <2> QED BY <2>1, Known
<1>1. /\ cur_read_jnl_seqno \in StartSeqno .. jnl_seqno
      /\ recvd_jnl_seqno \in Nat /\ recvd_jnl_seqno <= cur_read_jnl_seqno
      /\ cur_read_addr = Start(cur_read_jnl_seqno) /\ cur_read_addr \in Nat
      /\ cur_read_addr <= Done /\ cur_read_addr <= read_addr
      /\ prev_tr_size \in Nat /\ read_state = "READ_POOL"
  BY <1>0 DEF TypeOK, ReadAddrIsSeqno, SearchInv
<1> QED BY <1>1, <1>2

\* One transaction back.
LEMMA BackFacts ==
    ASSUME IInv, pc \in Searching, StartSeqno < cur_read_jnl_seqno
    PROVE  /\ cur_read_jnl_seqno - 1 \in StartSeqno .. jnl_seqno
           /\ Length(cur_read_jnl_seqno - 1) \in Nat \ {0}
           /\ Start(cur_read_jnl_seqno - 1) = cur_read_addr - Length(cur_read_jnl_seqno - 1)
           /\ Start(cur_read_jnl_seqno - 1) \in Nat
           /\ Start(cur_read_jnl_seqno - 1) < Done
           /\ Start(cur_read_jnl_seqno - 1) < cur_read_addr
<1> DEFINE r == cur_read_jnl_seqno - 1
<1>0. StartSeqno \in Nat \ {0} /\ jnl_seqno \in Nat /\ LogInv
  BY Known
<1>1. /\ cur_read_jnl_seqno \in StartSeqno .. jnl_seqno /\ cur_read_addr \in Nat
      /\ cur_read_addr = Start(cur_read_jnl_seqno) /\ cur_read_addr <= Done
      /\ Done \in Nat
  BY SearchFacts
<1>2. r \in StartSeqno .. jnl_seqno - 1 /\ r \in StartSeqno .. jnl_seqno
      /\ r + 1 = cur_read_jnl_seqno
  BY <1>0, <1>1
<1> HIDE DEF r
<1>3. Start(r) \in Nat /\ Length(r) \in Nat \ {0} /\ Start(r + 1) = Start(r) + Length(r)
  BY <1>0, <1>2, StartFacts
<1>4. /\ Start(r) = cur_read_addr - Length(r) /\ Start(r) < Done
      /\ Start(r) < cur_read_addr
  BY <1>0, <1>1, <1>2, <1>3
<1> QED BY <1>2, <1>3, <1>4 DEF r

\* lastwrite_len is read.
LEMMA SrchLastwriteLenInv == ASSUME IInv, SrchLastwriteLen PROVE IInv'
<1>1. /\ pc = "srch_first" /\ pc \in Searching
      /\ UNCHANGED <<logVars, filed, salvaged, read_state, read_addr, read_jnl_seqno,
                     save_read_jnl_seqno, stop_read_at, copied, recvd_jnl_seqno, chan>>
      /\ UNCHANGED <<cur_read_addr, cur_read_jnl_seqno>>
      /\ \/ GoOnSearching /\ prev_tr_size' = lastwrite_len /\ pc' = "srch_cmp"
         \/ ~GoOnSearching /\ prev_tr_size' = prev_tr_size /\ pc' = "srch_loop"
  BY DEF SrchLastwriteLen, Searching, fileVars, readVars
<1>2. lastwrite_len \in Nat
  BY Known, LogFacts
<1>3. prev_tr_size' \in Nat /\ pc' \in Searching
  BY <1>1, <1>2, SearchFacts DEF Searching
<1>4. GoOnSearching' <=> GoOnSearching
  BY <1>1, SamePool DEF GoOnSearching
<1>5. SearchInv'
  <2>1. GoOnSearching => StartSeqno < cur_read_jnl_seqno /\ recvd_jnl_seqno < cur_read_jnl_seqno
    BY <1>1, SearchFacts, Known DEF GoOnSearching
  <2>2. StartSeqno <= cur_read_jnl_seqno
    BY <1>1, Known DEF SearchInv
  <2>3. Done' = Done
    BY <1>1, SamePublished
  <2> QED BY <2>1, <2>2, <2>3, <1>1, <1>4, SearchFacts DEF SearchInv
<1> QED BY <1>1, <1>3, <1>5, SearchFacts, SearchStepInv

\* At the end of the reserved space the last length is that of the last transaction.
LEMMA SrchAtEndInv == ASSUME NoRaces, IInv, SrchAtEnd PROVE IInv'
<1>1. /\ pc = "srch_cmp" /\ pc' = "srch_wait" /\ pc \in Searching /\ pc' \in Searching
      /\ UNCHANGED <<logVars, filed, salvaged, read_state, read_addr, read_jnl_seqno,
                     save_read_jnl_seqno, stop_read_at, copied, recvd_jnl_seqno, chan>>
      /\ UNCHANGED prev_tr_size
      /\ \/ AtEnd /\ prev_tr_size = LastLen /\ StepBack(prev_tr_size)
         \/ ~AtEnd /\ UNCHANGED <<cur_read_addr, cur_read_jnl_seqno>>
  BY DEF SrchAtEnd, NoRaces, Searching, fileVars, readVars
<1>2. /\ StartSeqno < cur_read_jnl_seqno /\ recvd_jnl_seqno < cur_read_jnl_seqno
      /\ StartSeqno \in Nat \ {0} /\ jnl_seqno \in Nat /\ LogInv /\ write_addr \in Nat
      /\ rsrv_write_addr \in Nat /\ End(Len(log)) \in Nat
      /\ write_addr <= End(Len(log)) /\ End(Len(log)) <= rsrv_write_addr
      /\ PublishedInv /\ filed \in StartSeqno - 1 .. jnl_seqno - 1
      /\ read_addr \in Nat
  BY <1>1, Known DEF SearchInv, TypeOK
<1>3. /\ cur_read_jnl_seqno \in StartSeqno .. jnl_seqno
      /\ recvd_jnl_seqno \in Nat /\ recvd_jnl_seqno <= cur_read_jnl_seqno
      /\ cur_read_addr = Start(cur_read_jnl_seqno) /\ cur_read_addr \in Nat
      /\ cur_read_addr <= Done /\ Done \in Nat /\ cur_read_addr <= read_addr
      /\ prev_tr_size \in Nat /\ read_state = "READ_POOL"
  BY <1>1, SearchFacts
<1>8. Done <= End(Len(log)) /\ write_addr <= Done /\ Start(filed + 1) <= Done
  BY <1>2, DoneFacts
<1>4. AtEnd => cur_read_jnl_seqno = jnl_seqno
  <2>1. AtEnd => cur_read_addr = End(Len(log))
    BY <1>2, <1>3, <1>8 DEF AtEnd
  <2>2. AtEnd => Start(jnl_seqno) <= Start(cur_read_jnl_seqno)
    BY <2>1, <1>2, <1>3, StartFacts
  <2>3. jnl_seqno \in StartSeqno .. jnl_seqno
    BY <1>2, <1>3
  <2>4. AtEnd => jnl_seqno <= cur_read_jnl_seqno
    BY <2>2, <2>3, <1>2, <1>3, StartFacts
  <2> QED BY <2>4, <1>2, <1>3
<1>5. AtEnd => LastLen = Length(cur_read_jnl_seqno - 1)
  <2>1. Len(log) \in Nat /\ (log = << >> => Len(log) = 0)
    BY <1>2, LogFacts
  <2>2. AtEnd => log # << >> /\ (cur_read_jnl_seqno - 1) - StartSeqno + 1 = Len(log)
    BY <2>1, <1>2, <1>4 DEF jnl_seqno
  <2> QED BY <2>2 DEF LastLen, Length
<1>6. /\ cur_read_jnl_seqno' \in StartSeqno .. jnl_seqno
      /\ cur_read_addr' = Start(cur_read_jnl_seqno')
      /\ cur_read_addr' <= Done /\ recvd_jnl_seqno <= cur_read_jnl_seqno'
      /\ cur_read_addr' <= read_addr /\ (write_addr < cur_read_addr' => cur_read_addr' < Done)
  <2>1. CASE AtEnd /\ prev_tr_size = LastLen /\ StepBack(prev_tr_size)
    <3>1. /\ cur_read_jnl_seqno' = cur_read_jnl_seqno - 1
          /\ cur_read_addr' = cur_read_addr - Length(cur_read_jnl_seqno - 1)
      BY <2>1, <1>5 DEF StepBack
    <3>2. /\ cur_read_jnl_seqno - 1 \in StartSeqno .. jnl_seqno
          /\ Start(cur_read_jnl_seqno - 1) = cur_read_addr - Length(cur_read_jnl_seqno - 1)
          /\ Start(cur_read_jnl_seqno - 1) \in Nat
          /\ Start(cur_read_jnl_seqno - 1) < Done
          /\ Start(cur_read_jnl_seqno - 1) < cur_read_addr
      BY <1>1, <1>2, BackFacts
    <3> QED BY <3>1, <3>2, <1>2, <1>3
  <2>2. CASE ~AtEnd /\ UNCHANGED <<cur_read_addr, cur_read_jnl_seqno>>
    <3>1. ASSUME write_addr < cur_read_addr PROVE cur_read_addr < Done
      <4>1. AheadOfPool
        BY <3>1, <1>2, <1>3 DEF AheadOfPool
      <4>2. filed + 1 = jnl_seqno /\ rsrv_write_addr = End(Len(log))
        BY <4>1, <1>2 DEF PublishedInv
      <4>3. Done = rsrv_write_addr
        BY <4>2, <1>2, <1>3, <1>8, StartFacts
      <4> QED BY <2>2, <4>3, <1>3 DEF AtEnd
    <3> QED BY <2>2, <3>1, <1>3
  <2> QED BY <2>1, <2>2, <1>1
<1>7. SearchInv'
  <2>1. Done' = Done /\ write_addr' = write_addr
    BY <1>1, SamePublished, SamePool
  <2> QED BY <2>1, <1>1, <1>2, <1>3, <1>6 DEF SearchInv
<1> QED BY <1>1, <1>3, <1>6, <1>7, SearchStepInv

\* The transaction at cur_read_addr is complete, or what is complete is published.
LEMMA SrchWaitInv == ASSUME NoRaces, IInv, SrchWait PROVE IInv'
<1>1. /\ pc = "srch_wait" /\ pc \in Searching
      /\ UNCHANGED <<filed, salvaged, read_state, read_addr, read_jnl_seqno,
                     save_read_jnl_seqno, stop_read_at, copied, recvd_jnl_seqno, chan>>
      /\ UNCHANGED <<cur_read_addr, cur_read_jnl_seqno, prev_tr_size>>
      /\ \/ cur_read_addr # write_addr /\ pc' = "srch_loop" /\ UNCHANGED logVars
         \/ repl_phase2_cleanup /\ pc' = pc
  BY DEF SrchWait, Readable, Searching, fileVars, readVars, localVars
<1>2. /\ cur_read_jnl_seqno \in StartSeqno .. jnl_seqno
      /\ recvd_jnl_seqno \in Nat /\ recvd_jnl_seqno <= cur_read_jnl_seqno
      /\ cur_read_addr = Start(cur_read_jnl_seqno) /\ cur_read_addr \in Nat
      /\ cur_read_addr <= Done /\ Done \in Nat /\ write_addr <= Done
      /\ cur_read_addr <= read_addr
      /\ prev_tr_size \in Nat /\ read_state = "READ_POOL"
  BY <1>1, SearchFacts
<1>3. /\ LogInv /\ TypeOK /\ ReadAddrIsSeqno /\ RangeInv /\ PublishedInv /\ write_addr \in Nat
      /\ filed \in StartSeqno - 1 .. jnl_seqno - 1 /\ StartSeqno <= cur_read_jnl_seqno
      /\ (write_addr < cur_read_addr => cur_read_addr < Done)
  BY <1>1, Known DEF SearchInv
<1>4. CASE cur_read_addr # write_addr /\ pc' = "srch_loop" /\ UNCHANGED logVars
  <2>1. cur_read_addr < Done
    BY <1>2, <1>3, <1>4
  <2>2. Done' = Done /\ pc' \in Searching
    BY <1>1, <1>4, SamePublished DEF Searching
  <2>3. SearchInv'
    BY <2>1, <2>2, <1>1, <1>2, <1>3, <1>4 DEF SearchInv
  <2> QED BY <2>2, <2>3, <1>1, <1>2, <1>4, SearchStepInv
<1>5. CASE repl_phase2_cleanup /\ pc' = pc
  <2>1. /\ LogInv' /\ jnl_seqno' = jnl_seqno /\ write_addr' = Done /\ log' = log
        /\ rsrv_write_addr' = rsrv_write_addr /\ End(Len(log))' = End(Len(log))
        /\ \A s : Start(s)' = Start(s)
    BY <1>5, CleanedPool
  <2>2. Start(filed + 1) \in Nat /\ Start(filed + 1) <= Done
    BY <1>3, DoneFacts
  <2>3. Done' = Done
    BY <2>1, <2>2, <1>1, <1>2 DEF Done, Larger
  <2>4. TypeOK'
    BY <2>1, <1>1, <1>3, <1>5 DEF TypeOK
  <2>5. ReadAddrIsSeqno' /\ RangeInv' /\ CopyInv'
    BY <2>1, <1>1, <1>3, <1>5 DEF ReadAddrIsSeqno, RangeInv, CopyInv, Searching
  <2>6. SearchInv'
    BY <2>1, <2>3, <1>1, <1>2, <1>3, <1>5 DEF SearchInv
  <2>7. PublishedInv'
    <3>1. AheadOfPool' => AheadOfPool
      BY <2>1, <1>1, <1>2, <1>3 DEF AheadOfPool, TypeOK
    <3> QED BY <3>1, <2>1, <2>3, <1>1, <1>3 DEF PublishedInv
  <2> QED BY <2>1, <2>4, <2>5, <2>6, <2>7 DEF IInv
<1> QED BY <1>1, <1>4, <1>5

\* The length of the transaction before is read.
LEMMA SrchPrevLenInv == ASSUME NoRaces, IInv, SrchPrevLen PROVE IInv'
<1>1. /\ pc = "srch_loop" /\ pc \in Searching
      /\ UNCHANGED <<logVars, filed, salvaged, read_state, read_addr, read_jnl_seqno,
                     save_read_jnl_seqno, stop_read_at, copied, recvd_jnl_seqno, chan>>
      /\ UNCHANGED <<cur_read_addr, cur_read_jnl_seqno>>
  BY DEF SrchPrevLen, Searching, fileVars, readVars
<1>2. /\ cur_read_jnl_seqno \in StartSeqno .. jnl_seqno
      /\ recvd_jnl_seqno \in Nat /\ recvd_jnl_seqno <= cur_read_jnl_seqno
      /\ cur_read_addr = Start(cur_read_jnl_seqno) /\ cur_read_addr \in Nat
      /\ cur_read_addr <= Done /\ cur_read_addr <= read_addr
      /\ prev_tr_size \in Nat /\ read_state = "READ_POOL"
  BY <1>1, SearchFacts
<1>3. StartSeqno <= cur_read_jnl_seqno /\ StartSeqno \in Nat
  BY <1>2, Known
<1>6. Done' = Done
  BY <1>1, SamePublished
<1>4. CASE GoOnSearching
  <2>1. StartSeqno < cur_read_jnl_seqno /\ recvd_jnl_seqno < cur_read_jnl_seqno
    BY <1>2, <1>3, <1>4 DEF GoOnSearching
  <2>2. cur_read_addr < Done /\ Complete = Done
    BY <1>1, <1>4, Known DEF SearchInv, Complete, Done, NoRaces
  <2>3. /\ pc' = "srch_step"
        /\ prev_tr_size' \in IF ~Overwritten(cur_read_addr)
                             THEN {Length(cur_read_jnl_seqno - 1)} ELSE Lens
    BY <2>2, <1>2, <1>4 DEF SrchPrevLen
  <2>4. prev_tr_size' \in Nat
    BY <2>1, <2>3, <1>1, BackFacts, CommitLogAssumption
  <2>5. SearchInv'
    BY <2>1, <2>3, <1>1, <1>2, <1>3, <1>6, SamePool DEF SearchInv
  <2>6. pc' \in Searching
    BY <2>3 DEF Searching
  <2> QED BY <2>4, <2>5, <2>6, <1>1, <1>2, SearchStepInv
<1>5. CASE ~GoOnSearching
  <2>1. pc' = "srch_end" /\ pc' \in Searching /\ prev_tr_size' = prev_tr_size
    BY <1>5 DEF SrchPrevLen, Searching
  <2>2. SearchInv'
    BY <2>1, <1>1, <1>2, <1>3, <1>6, SamePool DEF SearchInv
  <2> QED BY <2>1, <2>2, <1>1, <1>2, SearchStepInv
<1> QED BY <1>4, <1>5

\* A length from an overwritten part of the pool is refused.
LEMMA SrchStepInv == ASSUME IInv, SrchStep PROVE IInv'
<1>1. /\ pc = "srch_step" /\ pc \in Searching
      /\ UNCHANGED <<logVars, filed, salvaged, read_state, read_addr, read_jnl_seqno,
                     save_read_jnl_seqno, stop_read_at, copied, recvd_jnl_seqno, chan>>
      /\ UNCHANGED prev_tr_size
  BY DEF SrchStep, Searching, fileVars, readVars
<1>2. /\ cur_read_jnl_seqno \in StartSeqno .. jnl_seqno
      /\ recvd_jnl_seqno \in Nat /\ recvd_jnl_seqno <= cur_read_jnl_seqno
      /\ cur_read_addr = Start(cur_read_jnl_seqno) /\ cur_read_addr \in Nat
      /\ cur_read_addr <= Done /\ Done \in Nat /\ cur_read_addr <= read_addr
      /\ prev_tr_size \in Nat /\ read_state = "READ_POOL"
  BY <1>1, SearchFacts
<1>3. /\ StartSeqno < cur_read_jnl_seqno /\ recvd_jnl_seqno < cur_read_jnl_seqno
      /\ StartSeqno \in Nat \ {0} /\ jnl_seqno \in Nat /\ read_addr \in Nat
      /\ prev_tr_size = Length(cur_read_jnl_seqno - 1) \/ Overwritten(cur_read_addr)
  BY <1>1, Known DEF SearchInv, TypeOK
<1>6. Done' = Done
  BY <1>1, SamePublished
<1>4. CASE /\ prev_tr_size <= cur_read_addr
           /\ jnlpool_hasnt_overflowed(cur_read_addr - prev_tr_size)
  <2>1. /\ pc' = "srch_loop" /\ cur_read_addr' = cur_read_addr - prev_tr_size
        /\ cur_read_jnl_seqno' = cur_read_jnl_seqno - 1
    BY <1>4 DEF SrchStep, StepBack
  <2>2. prev_tr_size = Length(cur_read_jnl_seqno - 1)
    <3>1. cur_read_addr - prev_tr_size \in Nat /\ cur_read_addr - prev_tr_size <= cur_read_addr
      BY <1>2, <1>4
    <3> QED BY <3>1, <1>2, <1>3, <1>4, OverwrittenOverflows
  <2>3. /\ cur_read_jnl_seqno' \in StartSeqno .. jnl_seqno
        /\ cur_read_addr' = Start(cur_read_jnl_seqno')
        /\ cur_read_addr' \in Nat /\ cur_read_addr' < Done /\ cur_read_addr' < cur_read_addr
    BY <2>1, <2>2, <1>1, <1>3, BackFacts
  <2>4. recvd_jnl_seqno <= cur_read_jnl_seqno' /\ cur_read_addr' <= Done
        /\ cur_read_addr' <= read_addr /\ StartSeqno <= cur_read_jnl_seqno'
    BY <2>1, <2>3, <1>2, <1>3
  <2>5. SearchInv'
    BY <2>1, <2>3, <2>4, <1>1, <1>2, <1>6, SamePool DEF SearchInv
  <2>6. pc' \in Searching
    BY <2>1 DEF Searching
  <2> QED BY <2>3, <2>5, <2>6, <1>1, <1>2, SearchStepInv
<1>5. CASE ~ /\ prev_tr_size <= cur_read_addr
             /\ jnlpool_hasnt_overflowed(cur_read_addr - prev_tr_size)
  <2>1. pc' = "srch_end" /\ pc' \in Searching
        /\ UNCHANGED <<cur_read_addr, cur_read_jnl_seqno>>
    BY <1>5 DEF SrchStep, Searching
  <2>2. StartSeqno <= cur_read_jnl_seqno
    BY <1>2, <1>3
  <2>3. SearchInv'
    BY <2>1, <2>2, <1>1, <1>2, <1>6, SamePool DEF SearchInv
  <2> QED BY <2>1, <2>3, <1>1, <1>2, SearchStepInv
<1> QED BY <1>4, <1>5

\* The search ends at the transaction asked for, or at a sync point behind it.
LEMMA SrchEndInv == ASSUME IInv, SrchEnd PROVE IInv'
<1>1. /\ pc = "srch_end" /\ pc \in Searching /\ pc' = "sending" /\ Return
      /\ UNCHANGED <<logVars, filed, salvaged, chan>> /\ read_jnl_seqno' = recvd_jnl_seqno
  BY DEF SrchEnd, Searching, fileVars
<1>2. /\ cur_read_jnl_seqno \in StartSeqno .. jnl_seqno
      /\ recvd_jnl_seqno \in Nat /\ recvd_jnl_seqno <= cur_read_jnl_seqno
      /\ cur_read_addr = Start(cur_read_jnl_seqno) /\ cur_read_addr \in Nat
      /\ cur_read_addr <= Done /\ Done \in Nat /\ cur_read_addr <= read_addr
      /\ read_state = "READ_POOL"
  BY <1>1, SearchFacts
<1>3. /\ TypeOK /\ RangeInv /\ StartSeqno \in Nat \ {0} /\ jnl_seqno \in Nat
      /\ LogInv /\ PublishedInv /\ write_addr \in Nat
  BY Known
<1>4. ~(cur_read_jnl_seqno < StartSeqno) /\ Larger(cur_read_jnl_seqno, StartSeqno) = cur_read_jnl_seqno
  BY <1>2, <1>3 DEF Larger
<1>5. read_addr' = cur_read_addr
  BY <1>4 DEF SrchEnd
<1>6. \/ /\ cur_read_jnl_seqno = recvd_jnl_seqno
         /\ UNCHANGED <<read_state, save_read_jnl_seqno>>
      \/ read_state' = "READ_FILE" /\ save_read_jnl_seqno' = cur_read_jnl_seqno
  BY <1>4 DEF SrchEnd
<1>7. TypeOK'
  <2>1. /\ stop_read_at' \in Nat /\ copied' \in BOOLEAN /\ recvd_jnl_seqno' = 1
        /\ cur_read_addr' \in Nat /\ cur_read_jnl_seqno' = 1 /\ prev_tr_size' \in Nat
    BY <1>1 DEF Return
  <2>2. 1 \in 1 .. jnl_seqno /\ cur_read_jnl_seqno \in 0 .. jnl_seqno
    BY <1>2, <1>3
  <2> QED BY <2>1, <2>2, <1>1, <1>2, <1>3, <1>5, <1>6, SamePool DEF TypeOK, Points
<1>8. ReadAddrIsSeqno' /\ RangeInv'
  <2>1. Larger(recvd_jnl_seqno, cur_read_jnl_seqno) = cur_read_jnl_seqno
    BY <1>2, <1>3 DEF Larger
  <2>2. StartSeqno <= cur_read_jnl_seqno
    BY <1>2, <1>3
  <2> QED BY <2>1, <2>2, <1>1, <1>2, <1>3, <1>5, <1>6, SamePool DEF ReadAddrIsSeqno, RangeInv,
        Searching, Larger
<1>9. CopyInv' /\ SearchInv'
  BY <1>1 DEF CopyInv, SearchInv, Searching
<1>10. PublishedInv'
  <2>1. /\ log' = log /\ Done' = Done /\ jnl_seqno' = jnl_seqno /\ write_addr' = write_addr
        /\ rsrv_write_addr' = rsrv_write_addr /\ (\A s : Start(s)' = Start(s)) /\ filed' = filed
    BY <1>1, SamePool DEF Done, Larger, logVars
  <2>2. StartSeqno <= recvd_jnl_seqno => Start(recvd_jnl_seqno) <= Done
    <3>1. ASSUME StartSeqno <= recvd_jnl_seqno
          PROVE  /\ Start(recvd_jnl_seqno) \in Nat
                 /\ Start(recvd_jnl_seqno) <= Start(cur_read_jnl_seqno)
      <4>1. recvd_jnl_seqno \in StartSeqno .. jnl_seqno
        BY <3>1, <1>2, <1>3
      <4> QED BY <4>1, <1>2, <1>3, StartFacts
    <3> QED BY <3>1, <1>2
  <2>3. AheadOfPool' => AheadOfPool
    BY <2>1, <1>2, <1>3, <1>5 DEF AheadOfPool, TypeOK
  <2>4. End(Len(log))' = End(Len(log))
    BY <2>1 DEF End
  <2> QED BY <2>1, <2>2, <2>3, <2>4, <1>1, <1>3 DEF PublishedInv
<1> QED BY <1>1, <1>7, <1>8, <1>9, <1>10, SamePool DEF IInv

----------------------------------------------------------------------------
(* Connections and the server's own restart.                               *)

\* A transaction is received, or the connection is reset.
LEMMA ConnectionInv == ASSUME IInv, Receive \/ ConnectionReset PROVE IInv'
<1>0. TypeOK /\ ReadAddrIsSeqno /\ RangeInv /\ CopyInv /\ SearchInv
  BY Known
<1>1. /\ UNCHANGED <<logVars, filed, salvaged, read_state, read_addr, read_jnl_seqno,
                     save_read_jnl_seqno, stop_read_at, copied, recvd_jnl_seqno,
                     cur_read_addr, cur_read_jnl_seqno, prev_tr_size>>
      /\ \/ chan # << >> /\ chan' = Tail(chan) /\ UNCHANGED pc
         \/ pc' = "waiting" /\ chan' = << >>
  BY DEF Receive, ConnectionReset, fileVars, readVars, localVars
<1>2. chan' \in Seq(Nat)
  <2>1. CASE chan # << >> /\ chan' = Tail(chan)
    BY <2>1, <1>0, HeadTailProperties DEF TypeOK
  <2>2. CASE chan' = << >>
    BY <2>2
  <2> QED BY <2>1, <2>2, <1>1
<1>3. TypeOK'
  BY <1>0, <1>1, <1>2, SamePool DEF TypeOK, Points
<1>4. ReadAddrIsSeqno' /\ RangeInv'
  BY <1>0, <1>1, SamePool DEF ReadAddrIsSeqno, RangeInv, Larger, Searching
<1>5. PublishedInv' /\ Done' = Done
  BY <1>1, SamePublished
<1>6. CopyInv' /\ SearchInv'
  BY <1>0, <1>1, <1>5, SamePool DEF CopyInv, SearchInv, GoOnSearching, Searching
<1> QED BY <1>1, <1>3, <1>4, <1>5, <1>6, SamePool DEF IInv

\* A server is started.
LEMMA GtmsourceInv == ASSUME IInv, gtmsource PROVE IInv'
<1>0. /\ TypeOK /\ RangeInv /\ LogInv /\ StartSeqno \in Nat \ {0} /\ StartSeqno <= jnl_seqno
      /\ jnl_seqno \in Nat /\ PublishedInv /\ filed \in StartSeqno - 1 .. jnl_seqno - 1
      /\ write_addr \in Nat
  BY Known
<1>1. /\ rsrv_write_addr = End(Len(log)) /\ read_jnl_seqno' \in {1, read_jnl_seqno}
      /\ read_addr' = rsrv_write_addr /\ pc' = "waiting" /\ Return /\ chan' = << >>
      /\ UNCHANGED <<logVars, filed, salvaged>>
  BY DEF gtmsource, NoReservation, fileVars
<1>2. \/ /\ read_jnl_seqno' < jnl_seqno
         /\ read_state' = "READ_FILE" /\ save_read_jnl_seqno' = jnl_seqno
      \/ /\ ~(read_jnl_seqno' < jnl_seqno)
         /\ read_state' = "READ_POOL" /\ save_read_jnl_seqno' = 0
  BY DEF gtmsource
<1>3. read_jnl_seqno' \in 1 .. jnl_seqno /\ read_addr' = Start(jnl_seqno) /\ Start(jnl_seqno) \in Nat
  BY <1>0, <1>1, StartFacts DEF TypeOK
<1>4. TypeOK'
  <2>1. /\ stop_read_at' \in Nat /\ copied' \in BOOLEAN /\ recvd_jnl_seqno' = 1
        /\ cur_read_addr' \in Nat /\ cur_read_jnl_seqno' = 1 /\ prev_tr_size' \in Nat
    BY <1>1 DEF Return
  <2>2. 1 \in 1 .. jnl_seqno /\ jnl_seqno \in 0 .. jnl_seqno /\ 0 \in 0 .. jnl_seqno
    BY <1>0
  <2>3. chan' \in Seq(Nat)
    BY <1>1
  <2> QED BY <2>1, <2>2, <2>3, <1>0, <1>1, <1>2, <1>3, SamePool DEF TypeOK, Points
<1>5. ReadAddrIsSeqno' /\ RangeInv'
  <2>1. CASE read_state' = "READ_FILE"
    <3>1. read_jnl_seqno' < jnl_seqno /\ save_read_jnl_seqno' = jnl_seqno
      BY <2>1, <1>2
    <3>2. Larger(read_jnl_seqno', jnl_seqno) = jnl_seqno
      BY <3>1 DEF Larger
    <3> QED BY <2>1, <3>1, <3>2, <1>0, <1>1, <1>3, SamePool DEF ReadAddrIsSeqno, RangeInv,
          Larger, Searching
  <2>2. CASE read_state' # "READ_FILE"
    <3>1. read_jnl_seqno' = jnl_seqno /\ read_state' = "READ_POOL"
      BY <2>2, <1>0, <1>2, <1>3
    <3> QED BY <3>1, <1>0, <1>1, <1>3, SamePool DEF ReadAddrIsSeqno, RangeInv, Searching
  <2> QED BY <2>1, <2>2
<1>6. CopyInv' /\ SearchInv'
  BY <1>1 DEF CopyInv, SearchInv, Searching
<1>7. PublishedInv'
  <2>1. /\ log' = log /\ Done' = Done /\ jnl_seqno' = jnl_seqno /\ write_addr' = write_addr
        /\ rsrv_write_addr' = rsrv_write_addr /\ (\A s : Start(s)' = Start(s)) /\ filed' = filed
    BY <1>1, SamePool DEF Done, Larger, logVars
  <2>2. /\ Done \in Nat /\ Start(filed + 1) <= Done /\ Start(filed + 1) \in Nat
        /\ filed + 1 \in StartSeqno .. jnl_seqno /\ Done \in {write_addr, Start(filed + 1)}
    BY <1>0, DoneFacts
  <2>3. StartSeqno <= read_jnl_seqno' => Start(read_jnl_seqno') <= Done
    <3>1. CASE read_jnl_seqno' = read_jnl_seqno
      BY <3>1, <1>0 DEF PublishedInv
    <3>2. CASE read_jnl_seqno' = 1
      <4>1. ASSUME StartSeqno <= 1 PROVE Start(1) \in Nat /\ Start(1) <= Start(filed + 1)
        <5>1. 1 \in StartSeqno .. jnl_seqno /\ 1 <= filed + 1
          BY <4>1, <2>2, <1>0
        <5> QED BY <5>1, <2>2, <1>0, StartFacts
      <4> QED BY <3>2, <4>1, <2>2
    <3> QED BY <3>1, <3>2, <1>1
  <2>4. ASSUME AheadOfPool' PROVE filed = jnl_seqno - 1
    <3>1. read_jnl_seqno' = jnl_seqno /\ write_addr < Start(jnl_seqno)
      BY <2>1, <2>4, <1>0, <1>2, <1>3 DEF AheadOfPool
    <3>2. Start(jnl_seqno) <= Done
      BY <2>3, <3>1, <1>0
    <3>3. Start(jnl_seqno) <= Start(filed + 1)
      BY <3>1, <3>2, <2>2, <1>0, <1>3
    <3>4. jnl_seqno <= filed + 1
      <4>1. jnl_seqno \in StartSeqno .. jnl_seqno
        BY <1>0
      <4> QED BY <4>1, <3>3, <2>2, <1>0, StartFacts
    <3> QED BY <3>4, <1>0
  <2>5. End(Len(log))' = End(Len(log))
    BY <2>1 DEF End
  <2> QED BY <2>1, <2>3, <2>4, <2>5, <1>0, <1>1 DEF PublishedInv
<1> QED BY <1>1, <1>4, <1>5, <1>6, <1>7, SamePool DEF IInv

----------------------------------------------------------------------------
(* The theorems.                                                           *)

\* The pool is empty and the server at its start.
LEMMA InitInv == ASSUME SourceInit PROVE IInv
<1>1. /\ log = << >> /\ write_addr = 0 /\ rsrv_write_addr = 0 /\ lastwrite_len = 0
      /\ Len(log) = 0 /\ DOMAIN log = {}
  BY DEF SourceInit, Init
<1>2. StartSeqno \in Nat \ {0} /\ jnl_seqno = StartSeqno /\ End(0) = 0
  BY <1>1, SourceAssumption DEF jnl_seqno, End
<1>3. LogInv
  <2>1. \A r, s \in 0 .. Len(log) : r < s => End(r) < End(s)
    BY <1>1
  <2>2. \E w \in 0 .. Len(log) : write_addr = End(w)
    <3>1. 0 \in 0 .. Len(log)
      BY <1>1
    <3> QED BY <3>1, <1>1, <1>2
  <2> QED BY <2>1, <2>2, <1>1, <1>2 DEF LogInv
<1>4. /\ filed = StartSeqno - 1 /\ salvaged = {} /\ read_state = "READ_POOL" /\ read_addr = 0
      /\ read_jnl_seqno = StartSeqno /\ save_read_jnl_seqno = 0 /\ pc = "waiting"
      /\ stop_read_at = 0 /\ copied = FALSE /\ recvd_jnl_seqno = 1 /\ cur_read_addr = 0
      /\ cur_read_jnl_seqno = 1 /\ prev_tr_size = 0 /\ chan = << >>
  BY DEF SourceInit
<1>5. TypeOK
  <2>1. StartSeqno - 1 \in Nat /\ StartSeqno \in 1 .. jnl_seqno /\ 0 \in 0 .. jnl_seqno
        /\ 1 \in 1 .. jnl_seqno
    BY <1>2
  <2>2. salvaged \subseteq 1 .. filed /\ chan \in Seq(Nat) /\ pc \in Points
    BY <1>4 DEF Points
  <2> QED BY <2>1, <2>2, <1>4 DEF TypeOK
<1>6. ReadAddrIsSeqno
  <2>1. Start(StartSeqno) = 0
    BY <1>2 DEF Start, End
  <2> QED BY <2>1, <1>1, <1>4 DEF ReadAddrIsSeqno, Searching
<1>7. RangeInv /\ CopyInv /\ SearchInv
  BY <1>2, <1>4 DEF RangeInv, CopyInv, SearchInv, Searching
<1>8. PublishedInv
  <2>1. Start(StartSeqno) = 0 /\ filed + 1 = StartSeqno
    BY <1>2, <1>4 DEF Start, End
  <2>2. filed \in StartSeqno - 1 .. jnl_seqno - 1
    BY <1>2, <1>4
  <2> QED BY <2>1, <2>2, <1>1, <1>4 DEF PublishedInv, Done, Larger, AheadOfPool
<1> QED BY <1>3, <1>5, <1>6, <1>7, <1>8 DEF IInv

\* Nothing happens.
LEMMA StutterInv == ASSUME IInv, UNCHANGED vars PROVE IInv'
<1>0. TypeOK /\ ReadAddrIsSeqno /\ RangeInv /\ CopyInv /\ SearchInv
  BY Known
<1>1. UNCHANGED <<logVars, filed, salvaged, read_state, read_addr, read_jnl_seqno,
                  save_read_jnl_seqno, pc, stop_read_at, copied, recvd_jnl_seqno,
                  cur_read_addr, cur_read_jnl_seqno, prev_tr_size, chan>>
  BY DEF vars, fileVars, readVars, localVars
<1>2. TypeOK'
  BY <1>0, <1>1, SamePool DEF TypeOK
<1>3. ReadAddrIsSeqno' /\ RangeInv'
  BY <1>0, <1>1, SamePool DEF ReadAddrIsSeqno, RangeInv, Larger
<1>4. PublishedInv' /\ Done' = Done
  BY <1>1, SamePublished
<1>5. CopyInv' /\ SearchInv'
  BY <1>0, <1>1, <1>4, SamePool DEF CopyInv, SearchInv, GoOnSearching
<1> QED BY <1>1, <1>2, <1>3, <1>4, <1>5, SamePool DEF IInv

\* Every step keeps the invariant.
LEMMA NextInv == ASSUME NoRaces, IInv, [SourceNext]_vars PROVE IInv'
<1>1. CASE Updaters BY <1>1, UpdatersInv
<1>2. CASE FileComplete BY <1>2, FileCompleteInv
<1>3. CASE ReadPool BY <1>3, ReadPoolInv
<1>4. CASE CopyFromPool BY <1>4, CopyFromPoolInv
<1>5. CASE SendFromPool BY <1>5, SendFromPoolInv
<1>6. CASE ReadFiles BY <1>6, ReadFilesInv
<1>7. CASE SrchLastwriteLen BY <1>7, SrchLastwriteLenInv
<1>8. CASE SrchAtEnd BY <1>8, SrchAtEndInv
<1>9. CASE SrchWait BY <1>9, SrchWaitInv
<1>10. CASE SrchPrevLen BY <1>10, SrchPrevLenInv
<1>11. CASE SrchStep BY <1>11, SrchStepInv
<1>12. CASE SrchEnd BY <1>12, SrchEndInv
<1>13. CASE \E s \in 1 .. jnl_seqno : SrchRestart(s) BY <1>13, SrchRestartInv
<1>14. CASE Receive \/ ConnectionReset BY <1>14, ConnectionInv
<1>15. CASE gtmsource BY <1>15, GtmsourceInv
<1>16. CASE UNCHANGED vars BY <1>16, StutterInv
<1> QED BY <1>1, <1>2, <1>3, <1>4, <1>5, <1>6, <1>7, <1>8, <1>9, <1>10, <1>11, <1>12,
      <1>13, <1>14, <1>15, <1>16 DEF SourceNext, Read, Search

\* The invariant of the source server, the updaters and the journal files, without the
\* races that SourceServer names.
THEOREM SourceInvariant == ASSUME NoRaces PROVE SourceSpec => []IInv
<1>1. SourceInit => IInv
  BY InitInv
<1>2. IInv /\ [SourceNext]_vars => IInv'
  BY NextInv
<1> QED BY <1>1, <1>2, PTL DEF SourceSpec

\* The types of the server's state.
THEOREM TypeCorrect == ASSUME NoRaces PROVE SourceSpec => []TypeOK
<1>1. IInv => TypeOK
  BY DEF IInv
<1> QED BY <1>1, SourceInvariant, PTL

\* read_addr is the address of the seqno it is kept for, whatever the updaters do between
\* two reads of the server and however often it leaves and enters the pool.
THEOREM ReadAddrInStep == ASSUME NoRaces PROVE SourceSpec => []ReadAddrIsSeqno
<1>1. IInv => ReadAddrIsSeqno
  BY DEF IInv
<1> QED BY <1>1, SourceInvariant, PTL

\* gtmsource_readpool has data to read, although the files are ahead of write_addr when the
\* server returns to the pool, and although write_addr is behind when it is started again.
THEOREM PoolReadHasData == ASSUME NoRaces PROVE SourceSpec => []PoolHasData
<1>1. IInv => PoolHasData
  BY DEF IInv, CopyInv, PoolHasData
<1> QED BY <1>1, SourceInvariant, PTL

----------------------------------------------------------------------------
(* The stream.                                                             *)

\* The seqno of the next transaction to send, as SeqStream has it.
NextSeqno == IF pc \in Searching THEN recvd_jnl_seqno ELSE read_jnl_seqno

\* Steps that neither commit nor send.
LEMMA StreamStutter ==
    ASSUME UNCHANGED <<jnl_seqno, chan, NextSeqno>>
    PROVE  UNCHANGED Stream!streamVars
BY DEF Stream!streamVars, NextSeqno

\* The values of SeqStream's variables.
LEMMA StreamFacts ==
    ASSUME IInv
    PROVE  /\ jnl_seqno \in Nat \ {0} /\ jnl_seqno - 1 \in Nat /\ (jnl_seqno - 1) + 1 = jnl_seqno
           /\ read_jnl_seqno \in 1 .. jnl_seqno /\ recvd_jnl_seqno \in 1 .. jnl_seqno
           /\ NextSeqno \in 1 .. jnl_seqno /\ chan \in Seq(Nat)
<1>1. jnl_seqno \in Nat \ {0} /\ TypeOK
  <2>1. StartSeqno \in Nat \ {0} /\ StartSeqno <= jnl_seqno /\ jnl_seqno \in Nat /\ TypeOK
    BY Known
  <2> QED BY <2>1
<1> QED BY <1>1 DEF TypeOK, NextSeqno

\* Both sides restart at s.
LEMMA StreamRestart ==
    ASSUME IInv, NEW s \in 1 .. jnl_seqno, UNCHANGED logVars, chan' = << >>, NextSeqno' = s
    PROVE  Stream!Next
<1>1. jnl_seqno' = jnl_seqno
  BY SamePool
<1>2. s \in 1 .. (jnl_seqno - 1) + 1
  BY StreamFacts
<1>3. Stream!Restart(s)
  BY <1>1, <1>2 DEF Stream!Restart, NextSeqno
<1> QED BY <1>2, <1>3 DEF Stream!Next

\* n transactions are sent.
LEMMA StreamSend ==
    ASSUME IInv, NEW n \in Nat \ {0},
           log' = log, pc \notin Searching, pc' \notin Searching,
           read_jnl_seqno + n <= jnl_seqno, read_jnl_seqno' = read_jnl_seqno + n,
           chan' = chan \o [i \in 1 .. n |-> read_jnl_seqno + i - 1]
    PROVE  Stream!Next
<1>1. jnl_seqno' = jnl_seqno
  BY DEF jnl_seqno
<1>2. n \in 1 .. jnl_seqno - 1 /\ read_jnl_seqno + n <= (jnl_seqno - 1) + 1 /\ n >= 1
  BY StreamFacts
<1>3. Stream!Send(n)
  BY <1>1, <1>2 DEF Stream!Send
<1> QED BY <1>2, <1>3 DEF Stream!Next

\* A commit is a transaction more to send, other steps of updaters are not seen.
LEMMA UpdatersSim == ASSUME IInv, Updaters PROVE Stream!Next \/ UNCHANGED Stream!streamVars
<1>1. UNCHANGED <<read_jnl_seqno, recvd_jnl_seqno, pc, chan, NextSeqno>>
  BY DEF Updaters, readVars, localVars, NextSeqno
<1>2. CASE Commit
  <2>1. Len(log') = Len(log) + 1
    <3>1. log \in Seq(Transaction)
      BY Known DEF LogInv
    <3>2. ASSUME NEW e PROVE Len(Append(log, e)) = Len(log) + 1
      BY <3>1
    <3> QED BY <3>2, <1>2 DEF Commit
  <2>2. jnl_seqno' = jnl_seqno + 1
    BY <2>1, Known, LogFacts DEF jnl_seqno
  <2>3. jnl_seqno' - 1 = (jnl_seqno - 1) + 1
    BY <2>2, StreamFacts
  <2>4. Stream!Grow
    BY <2>3, <1>1 DEF Stream!Grow, NextSeqno
  <2> QED BY <2>4 DEF Stream!Next
<1>3. CASE ~Commit
  <2>1. log' = log
    BY <1>3 DEF Updaters, StoreLength, StoreAddr, Abort, Publish
  <2> QED BY <2>1, <1>1, StreamStutter DEF jnl_seqno
<1> QED BY <1>2, <1>3

\* Every step of the source server is one of SeqStream, or changes nothing there.
LEMMA SourceSim ==
    ASSUME IInv, [SourceNext]_vars
    PROVE  [Stream!Next]_(Stream!streamVars)
<1>0. SUFFICES Stream!Next \/ UNCHANGED Stream!streamVars
  OBVIOUS
<1>1. CASE Updaters
  BY <1>1, UpdatersSim
<1>2. CASE FileComplete \/ ReadPool \/ CopyFromPool \/ UNCHANGED vars
  <2>1. UNCHANGED <<log, read_jnl_seqno, recvd_jnl_seqno, chan>>
    BY <1>2 DEF FileComplete, ReadPool, CopyFromPool, vars, readVars, localVars, logVars,
        SwitchToFile, repl_phase2_cleanup
  <2>2. (pc \in Searching)' <=> pc \in Searching
    BY <1>2 DEF FileComplete, ReadPool, CopyFromPool, vars, Searching
  <2> QED BY <2>1, <2>2, StreamStutter DEF NextSeqno, jnl_seqno
<1>3. CASE SendFromPool
  <2>1. /\ pc = "check" /\ pc' = "sending" /\ UNCHANGED logVars
        /\ pc \notin Searching /\ pc' \notin Searching
    BY <1>3, SendFromPoolIs DEF Searching
  <2>2. CASE SwitchToFile /\ UNCHANGED chan
    BY <2>1, <2>2, SamePool, StreamStutter DEF NextSeqno, SwitchToFile
  <2>3. ASSUME NEW n \in 1 .. MaxSeqno,
               Whole(n), chan' = chan \o [i \in 1 .. n |-> read_jnl_seqno + i - 1],
               read_jnl_seqno' = read_jnl_seqno + n
        PROVE  Stream!Next
    <3>1. n \in Nat \ {0} /\ read_jnl_seqno + n <= jnl_seqno
      BY <2>3, SourceAssumption DEF Whole
    <3> QED BY <3>1, <2>1, <2>3, StreamSend DEF logVars
  <2> QED BY <2>2, <2>3, <1>3, SendFromPoolIs
<1>4. CASE ReadFiles
  <2>1. /\ pc = "sending" /\ read_jnl_seqno < jnl_seqno /\ UNCHANGED <<log, pc>>
        /\ read_jnl_seqno' = read_jnl_seqno + 1 /\ chan' = Append(chan, read_jnl_seqno)
    BY <1>4 DEF ReadFiles, repl_phase2_cleanup, logVars
  <2>2. pc \notin Searching /\ pc' \notin Searching
    BY <2>1 DEF Searching
  <2>3. [i \in 1 .. 1 |-> read_jnl_seqno + i - 1] = <<read_jnl_seqno>>
    <3>1. read_jnl_seqno \in Nat
      BY StreamFacts
    <3> QED BY <3>1
  <2>4. chan' = chan \o [i \in 1 .. 1 |-> read_jnl_seqno + i - 1]
    <3>1. chan \in Seq(Nat) /\ read_jnl_seqno \in Nat
      BY StreamFacts
    <3>2. Append(chan, read_jnl_seqno) = chan \o <<read_jnl_seqno>>
      BY <3>1, AppendIsConcat
    <3> QED BY <2>1, <2>3, <3>2, Zenon
  <2>5. read_jnl_seqno + 1 <= jnl_seqno /\ 1 \in Nat \ {0}
    BY <2>1, StreamFacts
  <2> QED BY <2>1, <2>2, <2>4, <2>5, StreamSend
<1>5. CASE SrchLastwriteLen \/ SrchAtEnd \/ SrchWait \/ SrchPrevLen \/ SrchStep
  <2>1. UNCHANGED <<log, recvd_jnl_seqno, chan>> /\ pc \in Searching /\ pc' \in Searching
    BY <1>5 DEF SrchLastwriteLen, SrchAtEnd, SrchWait, SrchPrevLen, SrchStep, Searching,
        localVars, logVars, repl_phase2_cleanup
  <2> QED BY <2>1, StreamStutter DEF NextSeqno, jnl_seqno
<1>6. CASE SrchEnd
  <2>1. /\ UNCHANGED <<logVars, chan>> /\ pc \in Searching /\ pc' \notin Searching
        /\ read_jnl_seqno' = recvd_jnl_seqno
    BY <1>6 DEF SrchEnd, Searching
  <2> QED BY <2>1, SamePool, StreamStutter DEF NextSeqno
<1>7. ASSUME NEW s \in 1 .. jnl_seqno, SrchRestart(s) PROVE Stream!Next
  <2>1. /\ UNCHANGED logVars /\ chan' = << >>
        /\ \/ pc' = "srch_first" /\ recvd_jnl_seqno' = s
           \/ pc' = "sending" /\ read_jnl_seqno' = s
    BY <1>7 DEF SrchRestart
  <2>2. NextSeqno' = s
    BY <2>1 DEF NextSeqno, Searching
  <2> QED BY <2>1, <2>2, StreamRestart
<1>8. CASE Receive
  <2>1. UNCHANGED <<logVars, pc, read_jnl_seqno, recvd_jnl_seqno>>
        /\ chan # << >> /\ chan' = Tail(chan)
    BY <1>8 DEF Receive, readVars, localVars
  <2>2. jnl_seqno' = jnl_seqno
    BY <2>1, SamePool
  <2>3. Stream!Receive
    BY <2>1, <2>2 DEF Stream!Receive
  <2> QED BY <2>3 DEF Stream!Next
<1>9. CASE ConnectionReset
  <2>1. /\ UNCHANGED <<logVars, read_jnl_seqno>> /\ chan' = << >> /\ pc' = "waiting"
    BY <1>9 DEF ConnectionReset, readVars
  <2>2. NextSeqno' = read_jnl_seqno
    BY <2>1 DEF NextSeqno, Searching
  <2> QED BY <2>1, <2>2, StreamFacts, StreamRestart
<1>10. CASE gtmsource
  <2>1. /\ UNCHANGED logVars /\ chan' = << >> /\ pc' = "waiting"
        /\ read_jnl_seqno' \in {1, read_jnl_seqno}
    BY <1>10 DEF gtmsource
  <2>2. NextSeqno' = read_jnl_seqno' /\ read_jnl_seqno' \in 1 .. jnl_seqno
    BY <2>1, StreamFacts DEF NextSeqno, Searching
  <2> QED BY <2>1, <2>2, StreamRestart
<1> QED BY <1>1, <1>2, <1>3, <1>4, <1>5, <1>6, <1>7, <1>8, <1>9, <1>10
      DEF SourceNext, Read, Search

\* What the source server sends is the stream of SeqStream: whole transactions, each one once
\* and in order from the seqno asked for on, although the pool is read without a lock.
THEOREM SendsTheStream == ASSUME NoRaces PROVE SourceSpec => SendsStream
<1>1. SourceInit => Stream!Init
  <2> SUFFICES ASSUME SourceInit PROVE Stream!Init
    OBVIOUS
  <2>1. IInv /\ pc = "waiting" /\ chan = << >>
    BY InitInv DEF SourceInit
  <2> QED BY <2>1, StreamFacts DEF Stream!Init, Searching
<1>2. IInv /\ [SourceNext]_vars => [Stream!Next]_(Stream!streamVars)
  BY SourceSim
<1> QED BY <1>1, <1>2, SourceInvariant, PTL DEF SourceSpec, SendsStream, Stream!Spec
============================================================================
