-------------------------- MODULE OutboxRelayProofs --------------------------
(***************************************************************************)
(* Theorems about OutboxRelay, for every set of workers, every set of      *)
(* rows, every limit, every MAX_RETRIES and every bound on troubles.       *)
(***************************************************************************)
EXTENDS OutboxRelay, TLAPS

-----------------------------------------------------------------------------
\* The inductive invariant.

\* The attempts that failed, and those that did not, as an image counts them.
Tried(i) == i.retry_count + (IF i.status = "DLQ" THEN 1 ELSE 0)
Delivered(i) == IF i.status = "SENT" THEN 1 ELSE 0
Lettered(i) == IF i.status = "DLQ" THEN 1 ELSE 0

\* What really happened to a row is what its image says, but for what crashes
\* have rolled back and producers have repeated.
Accounted(r, i) ==
    /\ i.retry_count <= MAX_RETRIES
    /\ i.status = "DLQ" => i.retry_count = MAX_RETRIES
    /\ Tried(i) <= failures[r] /\ failures[r] <= Tried(i) + crashes
    /\ event_log_topic[r] <= Delivered(i) + crashes + repeats
    /\ dlq_topic[r] <= Lettered(i) + crashes + repeats
    /\ crashes = 0 /\ i.status # "DLQ" => dlq_topic[r] = 0
    /\ "lose" \notin Faults /\ i.status = "SENT" => event_log_topic[r] > 0

\* A worker's image of a locked row is at most one attempt ahead of the table.
Claim(w, r) ==
    /\ tx[w][r].status # "ABSENT"
    /\ Tried(outbox[r]) <= Tried(tx[w][r])
    /\ Tried(tx[w][r]) <= Tried(outbox[r]) + 1
    /\ r \in todo[w] => tx[w][r] = outbox[r]
    /\ Accounted(r, tx[w][r])

ClaimsInv == \A w \in Workers : \A r \in DOMAIN tx[w] : Claim(w, r)

FreeInv == \A r \in Rows \ Locked : Accounted(r, outbox[r])

IInv == TypeOK /\ ClaimedOnce /\ ClaimsInv /\ FreeInv

-----------------------------------------------------------------------------
\* Images count in natural numbers.
LEMMA CountsType ==
    ASSUME NEW i \in RowImages
    PROVE  /\ Tried(i) \in Nat
           /\ Delivered(i) \in 0 .. 1
           /\ Lettered(i) \in 0 .. 1
           /\ i.retry_count \in Nat
  BY DEF RowImages, Tried, Delivered, Lettered

\* The transaction without rows.
LEMMA NoTxType == DOMAIN NoTx = {} /\ NoTx \in [{} -> RowImages]
  BY DEF NoTx

\* Which rows are locked.
LEMMA LockedRows ==
    ASSUME NEW r PROVE r \in Locked <=> \E w \in Workers : r \in DOMAIN tx[w]
  BY DEF Locked

\* An empty table, nobody at work.
LEMMA InvInit == Init => IInv
  <1> SUFFICES ASSUME Init PROVE IInv
    OBVIOUS
  <1>1. TypeOK
    BY NoTxType, RelayAssumption DEF Init, TypeOK, RowImages
  <1>2. \A w \in Workers : DOMAIN tx[w] = {}
    BY NoTxType DEF Init
  <1>3. ClaimedOnce /\ ClaimsInv
    BY <1>2 DEF ClaimedOnce, ClaimsInv
  <1>4. FreeInv
    BY RelayAssumption DEF Init, FreeInv, Accounted, Tried, Delivered, Lettered
  <1> QED
    BY <1>1, <1>3, <1>4 DEF IInv

\* A row appears: it was absent, so nobody had locked it.
LEMMA InsertStep ==
    ASSUME IInv, NEW r \in Rows, Insert(r) PROVE IInv'
  <1>1. \A w \in Workers : r \notin DOMAIN tx[w]
    BY DEF IInv, ClaimedOnce, Insert
  <1>2. outbox[r] \in RowImages /\ outbox[r].status = "ABSENT"
    BY DEF IInv, TypeOK, Insert
  <1>3. /\ outbox'[r] = [outbox[r] EXCEPT !.status = "PENDING"]
        /\ \A q \in Rows \ {r} : outbox'[q] = outbox[q]
        /\ outbox' \in [Rows -> RowImages]
    BY <1>2 DEF IInv, TypeOK, Insert, RowImages
  <1>4. TypeOK'
    BY <1>2, <1>3 DEF IInv, TypeOK, Insert, kafka, RowImages
  <1>5. ClaimedOnce'
    BY <1>1, <1>3 DEF IInv, TypeOK, ClaimedOnce, Insert
  <1>6. ClaimsInv'
    BY <1>1, <1>3 DEF IInv, TypeOK, ClaimsInv, Claim, Accounted, Tried, Delivered, Lettered,
                      Insert, kafka
  <1>7. FreeInv'
    BY <1>2, <1>3 DEF IInv, TypeOK, FreeInv, Locked, Accounted, Tried, Delivered, Lettered,
                      Insert, kafka, RowImages
  <1> QED
    BY <1>4, <1>5, <1>6, <1>7 DEF IInv

\* A batch is of rows nobody has locked, and its images are the rows.
LEMMA FetchStep ==
    ASSUME IInv, NEW w \in Workers, fetch_pending(w) PROVE IInv'
  <1>1. PICK batch \in SUBSET Claimable :
            /\ tx' = [tx EXCEPT ![w] = [r \in batch |-> outbox[r]]]
            /\ todo' = [todo EXCEPT ![w] = batch]
    BY DEF fetch_pending
  <1>2. /\ batch \subseteq Rows
        /\ \A r \in batch : outbox[r].status = "PENDING"
        /\ \A r \in batch : \A v \in Workers : r \notin DOMAIN tx[v]
    BY <1>1, LockedRows DEF Claimable
  <1>3. /\ tx'[w] = [r \in batch |-> outbox[r]] /\ todo'[w] = batch
        /\ \A v \in Workers \ {w} : tx'[v] = tx[v] /\ todo'[v] = todo[v]
    BY <1>1 DEF IInv, TypeOK
  <1>4. UNCHANGED <<outbox, up, event_log_topic, dlq_topic, failures, crashes, repeats>>
    BY DEF fetch_pending, kafka
  <1>5. up[w]
    BY DEF fetch_pending, Polling
  <1>6. TypeOK'
    BY <1>1, <1>2, <1>3, <1>4, <1>5 DEF IInv, TypeOK
  <1>7. ClaimedOnce'
    BY <1>2, <1>3, <1>4 DEF IInv, ClaimedOnce
  <1>8. \A r \in batch : Accounted(r, outbox[r])
    BY <1>2, LockedRows DEF IInv, FreeInv
  <1>9. \A r \in batch : Tried(outbox[r]) \in Nat
    BY <1>2, CountsType DEF IInv, TypeOK
  <1>10. ClaimsInv'
    <2> SUFFICES ASSUME NEW v \in Workers, NEW r \in DOMAIN tx'[v]
                 PROVE  Claim(v, r)'
      BY DEF ClaimsInv
    <2>1. CASE v = w
      <3>1. r \in batch /\ tx'[v][r] = outbox[r] /\ outbox'[r] = outbox[r]
        BY <1>3, <1>4, <2>1
      <3>2. Accounted(r, tx[v][r])'
        BY <1>4, <1>8, <3>1 DEF Accounted
      <3> QED
        BY <1>2, <1>9, <3>1, <3>2 DEF Claim
    <2>2. CASE v # w
      BY <1>3, <1>4, <2>2 DEF IInv, ClaimsInv, Claim, Accounted
    <2> QED
      BY <2>1, <2>2
  <1>11. FreeInv'
    <2>1. DOMAIN tx[w] = {}
      BY NoTxType DEF fetch_pending, Polling
    <2>2. ASSUME NEW r \in Locked PROVE r \in Locked'
      <3>1. PICK v \in Workers : r \in DOMAIN tx[v]
        BY <2>2, LockedRows
      <3>2. v # w
        BY <2>1, <3>1
      <3> QED
        BY <1>3, <3>1, <3>2 DEF Locked
    <2> QED
      BY <1>4, <2>2 DEF IInv, FreeInv, Accounted
  <1> QED
    BY <1>6, <1>7, <1>10, <1>11 DEF IInv

\* A mark keeps IInv if it accounts for what happened to its row.
LEMMA MarkStep ==
    ASSUME IInv, NEW w \in Workers, NEW r \in todo[w], NEW image \in RowImages,
           Mark(w, r, image), image.status # "ABSENT",
           Tried(outbox[r]) <= Tried(image), Tried(image) <= Tried(outbox[r]) + 1,
           failures' \in [Rows -> Nat],
           event_log_topic' \in [Rows -> Nat],
           dlq_topic' \in [Rows -> Nat],
           repeats' \in Nat, repeats <= repeats', crashes + repeats' <= MaxTroubles,
           \A q \in Rows \ {r} : /\ failures'[q] = failures[q]
                                 /\ event_log_topic'[q] = event_log_topic[q]
                                 /\ dlq_topic'[q] = dlq_topic[q],
           Accounted(r, image)'
    PROVE  IInv'
  <1>1. r \in Rows /\ r \in DOMAIN tx[w]
    BY DEF IInv, TypeOK
  <1>2. /\ tx'[w] = [tx[w] EXCEPT ![r] = image]
        /\ todo'[w] = todo[w] \ {r}
        /\ \A v \in Workers \ {w} : tx'[v] = tx[v] /\ todo'[v] = todo[v]
        /\ DOMAIN tx' = DOMAIN tx /\ DOMAIN todo' = DOMAIN todo
    BY DEF IInv, TypeOK, Mark
  <1>3. /\ DOMAIN tx'[w] = DOMAIN tx[w]
        /\ tx'[w][r] = image
        /\ \A q \in DOMAIN tx[w] \ {r} : tx'[w][q] = tx[w][q]
        /\ tx'[w] \in [DOMAIN tx[w] -> RowImages]
    BY <1>1, <1>2 DEF IInv, TypeOK
  <1>4. \A v \in Workers : DOMAIN tx'[v] = DOMAIN tx[v]
    BY <1>2, <1>3
  <1>5. UNCHANGED <<outbox, up, crashes>>
    BY DEF Mark
  <1>0. ASSUME NEW q \in Rows \ {r}, NEW i \in RowImages, Accounted(q, i)
        PROVE  Accounted(q, i)'
    <2>1. PICK d \in Nat, l \in Nat : d = Delivered(i) /\ l = Lettered(i)
      BY CountsType
    <2>2. crashes \in Nat /\ repeats \in Nat /\ event_log_topic[q] \in Nat /\ dlq_topic[q] \in Nat
      BY DEF IInv, TypeOK
    <2>3. /\ event_log_topic[q] <= d + crashes + repeats
          /\ dlq_topic[q] <= l + crashes + repeats
      BY <1>0, <2>1 DEF Accounted
    <2>4. /\ event_log_topic[q] <= d + crashes + repeats'
          /\ dlq_topic[q] <= l + crashes + repeats'
      BY <2>1, <2>2, <2>3
    <2> QED
      BY <1>0, <1>5, <2>1, <2>4 DEF Accounted
  <1>6. TypeOK'
    <2>1. tx' = [v \in Workers |-> tx'[v]]
      BY DEF IInv, TypeOK, Mark
    <2>2. \A v \in Workers : /\ DOMAIN tx'[v] \subseteq Rows
                             /\ tx'[v] \in [DOMAIN tx'[v] -> RowImages]
      BY <1>2, <1>3 DEF IInv, TypeOK
    <2>3. todo' \in [Workers -> SUBSET Rows]
      BY DEF IInv, TypeOK, Mark
    <2>4. \A v \in Workers : todo'[v] \subseteq DOMAIN tx'[v]
      BY <1>2, <1>4 DEF IInv, TypeOK
    <2>5. \A v \in Workers : ~up[v] => tx'[v] = NoTx
      BY <1>1, <1>2, NoTxType DEF IInv, TypeOK
    <2> QED
      BY <1>5, <2>1, <2>2, <2>3, <2>4, <2>5 DEF IInv, TypeOK
  <1>7. ClaimedOnce'
    BY <1>4, <1>5 DEF IInv, ClaimedOnce
  <1>8. ClaimsInv'
    <2> SUFFICES ASSUME NEW v \in Workers, NEW q \in DOMAIN tx'[v]
                 PROVE  Claim(v, q)'
      BY DEF ClaimsInv
    <2>1. q \in DOMAIN tx[v] /\ q \in Rows
      BY <1>4 DEF IInv, TypeOK
    <2>2. CASE v = w /\ q = r
      <3>1. tx'[v][q] = image /\ q \notin todo'[v] /\ outbox'[q] = outbox[r]
        BY <1>2, <1>3, <1>5, <2>2
      <3>2. Accounted(q, tx[v][q])'
        BY <2>2, <3>1 DEF Accounted
      <3> QED
        BY <2>2, <3>1, <3>2 DEF Claim
    <2>3. CASE ~(v = w /\ q = r)
      <3>1. q # r
        BY <1>1, <2>1, <2>3 DEF IInv, ClaimedOnce
      <3>2. tx'[v][q] = tx[v][q] /\ (q \in todo'[v] => q \in todo[v])
        BY <1>2, <1>3, <2>1, <3>1
      <3>3. Claim(v, q)
        BY <2>1 DEF IInv, ClaimsInv
      <3>4. PICK i \in RowImages : i = tx[v][q]
        BY <2>1 DEF IInv, TypeOK
      <3>5. Accounted(q, i)'
        BY <1>0, <2>1, <3>1, <3>3, <3>4 DEF Claim
      <3>6. Accounted(q, tx[v][q])'
        BY <3>2, <3>4, <3>5 DEF Accounted
      <3> QED
        BY <1>5, <2>1, <3>1, <3>2, <3>3, <3>6 DEF Claim
    <2> QED
      BY <2>2, <2>3
  <1>9. FreeInv'
    <2> SUFFICES ASSUME NEW q \in Rows, q \notin Locked' PROVE Accounted(q, outbox[q])'
      BY DEF FreeInv
    <2>1. q # r /\ q \in Rows \ Locked
      BY <1>1, <1>4 DEF Locked
    <2>2. PICK i \in RowImages : i = outbox[q]
      BY DEF IInv, TypeOK
    <2>3. Accounted(q, i)'
      BY <1>0, <2>1, <2>2 DEF IInv, FreeInv
    <2> QED
      BY <1>5, <2>2, <2>3 DEF Accounted
  <1> QED
    BY <1>6, <1>7, <1>8, <1>9 DEF IInv

\* What IInv says of the row a worker is at.
LEMMA AtRow ==
    ASSUME IInv, NEW w \in Workers, NEW r \in Rows, IsNext(w, r)
    PROVE  /\ r \in todo[w] /\ r \in DOMAIN tx[w]
           /\ tx[w][r] = outbox[r] /\ tx[w][r] \in RowImages
           /\ tx[w][r].status = "PENDING"
           /\ Accounted(r, tx[w][r])
           /\ failures[r] \in Nat /\ event_log_topic[r] \in Nat /\ dlq_topic[r] \in Nat
           /\ crashes \in Nat /\ repeats \in Nat /\ crashes + repeats <= MaxTroubles
  <1>1. r \in todo[w] /\ r \in DOMAIN tx[w]
    BY DEF IInv, TypeOK, IsNext
  <1>2. Claim(w, r) /\ outbox[r].status = "PENDING"
    BY <1>1 DEF IInv, ClaimsInv, ClaimedOnce
  <1> QED
    BY <1>1, <1>2, RelayAssumption DEF IInv, TypeOK, Claim

\* A topic after a send that returned has at most one more copy of the row, and
\* one more for a repetition.
LEMMA TopicAfter ==
    ASSUME NEW topic \in [Rows -> Nat], NEW r \in Rows, NEW after,
           crashes \in Nat, repeats \in Nat, crashes + repeats <= MaxTroubles,
           Returned(topic, after, r)
    PROVE  /\ after \in [Rows -> Nat]
           /\ \A q \in Rows \ {r} : after[q] = topic[q]
           /\ repeats' \in Nat /\ repeats <= repeats' /\ crashes + repeats' <= MaxTroubles
           /\ after[r] + repeats <= topic[r] + 1 + repeats'
           /\ "lose" \notin Faults => after[r] > 0
           /\ "lose" \notin Faults =>
                  \E n \in {1, 2} : after = [topic EXCEPT ![r] = @ + n]
  <1>1. topic[r] \in Nat /\ MaxTroubles \in Nat
    BY RelayAssumption
  <1>2. CASE after = [topic EXCEPT ![r] = @ + 1] /\ UNCHANGED repeats
    BY <1>1, <1>2
  <1>3. CASE /\ crashes + repeats < MaxTroubles
             /\ after = [topic EXCEPT ![r] = @ + 2]
             /\ repeats' = repeats + 1
    BY <1>1, <1>3
  <1>4. CASE "lose" \in Faults /\ after = topic /\ UNCHANGED repeats
    BY <1>1, <1>4
  <1> QED
    BY <1>2, <1>3, <1>4 DEF Returned

\* The message was sent: one copy more, and the image says so.
LEMMA SentStep ==
    ASSUME IInv, NEW w \in Workers, NEW r \in Rows, publish_to_kafka(w, r)
    PROVE  IInv'
  <1>1. IsNext(w, r)
    BY DEF publish_to_kafka
  <1>2. PICK image \in RowImages :
            /\ Mark(w, r, image)
            /\ image.status = "SENT" /\ image.retry_count = tx[w][r].retry_count
    BY <1>1, AtRow DEF publish_to_kafka, RowImages
  <1>3. Tried(image) = Tried(outbox[r]) /\ Tried(outbox[r]) \in Nat
    BY <1>1, <1>2, AtRow, CountsType DEF Tried
  <1>4. event_log_topic \in [Rows -> Nat]
    BY DEF IInv, TypeOK
  <1>5. UNCHANGED <<dlq_topic, failures, crashes>>
    BY DEF publish_to_kafka, Mark
  <1>6. /\ event_log_topic' \in [Rows -> Nat]
        /\ \A q \in Rows \ {r} : event_log_topic'[q] = event_log_topic[q]
        /\ repeats' \in Nat /\ repeats <= repeats' /\ crashes + repeats' <= MaxTroubles
        /\ event_log_topic'[r] + repeats <= event_log_topic[r] + 1 + repeats'
        /\ "lose" \notin Faults => event_log_topic'[r] > 0
    BY <1>1, <1>4, AtRow, TopicAfter DEF publish_to_kafka
  <1>7. Accounted(r, image)'
    <2>1. /\ Accounted(r, tx[w][r]) /\ tx[w][r].status = "PENDING"
          /\ tx[w][r] = outbox[r] /\ image.retry_count = tx[w][r].retry_count
          /\ crashes \in Nat /\ repeats \in Nat /\ event_log_topic[r] \in Nat
          /\ dlq_topic[r] \in Nat /\ event_log_topic'[r] \in Nat
      BY <1>1, <1>2, <1>6, AtRow
    <2>2. event_log_topic'[r] <= 1 + crashes + repeats'
      <3>1. event_log_topic[r] <= crashes + repeats
        BY <2>1 DEF Accounted, Delivered
      <3> QED
        BY <1>6, <2>1, <3>1
    <2>3. dlq_topic[r] <= crashes + repeats' /\ (crashes = 0 => dlq_topic[r] = 0)
      BY <1>6, <2>1 DEF Accounted, Lettered
    <2>4. /\ image.retry_count <= MAX_RETRIES
          /\ Tried(image) <= failures[r] /\ failures[r] <= Tried(image) + crashes
      BY <1>3, <2>1 DEF Accounted
    <2>5. Delivered(image) = 1 /\ Lettered(image) = 0 /\ image.status = "SENT"
      BY <1>2 DEF Delivered, Lettered
    <2>6. /\ event_log_topic'[r] <= Delivered(image) + crashes' + repeats'
          /\ dlq_topic'[r] <= Lettered(image) + crashes' + repeats'
      BY <1>5, <1>6, <2>1, <2>2, <2>3, <2>5
    <2> QED
      BY <1>5, <1>6, <2>3, <2>4, <2>5, <2>6 DEF Accounted
  <1>8. r \in todo[w]
    BY <1>1, AtRow
  <1>9. failures' \in [Rows -> Nat] /\ dlq_topic' \in [Rows -> Nat]
    BY <1>5 DEF IInv, TypeOK
  <1> QED
    BY <1>1, <1>2, <1>3, <1>5, <1>6, <1>7, <1>8, <1>9, MarkStep

\* A failed attempt: one more in the image, unless this is the last.
LEMMA FailedStep ==
    ASSUME IInv, NEW w \in Workers, NEW r \in Rows, Raises(w, r),
           NEW image \in RowImages, Mark(w, r, image),
           image.status \in {"PENDING", "DLQ"},
           Tried(image) = Tried(outbox[r]) + 1,
           image.retry_count <= MAX_RETRIES,
           image.status = "DLQ" => image.retry_count = MAX_RETRIES,
           dlq_topic' \in [Rows -> Nat],
           repeats' \in Nat, repeats <= repeats', crashes + repeats' <= MaxTroubles,
           dlq_topic'[r] + repeats <= dlq_topic[r] + Lettered(image) + repeats',
           image.status # "DLQ" => dlq_topic' = dlq_topic,
           \A q \in Rows \ {r} : dlq_topic'[q] = dlq_topic[q],
           UNCHANGED event_log_topic
    PROVE  IInv'
  <1>1. IsNext(w, r) /\ failures' = [failures EXCEPT ![r] = @ + 1]
    BY DEF Raises
  <1>2. UNCHANGED crashes
    BY DEF Mark
  <1>3. Tried(image) \in Nat /\ Tried(outbox[r]) \in Nat
    BY CountsType DEF IInv, TypeOK
  <1>4. /\ failures' \in [Rows -> Nat]
        /\ failures'[r] = failures[r] + 1
        /\ \A q \in Rows \ {r} : failures'[q] = failures[q]
        /\ event_log_topic' \in [Rows -> Nat]
    BY <1>1 DEF IInv, TypeOK
  <1>5. Tried(outbox[r]) <= failures[r] /\ failures[r] <= Tried(outbox[r]) + crashes
    BY <1>1, AtRow DEF Accounted
  <1>6. Tried(image) <= failures'[r] /\ failures'[r] <= Tried(image) + crashes
    BY <1>1, <1>3, <1>4, <1>5, AtRow
  <1>7. event_log_topic[r] <= Delivered(image) + crashes + repeats'
    <2>1. event_log_topic[r] <= crashes + repeats
      BY <1>1, AtRow DEF Accounted, Delivered
    <2>2. Delivered(image) = 0
      BY DEF Delivered
    <2> QED
      BY <1>1, <2>1, <2>2, AtRow
  <1>8. dlq_topic'[r] <= Lettered(image) + crashes + repeats'
    <2>1. dlq_topic[r] <= crashes + repeats
      BY <1>1, AtRow DEF Accounted, Lettered
    <2>2. /\ dlq_topic'[r] \in Nat /\ dlq_topic[r] \in Nat
          /\ crashes \in Nat /\ repeats \in Nat
      BY <1>1, AtRow
    <2> QED
      BY <2>1, <2>2, CountsType
  <1>11. crashes = 0 /\ image.status # "DLQ" => dlq_topic'[r] = 0
    BY <1>1, AtRow DEF Accounted
  <1>9. Accounted(r, image)'
    BY <1>2, <1>6, <1>7, <1>8, <1>11 DEF Accounted
  <1>10. r \in todo[w]
    BY <1>1, AtRow
  <1> QED
    BY <1>3, <1>4, <1>9, <1>10, MarkStep

\* A retry is counted.
LEMMA RetryStep ==
    ASSUME IInv, NEW w \in Workers, NEW r \in Rows, mark_failed(w, r)
    PROVE  IInv'
  <1>1. Raises(w, r) /\ IsNext(w, r) /\ ~Exhausted(w, r)
    BY DEF mark_failed, Raises
  <1>2. tx[w][r].retry_count \in Nat
    BY <1>1, AtRow DEF RowImages
  <1>3. PICK image \in RowImages :
            /\ Mark(w, r, image)
            /\ image.status = "PENDING"
            /\ image.retry_count = tx[w][r].retry_count + 1
    BY <1>1, <1>2, AtRow DEF mark_failed, RowImages
  <1>4. image.retry_count <= MAX_RETRIES
    BY <1>1, <1>2, <1>3, RelayAssumption DEF Exhausted
  <1>5. Tried(image) = Tried(outbox[r]) + 1
    BY <1>1, <1>2, <1>3, AtRow DEF Tried
  <1>6. /\ dlq_topic' \in [Rows -> Nat]
        /\ UNCHANGED <<event_log_topic, dlq_topic, repeats>>
    BY DEF mark_failed, kafka, IInv, TypeOK
  <1>7. /\ dlq_topic'[r] + repeats <= dlq_topic[r] + Lettered(image) + repeats'
        /\ repeats' \in Nat /\ repeats <= repeats' /\ crashes + repeats' <= MaxTroubles
    BY <1>1, <1>6, AtRow, CountsType
  <1> QED
    BY <1>1, <1>3, <1>4, <1>5, <1>6, <1>7, FailedStep

\* The last retry is spent.
LEMMA DeadLetterStep ==
    ASSUME IInv, NEW w \in Workers, NEW r \in Rows, mark_dlq(w, r)
    PROVE  IInv'
  <1>1. Raises(w, r) /\ IsNext(w, r) /\ Exhausted(w, r)
    BY DEF mark_dlq, Raises
  <1>2. tx[w][r].retry_count \in Nat /\ tx[w][r].retry_count = MAX_RETRIES
    BY <1>1, AtRow, RelayAssumption DEF RowImages, Accounted, Exhausted
  <1>3. PICK image \in RowImages :
            /\ Mark(w, r, image)
            /\ image.status = "DLQ"
            /\ image.retry_count = tx[w][r].retry_count
    BY <1>1, AtRow DEF mark_dlq, RowImages
  <1>4. Tried(image) = Tried(outbox[r]) + 1
    BY <1>1, <1>2, <1>3, AtRow DEF Tried
  <1>5. /\ dlq_topic \in [Rows -> Nat] /\ dlq_topic[r] \in Nat
        /\ crashes \in Nat /\ repeats \in Nat /\ crashes + repeats <= MaxTroubles
    BY <1>1, AtRow DEF IInv, TypeOK
  <1>6. image.retry_count <= MAX_RETRIES
    BY <1>2, <1>3, RelayAssumption
  <1>7. Lettered(image) = 1
    BY <1>3 DEF Lettered
  <1>8. /\ dlq_topic' \in [Rows -> Nat]
        /\ \A q \in Rows \ {r} : dlq_topic'[q] = dlq_topic[q]
        /\ repeats' \in Nat /\ repeats <= repeats' /\ crashes + repeats' <= MaxTroubles
        /\ dlq_topic'[r] + repeats <= dlq_topic[r] + 1 + repeats'
    <2>1. CASE Returned(dlq_topic, dlq_topic', r)
      BY <1>5, <2>1, TopicAfter
    <2>2. CASE UNCHANGED <<dlq_topic, repeats>>
      BY <1>5, <2>2
    <2> QED
      BY <2>1, <2>2 DEF mark_dlq
  <1>9. UNCHANGED event_log_topic
    BY DEF mark_dlq
  <1> QED
    BY <1>1, <1>2, <1>3, <1>4, <1>6, <1>7, <1>8, <1>9, FailedStep

\* A commit puts the images in the table and releases their rows.
LEMMA CommitStep ==
    ASSUME IInv, NEW w \in Workers, Commit(w) PROVE IInv'
  <1>1. /\ outbox' = [r \in Rows |-> IF r \in DOMAIN tx[w] THEN tx[w][r]
                                                            ELSE outbox[r]]
        /\ tx' = [tx EXCEPT ![w] = NoTx]
        /\ todo[w] = {}
        /\ UNCHANGED <<todo, up, event_log_topic, dlq_topic, failures, crashes, repeats>>
    BY DEF Commit, kafka
  <1>2. /\ tx'[w] = NoTx /\ \A v \in Workers \ {w} : tx'[v] = tx[v]
        /\ DOMAIN tx'[w] = {}
    BY <1>1, NoTxType DEF IInv, TypeOK
  <1>3. \A v \in Workers \ {w} : \A r \in DOMAIN tx[v] :
            r \in Rows /\ outbox'[r] = outbox[r]
    BY <1>1 DEF IInv, TypeOK, ClaimedOnce
  <1>4. TypeOK'
    <2>1. outbox' \in [Rows -> RowImages]
      BY <1>1 DEF IInv, TypeOK
    <2>2. \A r \in Rows : outbox'[r].retry_count <= MAX_RETRIES
      BY <1>1 DEF IInv, TypeOK, ClaimsInv, Claim, Accounted
    <2>3. tx' = [v \in Workers |-> tx'[v]]
      BY <1>1 DEF IInv, TypeOK
    <2>4. \A v \in Workers : /\ DOMAIN tx'[v] \subseteq Rows
                             /\ tx'[v] \in [DOMAIN tx'[v] -> RowImages]
                             /\ todo'[v] \subseteq DOMAIN tx'[v]
                             /\ ~up'[v] => tx'[v] = NoTx
      BY <1>1, <1>2, NoTxType DEF IInv, TypeOK
    <2> QED
      BY <1>1, <2>1, <2>2, <2>3, <2>4 DEF IInv, TypeOK
  <1>5. ClaimedOnce'
    <2>1. \A u, v \in Workers : u # v => DOMAIN tx'[u] \cap DOMAIN tx'[v] = {}
      BY <1>2 DEF IInv, ClaimedOnce
    <2>2. \A v \in Workers : \A r \in DOMAIN tx'[v] : outbox'[r].status = "PENDING"
      BY <1>2, <1>3 DEF IInv, ClaimedOnce
    <2> QED
      BY <2>1, <2>2 DEF ClaimedOnce
  <1>6. ClaimsInv'
    BY <1>1, <1>2, <1>3 DEF IInv, ClaimsInv, Claim, Accounted
  <1>7. FreeInv'
    <2> SUFFICES ASSUME NEW r \in Rows, r \notin Locked'
                 PROVE  Accounted(r, outbox[r])'
      BY DEF FreeInv
    <2>1. CASE r \in DOMAIN tx[w]
      BY <1>1, <2>1 DEF IInv, ClaimsInv, Claim, Accounted
    <2>2. CASE r \notin DOMAIN tx[w]
      <3>1. r \notin Locked
        BY <1>2, <2>2 DEF Locked
      <3> QED
        BY <1>1, <2>2, <3>1 DEF IInv, FreeInv, Accounted
    <2> QED
      BY <2>1, <2>2
  <1> QED
    BY <1>4, <1>5, <1>6, <1>7 DEF IInv

\* A crash rolls one batch back: what it did is accounted for by the crash.
LEMMA CrashStep ==
    ASSUME IInv, NEW w \in Workers, Crash(w) PROVE IInv'
  <1>1. /\ crashes' = crashes + 1 /\ crashes + repeats < MaxTroubles
        /\ up' = [up EXCEPT ![w] = FALSE]
        /\ tx' = [tx EXCEPT ![w] = NoTx]
        /\ todo' = [todo EXCEPT ![w] = {}]
        /\ UNCHANGED <<outbox, event_log_topic, dlq_topic, failures, repeats>>
    BY DEF Crash, kafka
  <1>2. /\ tx'[w] = NoTx /\ todo'[w] = {} /\ DOMAIN tx'[w] = {}
        /\ \A v \in Workers \ {w} : /\ tx'[v] = tx[v] /\ todo'[v] = todo[v]
                                    /\ up'[v] = up[v]
    BY <1>1, NoTxType DEF IInv, TypeOK
  <1>3. crashes \in Nat /\ repeats \in Nat /\ crashes' # 0
    BY <1>1 DEF IInv, TypeOK
  <1>4. TypeOK'
    <2>1. tx' = [v \in Workers |-> tx'[v]]
      BY <1>1 DEF IInv, TypeOK
    <2>2. \A v \in Workers : /\ DOMAIN tx'[v] \subseteq Rows
                             /\ tx'[v] \in [DOMAIN tx'[v] -> RowImages]
                             /\ todo'[v] \subseteq DOMAIN tx'[v]
                             /\ ~up'[v] => tx'[v] = NoTx
      BY <1>2, NoTxType DEF IInv, TypeOK
    <2>3. crashes' \in Nat /\ crashes' + repeats' <= MaxTroubles
      BY <1>1, <1>3, RelayAssumption
    <2> QED
      BY <1>1, <2>1, <2>2, <2>3 DEF IInv, TypeOK
  <1>5. ClaimedOnce'
    BY <1>1, <1>2 DEF IInv, ClaimedOnce
  <1>6. ASSUME NEW r \in Rows, NEW i \in RowImages, Accounted(r, i)
        PROVE  Accounted(r, i)'
    BY <1>1, <1>3, <1>6, CountsType DEF IInv, TypeOK, Accounted
  <1>7. ClaimsInv'
    <2> SUFFICES ASSUME NEW v \in Workers, NEW r \in DOMAIN tx'[v]
                 PROVE  Claim(v, r)'
      BY DEF ClaimsInv
    <2>1. v # w /\ r \in DOMAIN tx[v] /\ tx'[v] = tx[v] /\ todo'[v] = todo[v]
      BY <1>2
    <2>2. Claim(v, r) /\ r \in Rows
      BY <2>1 DEF IInv, TypeOK, ClaimsInv
    <2>3. PICK i \in RowImages : i = tx[v][r]
      BY <2>1 DEF IInv, TypeOK
    <2>4. Accounted(r, i)'
      BY <1>6, <2>2, <2>3 DEF Claim
    <2> QED
      BY <1>1, <2>1, <2>2, <2>3, <2>4 DEF Claim, Accounted
  <1>8. FreeInv'
    <2> SUFFICES ASSUME NEW r \in Rows, r \notin Locked'
                 PROVE  Accounted(r, outbox[r])'
      BY DEF FreeInv
    <2>1. PICK i \in RowImages : i = outbox[r]
      BY DEF IInv, TypeOK
    <2>2. CASE r \in DOMAIN tx[w]
      <3>1. /\ Claim(w, r) /\ i.status = "PENDING"
            /\ tx[w][r] \in RowImages
            /\ i.retry_count <= MAX_RETRIES
        BY <2>1, <2>2 DEF IInv, TypeOK, ClaimsInv, ClaimedOnce
      <3>2. PICK t \in Nat, n \in Nat, d \in 0 .. 1 :
                t = Tried(i) /\ n = Tried(tx[w][r]) /\ d = Delivered(tx[w][r])
        BY <3>1, CountsType
      <3>3. t <= n /\ n <= t + 1
        BY <2>1, <3>1, <3>2 DEF Claim
      <3>4. /\ n <= failures[r] /\ failures[r] <= n + crashes
            /\ event_log_topic[r] <= d + crashes + repeats
        BY <3>1, <3>2 DEF Claim, Accounted
      <3>5. failures[r] \in Nat /\ event_log_topic[r] \in Nat
        BY DEF IInv, TypeOK
      <3>6. /\ t <= failures[r] /\ failures[r] <= t + (crashes + 1)
            /\ event_log_topic[r] <= (crashes + 1) + repeats
        BY <1>3, <3>3, <3>4, <3>5
      <3>7. Delivered(i) = 0
        BY <3>1 DEF Delivered
      <3>8. event_log_topic[r] <= Delivered(i) + (crashes + 1) + repeats
        BY <1>3, <3>6, <3>7
      <3>9. dlq_topic[r] <= Lettered(i) + (crashes + 1) + repeats
        <4>1. PICK a \in 0 .. 1 : a = Lettered(tx[w][r])
          BY <3>1, CountsType
        <4>2. dlq_topic[r] <= a + crashes + repeats /\ dlq_topic[r] \in Nat
          BY <3>1, <4>1 DEF Claim, Accounted, IInv, TypeOK
        <4>3. Lettered(i) = 0
          BY <3>1 DEF Lettered
        <4> QED
          BY <1>3, <4>1, <4>2, <4>3
      <3>10. Accounted(r, i)'
        BY <1>1, <1>3, <3>1, <3>2, <3>6, <3>8, <3>9 DEF Accounted
      <3> QED
        BY <1>1, <2>1, <3>10 DEF Accounted
    <2>3. CASE r \notin DOMAIN tx[w]
      <3>1. r \notin Locked
        BY <1>2, <2>3 DEF Locked
      <3>2. Accounted(r, i)'
        BY <1>6, <2>1, <3>1 DEF IInv, FreeInv
      <3> QED
        BY <1>1, <2>1, <3>2 DEF Accounted
    <2> QED
      BY <2>2, <2>3
  <1> QED
    BY <1>4, <1>5, <1>7, <1>8 DEF IInv

\* A worker comes back with no transaction.
LEMMA RestartStep ==
    ASSUME IInv, NEW w \in Workers, Restart(w) PROVE IInv'
  <1>1. /\ up' = [up EXCEPT ![w] = TRUE]
        /\ UNCHANGED <<outbox, tx, todo, event_log_topic, dlq_topic, failures,
                       crashes, repeats>>
    BY DEF Restart, kafka
  <1>2. TypeOK'
    BY <1>1 DEF IInv, TypeOK
  <1>3. ClaimedOnce' /\ ClaimsInv' /\ FreeInv'
    BY <1>1 DEF IInv, ClaimedOnce, ClaimsInv, Claim, FreeInv, Locked, Accounted
  <1> QED
    BY <1>2, <1>3 DEF IInv

\* A poll that finds nothing changes nothing.
LEMMA StutterStep == IInv /\ UNCHANGED vars => IInv'
  BY DEF IInv, TypeOK, ClaimedOnce, ClaimsInv, Claim, FreeInv, Locked, Accounted,
         vars

\* Every action of the relay preserves the invariant.
LEMMA InvNext == IInv /\ [Next]_vars => IInv'
  <1> SUFFICES ASSUME IInv, [Next]_vars PROVE IInv'
    OBVIOUS
  <1>1. ASSUME NEW r \in Rows, Insert(r) PROVE IInv'
    BY <1>1, InsertStep
  <1>2. ASSUME NEW w \in Workers, Work(w) PROVE IInv'
    <2>1. CASE fetch_pending(w)
      BY <2>1, FetchStep
    <2>2. CASE PollNothing(w)
      BY <2>2, StutterStep DEF PollNothing
    <2>3. ASSUME NEW r \in Rows, publish_to_kafka(w, r) PROVE IInv'
      BY <2>3, SentStep
    <2>4. ASSUME NEW r \in Rows, mark_failed(w, r) PROVE IInv'
      BY <2>4, RetryStep
    <2>5. ASSUME NEW r \in Rows, mark_dlq(w, r) PROVE IInv'
      BY <2>5, DeadLetterStep
    <2>6. CASE Commit(w)
      BY <2>6, CommitStep
    <2> QED
      BY <1>2, <2>1, <2>2, <2>3, <2>4, <2>5, <2>6 DEF Work
  <1>3. ASSUME NEW w \in Workers, Crash(w) PROVE IInv'
    BY <1>3, CrashStep
  <1>4. ASSUME NEW w \in Workers, Restart(w) PROVE IInv'
    BY <1>4, RestartStep
  <1>5. CASE UNCHANGED vars
    BY <1>5, StutterStep
  <1> QED
    BY <1>1, <1>2, <1>3, <1>4, <1>5 DEF Next

\* In every reachable state the table, the transactions and the topics account
\* for one another.
THEOREM Invariance == Spec => []IInv
  BY InvInit, InvNext, PTL DEF Spec

\* Types, the bound on retry_count, and no lock held by a dead worker.
THEOREM TypeCorrect == Spec => []TypeOK
  BY Invariance, PTL DEF IInv

\* No row is in two batches, and none in a batch is settled.
THEOREM ClaimsExclude == Spec => []ClaimedOnce
  BY Invariance, PTL DEF IInv

-----------------------------------------------------------------------------
\* Bounds.

\* Every row is accounted for by some image of it.
LEMMA SomeImage ==
    ASSUME IInv, NEW r \in Rows
    PROVE  \E i \in RowImages : Accounted(r, i)
  <1>1. CASE r \in Locked
    <2>1. PICK w \in Workers : r \in DOMAIN tx[w]
      BY <1>1, LockedRows
    <2> QED
      BY <2>1 DEF IInv, TypeOK, ClaimsInv, Claim
  <1>2. CASE r \notin Locked
    BY <1>2 DEF IInv, TypeOK, FreeInv
  <1> QED
    BY <1>1, <1>2

\* A message is copied at most once more for each crash and each repetition, and
\* a row tried once more for each crash.
LEMMA BoundsFromInv == IInv => CopiesBounded /\ AttemptsBounded
  <1> SUFFICES ASSUME IInv, NEW r \in Rows
               PROVE  /\ event_log_topic[r] <= 1 + crashes + repeats
                      /\ failures[r] <= MAX_RETRIES + 1 + crashes
    BY DEF CopiesBounded, AttemptsBounded
  <1>1. PICK i \in RowImages : Accounted(r, i)
    BY SomeImage
  <1>2. PICK n \in Nat, d \in 0 .. 1 : n = Tried(i) /\ d = Delivered(i)
    BY CountsType
  <1>3. n <= MAX_RETRIES + 1
    BY <1>1, <1>2, RelayAssumption, CountsType DEF Accounted, Tried
  <1>4. /\ event_log_topic[r] \in Nat /\ failures[r] \in Nat /\ crashes \in Nat
        /\ repeats \in Nat /\ MAX_RETRIES \in Nat
    BY RelayAssumption DEF IInv, TypeOK
  <1>5. failures[r] <= n + crashes /\ event_log_topic[r] <= d + crashes + repeats
    BY <1>1, <1>2 DEF Accounted
  <1> QED
    BY <1>3, <1>4, <1>5

\* However many workers share the table, a message is in its topic at most once
\* more than workers have died and producers have repeated.
THEOREM FewCopies == Spec => []CopiesBounded
  BY BoundsFromInv, Invariance, PTL

\* A row is tried at most MAX_RETRIES + 1 times, and once more for each crash.
THEOREM FewAttempts == Spec => []AttemptsBounded
  BY BoundsFromInv, Invariance, PTL

\* A row that is settled is in no batch, so its image is the row.
LEMMA LettersFromInv == IInv => DeadLettersBounded
  <1> SUFFICES ASSUME IInv, NEW r \in Rows
               PROVE  /\ dlq_topic[r] <= 1 + crashes + repeats
                      /\ outbox[r].status = "SENT" /\ crashes = 0 => dlq_topic[r] = 0
                      /\ outbox[r].status = "SENT" => dlq_topic[r] <= crashes + repeats
    BY DEF DeadLettersBounded
  <1>1. dlq_topic[r] \in Nat /\ crashes \in Nat /\ repeats \in Nat
    BY DEF IInv, TypeOK
  <1>2. dlq_topic[r] <= 1 + crashes + repeats
    <2>1. PICK i \in RowImages : Accounted(r, i)
      BY SomeImage
    <2>2. PICK a \in 0 .. 1 : a = Lettered(i)
      BY CountsType
    <2>3. dlq_topic[r] <= a + crashes + repeats
      BY <2>1, <2>2 DEF Accounted
    <2> QED
      BY <1>1, <2>2, <2>3
  <1>3. ASSUME outbox[r].status = "SENT"
        PROVE  dlq_topic[r] <= crashes + repeats /\ (crashes = 0 => dlq_topic[r] = 0)
    <2>1. r \notin Locked
      BY <1>3, LockedRows DEF IInv, ClaimedOnce
    <2>2. Accounted(r, outbox[r]) /\ Lettered(outbox[r]) = 0
      BY <1>3, <2>1 DEF IInv, FreeInv, Lettered
    <2> QED
      BY <1>1, <1>3, <2>2 DEF Accounted
  <1> QED
    BY <1>2, <1>3

\* The dead letter topic holds a second letter of a row only for a crash or a
\* repetition, and a letter of a row that was delivered only after a crash.
THEOREM FewLetters == Spec => []DeadLettersBounded
  BY LettersFromInv, Invariance, PTL

-----------------------------------------------------------------------------
\* The relay implements Delivery.

\* An empty table is one for Delivery.
LEMMA DeliveryInit == Init => D!Init
  BY DEF Init, D!Init

\* A commit settles only rows that have been delivered or are exhausted.
LEMMA CommitSettles ==
    ASSUME "lose" \notin Faults, IInv, NEW w \in Workers, Commit(w)
    PROVE  D!Settle
  <1>1. /\ outbox' = [r \in Rows |-> IF r \in DOMAIN tx[w] THEN tx[w][r]
                                                            ELSE outbox[r]]
        /\ UNCHANGED <<event_log_topic, failures>>
    BY DEF Commit, kafka
  <1>2. outbox' \in [Rows -> RowImages]
    BY <1>1 DEF IInv, TypeOK
  <1>3. ASSUME NEW r \in Rows
        PROVE  \/ outbox'[r].status = outbox[r].status
               \/ /\ outbox[r].status = "PENDING"
                  /\ \/ outbox'[r].status = "SENT" /\ event_log_topic[r] > 0
                     \/ outbox'[r].status = "DLQ" /\ failures[r] > MAX_RETRIES
    <2>1. CASE r \in DOMAIN tx[w]
      <3>1. /\ outbox'[r] = tx[w][r] /\ outbox[r].status = "PENDING"
            /\ tx[w][r] \in RowImages /\ tx[w][r].status # "ABSENT"
            /\ Accounted(r, tx[w][r])
        BY <1>1, <2>1 DEF IInv, TypeOK, ClaimedOnce, ClaimsInv, Claim
      <3>2. CASE tx[w][r].status = "SENT"
        BY <3>1, <3>2 DEF Accounted
      <3>3. CASE tx[w][r].status = "DLQ"
        BY <3>1, <3>3, RelayAssumption DEF Accounted, Tried, IInv, TypeOK
      <3>4. CASE tx[w][r].status = "PENDING"
        BY <3>1, <3>4
      <3> QED
        BY <3>1, <3>2, <3>3, <3>4 DEF RowImages
    <2>2. CASE r \notin DOMAIN tx[w]
      BY <1>1, <2>2
    <2> QED
      BY <2>1, <2>2
  <1>4. [r \in Rows |-> outbox'[r].status]
            \in [Rows -> {"ABSENT", "PENDING", "SENT", "DLQ"}]
    BY <1>2 DEF RowImages
  <1> QED
    BY <1>1, <1>3, <1>4 DEF D!Settle, D!MaySettle

\* Each step is one of Delivery's, or leaves statuses, copies and failures.
LEMMA DeliveryNext ==
    ASSUME "lose" \notin Faults, IInv, [Next]_vars PROVE [D!Next]_(D!vars)
  <1>1. ASSUME NEW r \in Rows, Insert(r) PROVE D!Record(r)
    BY <1>1 DEF Insert, kafka, D!Record, IInv, TypeOK, RowImages
  <1>2. ASSUME NEW w \in Workers, NEW r \in Rows, publish_to_kafka(w, r)
        PROVE  D!Deliver(r)
    <2>1. outbox[r].status = "PENDING"
      BY <1>2, AtRow DEF publish_to_kafka
    <2>2. PICK n \in {1, 2} : event_log_topic' = [event_log_topic EXCEPT ![r] = @ + n]
      BY <1>2, TopicAfter DEF publish_to_kafka, IInv, TypeOK
    <2> QED
      BY <1>2, <2>1, <2>2 DEF publish_to_kafka, Mark, D!Deliver
  <1>3. ASSUME NEW w \in Workers, NEW r \in Rows,
               mark_failed(w, r) \/ mark_dlq(w, r)
        PROVE  D!Fail(r)
    <2>1. Raises(w, r) /\ UNCHANGED <<outbox, event_log_topic>>
      BY <1>3 DEF mark_failed, mark_dlq, Mark, kafka
    <2>2. outbox[r].status = "PENDING"
      BY <2>1, AtRow DEF Raises
    <2> QED
      BY <2>1, <2>2 DEF Raises, D!Fail
  <1>4. ASSUME NEW w \in Workers, Commit(w) PROVE D!Settle
    BY <1>4, CommitSettles
  <1>5. ASSUME NEW w \in Workers,
               fetch_pending(w) \/ PollNothing(w) \/ Crash(w) \/ Restart(w)
        PROVE  UNCHANGED D!vars
    BY <1>5 DEF fetch_pending, PollNothing, Crash, Restart, kafka, vars, D!vars
  <1>6. CASE UNCHANGED vars
    BY <1>6 DEF vars, D!vars
  <1> QED
    BY <1>1, <1>2, <1>3, <1>4, <1>5, <1>6 DEF Next, Work, D!Next

\* As long as Kafka delivers what it accepts, the relay keeps the outbox's
\* promise: at least once, DLQ only after every retry, settled for good.
THEOREM Refinement ==
    ASSUME "lose" \notin Faults
    PROVE  Spec => ImplementsDelivery
  <1>1. Init => D!Init
    BY DeliveryInit
  <1>2. IInv /\ [Next]_vars => [D!Next]_(D!vars)
    BY DeliveryNext
  <1> QED
    BY <1>1, <1>2, Invariance, PTL DEF Spec, ImplementsDelivery, D!Spec
=============================================================================
