------------------------ MODULE ReferralPayout_proofs ------------------------
(***************************************************************************)
(* Proofs about ReferralPayout, for any sets of partners, requests,        *)
(* senders and markers and any bounds.                                     *)
(***************************************************************************)
EXTENDS ReferralPayout, FiniteSetTheorems, TLAPS

USE PayoutConstants, NothingIsNoName DEF NoRef, Nothing, Sendable, Active, Final,
    Status, SenderPc, MarkerPc, CanSetStatus, CanStart, Covers, CanClaim,
    BalanceStill, DebitMissed, CanClose, BookingMissed

\* Type correctness together with what running calls know of the rows.
TypedInv == TypeOK /\ LocalsOK

LEMMA TypedInit == Init => TypedInv
  BY DEF Init, TypedInv, TypeOK, RowsTyped, SendersTyped, MarkersTyped,
     ChainTyped, HistoryTyped, LocalsOK, SenderLocal, MarkerLocal

LEMMA TypedStep == TypedInv /\ [Next]_vars => TypedInv'
<1> SUFFICES ASSUME RowsTyped, SendersTyped, MarkersTyped, ChainTyped,
                    HistoryTyped, LocalsOK, [Next]_vars
             PROVE  TypedInv'
  BY DEF TypedInv, TypeOK
<1>1. ASSUME NEW p \in Partners, ApplyReward(p)
      PROVE  TypedInv'
  <2>1. RowsTyped'
    BY <1>1 DEF ApplyReward, rowVars, RowsTyped
  <2>2. SendersTyped' /\ MarkersTyped' /\ ChainTyped' /\ HistoryTyped'
    BY <1>1 DEF ApplyReward, senderVars, markerVars, chainVars, history, SendersTyped, MarkersTyped, ChainTyped, HistoryTyped
  <2>3. \A v \in Senders : SenderLocal(v)'
    BY <1>1 DEF ApplyReward, rowVars, senderVars, RowsTyped, SendersTyped, LocalsOK, SenderLocal
  <2>4. \A b \in Markers : MarkerLocal(b)'
    BY <1>1 DEF ApplyReward, RowsTyped, markerVars, MarkersTyped, LocalsOK, MarkerLocal
  <2>5. QED
    BY <2>1, <2>2, <2>3, <2>4 DEF TypedInv, TypeOK, LocalsOK
<1>2. ASSUME NEW p \in Partners, AskForPayout(p)
      PROVE  TypedInv'
  <2>1. RowsTyped'
    BY <1>2 DEF AskForPayout, rowVars, RowsTyped, SendersTyped, MarkersTyped, ChainTyped, HistoryTyped
  <2>2. SendersTyped' /\ MarkersTyped' /\ ChainTyped' /\ HistoryTyped'
    BY <1>2 DEF AskForPayout, senderVars, markerVars, chainVars, history, SendersTyped, MarkersTyped, ChainTyped, HistoryTyped
  <2>3. \A v \in Senders : SenderLocal(v)'
    BY <1>2 DEF AskForPayout, rowVars, senderVars, RowsTyped, SendersTyped, LocalsOK, SenderLocal
  <2>4. \A b \in Markers : MarkerLocal(b)'
    BY <1>2 DEF AskForPayout, RowsTyped, markerVars, MarkersTyped, LocalsOK, MarkerLocal
  <2>5. QED
    BY <2>1, <2>2, <2>3, <2>4 DEF TypedInv, TypeOK, LocalsOK
<1>3. ASSUME NEW p \in Partners, InsertRequest(p)
      PROVE  TypedInv'
  <2>1. RowsTyped'
    <3>1. asking' \in [Partners -> Nat]
      BY <1>3 DEF InsertRequest, RowsTyped
    <3>2. UNCHANGED <<balance, earned, ref, confirmed, journal>>
      BY <1>3 DEF InsertRequest
    <3>3. status' \in [Requests -> Status] /\ amount' \in [Requests -> Nat]
      <4>1. CASE UNCHANGED <<status, amount>>
        BY <4>1 DEF RowsTyped
      <4>2. CASE \E r \in Requests :
                   /\ status' = [status EXCEPT ![r] = "requested"]
                   /\ amount' = [amount EXCEPT ![r] = asking[p]]
        BY <4>2 DEF RowsTyped, Status, Active
      <4>3. QED
        BY <1>3, <4>1, <4>2 DEF InsertRequest
    <3>4. QED
      BY <3>1, <3>2, <3>3 DEF RowsTyped
  <2>2. SendersTyped' /\ MarkersTyped' /\ ChainTyped' /\ HistoryTyped'
    BY <1>3 DEF InsertRequest, senderVars, markerVars, chainVars, history, SendersTyped, MarkersTyped, ChainTyped, HistoryTyped
  <2>3. \A v \in Senders : SenderLocal(v)'
    BY <1>3 DEF InsertRequest, HasActive, rowVars, senderVars, RowsTyped, SendersTyped, LocalsOK, SenderLocal
  <2>4. \A b \in Markers : MarkerLocal(b)'
    BY <1>3 DEF InsertRequest, HasActive, RowsTyped, markerVars, MarkersTyped, LocalsOK, MarkerLocal
  <2>5. QED
    BY <2>1, <2>2, <2>3, <2>4 DEF TypedInv, TypeOK, LocalsOK
<1>4. ASSUME NEW r \in Requests, NEW s \in AdminTargets, SetStatus(r, s)
      PROVE  TypedInv'
  <2>1. RowsTyped'
    BY <1>4 DEF SetStatus, Reopening, AdminTargets, rowVars, RowsTyped, SendersTyped, MarkersTyped, ChainTyped, HistoryTyped
  <2>2. HistoryTyped'
    BY <1>4 DEF SetStatus, Reopening, AdminTargets, history, RowsTyped, SendersTyped, MarkersTyped, ChainTyped, HistoryTyped
  <2>3. SendersTyped' /\ MarkersTyped' /\ ChainTyped'
    BY <1>4 DEF SetStatus, senderVars, markerVars, chainVars, SendersTyped, MarkersTyped, ChainTyped
  <2>4. \A v \in Senders : SenderLocal(v)'
    BY <1>4 DEF SetStatus, Reopening, AdminTargets, rowVars, senderVars, RowsTyped, SendersTyped, LocalsOK, SenderLocal
  <2>5. \A b \in Markers : MarkerLocal(b)'
    BY <1>4 DEF SetStatus, Reopening, AdminTargets, RowsTyped, markerVars, MarkersTyped, LocalsOK, MarkerLocal
  <2>6. QED
    BY <2>1, <2>2, <2>3, <2>4, <2>5 DEF TypedInv, TypeOK, LocalsOK
<1>5. ASSUME NEW w \in Senders, NEW r \in Requests, SendStart(w, r)
      PROVE  TypedInv'
  <2>1. SendersTyped'
    BY <1>5 DEF SendStart, senderVars, RowsTyped, SendersTyped, MarkersTyped, ChainTyped, HistoryTyped
  <2>2. RowsTyped' /\ MarkersTyped' /\ ChainTyped' /\ HistoryTyped'
    BY <1>5 DEF SendStart, rowVars, markerVars, chainVars, history, RowsTyped, MarkersTyped, ChainTyped, HistoryTyped
  <2>3. \A v \in Senders : SenderLocal(v)'
    BY <1>5 DEF SendStart, rowVars, RowsTyped, SendersTyped, LocalsOK, SenderLocal
  <2>4. \A b \in Markers : MarkerLocal(b)'
    BY <1>5 DEF SendStart, RowsTyped, markerVars, MarkersTyped, LocalsOK, MarkerLocal
  <2>5. QED
    BY <2>1, <2>2, <2>3, <2>4 DEF TypedInv, TypeOK, LocalsOK
<1>6. ASSUME NEW w \in Senders, SendReadProfile(w)
      PROVE  TypedInv'
  <2>1. sReq[w] \in Requests /\ PartnerOf[sReq[w]] \in Partners /\ status[sReq[w]] # "none"
    BY <1>6 DEF SendReadProfile, LocalsOK, SenderLocal
  <2>2. SendersTyped'
    <3>1. CASE SenderStops(w)
      BY <1>6, <2>1, <3>1 DEF SendReadProfile, SenderStops, SenderGoes, senderVars, RowsTyped, SendersTyped, MarkersTyped, HistoryTyped
    <3>2. CASE SenderGoes(w, "claim") /\ sBal' = [sBal EXCEPT ![w] = balance[PartnerOf[sReq[w]]]] /\ UNCHANGED sSeq
      BY <1>6, <2>1, <3>2 DEF SendReadProfile, SenderStops, SenderGoes, senderVars, RowsTyped, SendersTyped, MarkersTyped, HistoryTyped
    <3>3. QED
      BY <1>6, <2>1, <3>1, <3>2 DEF SendReadProfile
  <2>3. RowsTyped' /\ MarkersTyped' /\ ChainTyped' /\ HistoryTyped'
    BY <1>6 DEF SendReadProfile, rowVars, markerVars, chainVars, history, RowsTyped, MarkersTyped, ChainTyped, HistoryTyped
  <2>4. \A v \in Senders : SenderLocal(v)'
    BY <1>6, <2>1 DEF SendReadProfile, SenderStops, SenderGoes, rowVars, RowsTyped, SendersTyped, LocalsOK, SenderLocal
  <2>5. \A b \in Markers : MarkerLocal(b)'
    BY <1>6, <2>1 DEF SendReadProfile, SenderStops, SenderGoes, RowsTyped, markerVars, MarkersTyped, LocalsOK, MarkerLocal
  <2>6. QED
    BY <2>1, <2>2, <2>3, <2>4, <2>5 DEF TypedInv, TypeOK, LocalsOK
<1>7. ASSUME NEW w \in Senders, SendClaim(w)
      PROVE  TypedInv'
  <2>1. sReq[w] \in Requests /\ PartnerOf[sReq[w]] \in Partners /\ status[sReq[w]] # "none" /\ amount[sReq[w]] <= sBal[w]
    BY <1>7 DEF SendClaim, LocalsOK, SenderLocal
  <2>2. RowsTyped'
    <3>1. CASE UNCHANGED status
      BY <1>7, <2>1, <3>1 DEF SendClaim, rowVars, RowsTyped, SendersTyped, MarkersTyped, HistoryTyped
    <3>2. CASE status' = [status EXCEPT ![sReq[w]] = "sending"]
      BY <1>7, <2>1, <3>2 DEF SendClaim, rowVars, RowsTyped, SendersTyped, MarkersTyped, HistoryTyped
    <3>3. QED
      BY <1>7, <2>1, <3>1, <3>2 DEF SendClaim
  <2>3. SendersTyped'
    <3>1. CASE SenderStops(w)
      BY <1>7, <2>1, <3>1 DEF SendClaim, SenderStops, SenderGoes, senderVars, RowsTyped, SendersTyped, MarkersTyped, HistoryTyped
    <3>2. CASE SenderGoes(w, "seqno") /\ UNCHANGED sBal /\ UNCHANGED sSeq
      BY <1>7, <2>1, <3>2 DEF SendClaim, SenderStops, SenderGoes, senderVars, RowsTyped, SendersTyped, MarkersTyped, HistoryTyped
    <3>3. QED
      BY <1>7, <2>1, <3>1, <3>2 DEF SendClaim
  <2>4. HistoryTyped'
    BY <1>7, <2>1 DEF SendClaim, SenderStops, SenderGoes, history, RowsTyped, SendersTyped, MarkersTyped, ChainTyped, HistoryTyped
  <2>5. MarkersTyped' /\ ChainTyped'
    BY <1>7 DEF SendClaim, markerVars, chainVars, MarkersTyped, ChainTyped
  <2>6. \A v \in Senders : SenderLocal(v)'
    BY <1>7, <2>1 DEF SendClaim, SenderStops, SenderGoes, rowVars, RowsTyped, SendersTyped, LocalsOK, SenderLocal
  <2>7. \A b \in Markers : MarkerLocal(b)'
    BY <1>7, <2>1 DEF SendClaim, SenderStops, SenderGoes, RowsTyped, markerVars, MarkersTyped, LocalsOK, MarkerLocal
  <2>8. QED
    BY <2>1, <2>2, <2>3, <2>4, <2>5, <2>6, <2>7 DEF TypedInv, TypeOK, LocalsOK
<1>8. ASSUME NEW w \in Senders, SendReadSeqno(w)
      PROVE  TypedInv'
  <2>1. sReq[w] \in Requests /\ PartnerOf[sReq[w]] \in Partners /\ status[sReq[w]] # "none" /\ amount[sReq[w]] <= sBal[w]
    BY <1>8 DEF SendReadSeqno, LocalsOK, SenderLocal
  <2>2. SendersTyped'
    BY <1>8, <2>1 DEF SendReadSeqno, SenderGoes, senderVars, RowsTyped, SendersTyped, MarkersTyped, ChainTyped, HistoryTyped
  <2>3. RowsTyped' /\ MarkersTyped' /\ ChainTyped' /\ HistoryTyped'
    BY <1>8 DEF SendReadSeqno, rowVars, markerVars, chainVars, history, RowsTyped, MarkersTyped, ChainTyped, HistoryTyped
  <2>4. \A v \in Senders : SenderLocal(v)'
    BY <1>8, <2>1 DEF SendReadSeqno, SenderGoes, rowVars, RowsTyped, SendersTyped, LocalsOK, SenderLocal
  <2>5. \A b \in Markers : MarkerLocal(b)'
    BY <1>8, <2>1 DEF SendReadSeqno, SenderGoes, RowsTyped, markerVars, MarkersTyped, LocalsOK, MarkerLocal
  <2>6. QED
    BY <2>1, <2>2, <2>3, <2>4, <2>5 DEF TypedInv, TypeOK, LocalsOK
<1>9. ASSUME NEW w \in Senders, SendBroadcast(w)
      PROVE  TypedInv'
  <2>1. sReq[w] \in Requests /\ PartnerOf[sReq[w]] \in Partners /\ status[sReq[w]] # "none" /\ amount[sReq[w]] <= sBal[w]
    BY <1>9 DEF SendBroadcast, LocalsOK, SenderLocal
  <2>2. SendersTyped'
    <3>1. CASE SenderStops(w)
      BY <1>9, <2>1, <3>1 DEF SendBroadcast, SenderStops, SenderGoes, senderVars, RowsTyped, SendersTyped, MarkersTyped, HistoryTyped
    <3>2. CASE SenderGoes(w, "debit") /\ UNCHANGED sBal /\ UNCHANGED sSeq
      BY <1>9, <2>1, <3>2 DEF SendBroadcast, SenderStops, SenderGoes, senderVars, RowsTyped, SendersTyped, MarkersTyped, HistoryTyped
    <3>3. QED
      BY <1>9, <2>1, <3>1, <3>2 DEF SendBroadcast
  <2>3. ChainTyped'
    BY <1>9, <2>1 DEF SendBroadcast, SenderStops, SenderGoes, chainVars, RowsTyped, SendersTyped, MarkersTyped, ChainTyped, HistoryTyped
  <2>4. RowsTyped' /\ MarkersTyped' /\ HistoryTyped'
    BY <1>9 DEF SendBroadcast, rowVars, markerVars, history, RowsTyped, MarkersTyped, HistoryTyped
  <2>5. \A v \in Senders : SenderLocal(v)'
    BY <1>9, <2>1 DEF SendBroadcast, SenderStops, SenderGoes, rowVars, RowsTyped, SendersTyped, LocalsOK, SenderLocal
  <2>6. \A b \in Markers : MarkerLocal(b)'
    BY <1>9, <2>1 DEF SendBroadcast, SenderStops, SenderGoes, RowsTyped, markerVars, MarkersTyped, LocalsOK, MarkerLocal
  <2>7. QED
    BY <2>1, <2>2, <2>3, <2>4, <2>5, <2>6 DEF TypedInv, TypeOK, LocalsOK
<1>10. ASSUME NEW w \in Senders, SendDebit(w)
      PROVE  TypedInv'
  <2>1. sReq[w] \in Requests /\ PartnerOf[sReq[w]] \in Partners /\ status[sReq[w]] # "none" /\ amount[sReq[w]] <= sBal[w]
    BY <1>10 DEF SendDebit, LocalsOK, SenderLocal
  <2>2. RowsTyped'
    <3>1. CASE UNCHANGED balance
      BY <1>10, <2>1, <3>1 DEF SendDebit, rowVars, RowsTyped, SendersTyped, MarkersTyped, HistoryTyped
    <3>2. CASE balance' = [balance EXCEPT ![PartnerOf[sReq[w]]] = sBal[w] - amount[sReq[w]]]
      BY <1>10, <2>1, <3>2 DEF SendDebit, rowVars, RowsTyped, SendersTyped, MarkersTyped, HistoryTyped
    <3>3. QED
      BY <1>10, <2>1, <3>1, <3>2 DEF SendDebit
  <2>3. SendersTyped'
    <3>1. CASE SenderStops(w)
      BY <1>10, <2>1, <3>1 DEF SendDebit, SenderStops, SenderGoes, senderVars, RowsTyped, SendersTyped, MarkersTyped, HistoryTyped
    <3>2. CASE SenderGoes(w, "close") /\ UNCHANGED sBal /\ UNCHANGED sSeq
      BY <1>10, <2>1, <3>2 DEF SendDebit, SenderStops, SenderGoes, senderVars, RowsTyped, SendersTyped, MarkersTyped, HistoryTyped
    <3>3. QED
      BY <1>10, <2>1, <3>1, <3>2 DEF SendDebit
  <2>4. HistoryTyped'
    <3>1. CASE UNCHANGED <<paidOut, debits>>
      BY <1>10, <2>1, <3>1 DEF SendDebit, history, RowsTyped, SendersTyped, MarkersTyped, HistoryTyped
    <3>2. CASE /\ paidOut' = [paidOut EXCEPT ![PartnerOf[sReq[w]]] = @ + amount[sReq[w]]]
                /\ debits' = [debits EXCEPT ![sReq[w]] = @ + 1]
      BY <1>10, <2>1, <3>2 DEF SendDebit, history, RowsTyped, SendersTyped, MarkersTyped, HistoryTyped
    <3>3. QED
      BY <1>10, <2>1, <3>1, <3>2 DEF SendDebit
  <2>5. MarkersTyped' /\ ChainTyped'
    BY <1>10 DEF SendDebit, markerVars, chainVars, MarkersTyped, ChainTyped
  <2>6. \A v \in Senders : SenderLocal(v)'
    BY <1>10, <2>1 DEF SendDebit, SenderStops, SenderGoes, rowVars, RowsTyped, SendersTyped, LocalsOK, SenderLocal
  <2>7. \A b \in Markers : MarkerLocal(b)'
    BY <1>10, <2>1 DEF SendDebit, SenderStops, SenderGoes, RowsTyped, markerVars, MarkersTyped, LocalsOK, MarkerLocal
  <2>8. QED
    BY <2>1, <2>2, <2>3, <2>4, <2>5, <2>6, <2>7 DEF TypedInv, TypeOK, LocalsOK
<1>11. ASSUME NEW w \in Senders, SendClose(w)
      PROVE  TypedInv'
  <2>1. sReq[w] \in Requests /\ PartnerOf[sReq[w]] \in Partners /\ status[sReq[w]] # "none"
    BY <1>11 DEF SendClose, LocalsOK, SenderLocal
  <2>2. RowsTyped'
    <3>1. CASE UNCHANGED <<status, ref>>
      BY <1>11, <2>1, <3>1 DEF SendClose, rowVars, RowsTyped, SendersTyped, MarkersTyped, HistoryTyped
    <3>2. CASE /\ status' = [status EXCEPT ![sReq[w]] = "sent"]
                /\ ref' = [ref EXCEPT ![sReq[w]] = sSeq[w]]
      BY <1>11, <2>1, <3>2 DEF SendClose, rowVars, RowsTyped, SendersTyped, MarkersTyped, HistoryTyped
    <3>3. QED
      BY <1>11, <2>1, <3>1, <3>2 DEF SendClose
  <2>3. SendersTyped'
    <3>1. CASE SenderStops(w)
      BY <1>11, <2>1, <3>1 DEF SendClose, SenderStops, SenderGoes, senderVars, RowsTyped, SendersTyped, MarkersTyped, HistoryTyped
    <3>2. CASE SenderGoes(w, "journal") /\ UNCHANGED sBal /\ UNCHANGED sSeq
      BY <1>11, <2>1, <3>2 DEF SendClose, SenderStops, SenderGoes, senderVars, RowsTyped, SendersTyped, MarkersTyped, HistoryTyped
    <3>3. QED
      BY <1>11, <2>1, <3>1, <3>2 DEF SendClose
  <2>4. MarkersTyped' /\ ChainTyped' /\ HistoryTyped'
    BY <1>11 DEF SendClose, markerVars, chainVars, history, MarkersTyped, ChainTyped, HistoryTyped
  <2>5. \A v \in Senders : SenderLocal(v)'
    BY <1>11, <2>1 DEF SendClose, SenderStops, SenderGoes, rowVars, RowsTyped, SendersTyped, LocalsOK, SenderLocal
  <2>6. \A b \in Markers : MarkerLocal(b)'
    BY <1>11, <2>1 DEF SendClose, SenderStops, SenderGoes, RowsTyped, markerVars, MarkersTyped, LocalsOK, MarkerLocal
  <2>7. QED
    BY <2>1, <2>2, <2>3, <2>4, <2>5, <2>6 DEF TypedInv, TypeOK, LocalsOK
<1>12. ASSUME NEW w \in Senders, SendJournal(w)
      PROVE  TypedInv'
  <2>1. sReq[w] \in Requests /\ PartnerOf[sReq[w]] \in Partners /\ status[sReq[w]] # "none"
    BY <1>12 DEF SendJournal, LocalsOK, SenderLocal
  <2>2. RowsTyped'
    <3>1. CASE UNCHANGED journal
      BY <1>12, <2>1, <3>1 DEF SendJournal, rowVars, RowsTyped, SendersTyped, MarkersTyped, HistoryTyped
    <3>2. CASE journal' = [journal EXCEPT ![sReq[w]] = @ + 1]
      BY <1>12, <2>1, <3>2 DEF SendJournal, rowVars, RowsTyped, SendersTyped, MarkersTyped, HistoryTyped
    <3>3. QED
      BY <1>12, <2>1, <3>1, <3>2 DEF SendJournal
  <2>3. SendersTyped'
    BY <1>12, <2>1 DEF SendJournal, SenderStops, senderVars, RowsTyped, SendersTyped, MarkersTyped, ChainTyped, HistoryTyped
  <2>4. MarkersTyped' /\ ChainTyped' /\ HistoryTyped'
    BY <1>12 DEF SendJournal, markerVars, chainVars, history, MarkersTyped, ChainTyped, HistoryTyped
  <2>5. \A v \in Senders : SenderLocal(v)'
    BY <1>12, <2>1 DEF SendJournal, SenderStops, rowVars, RowsTyped, SendersTyped, LocalsOK, SenderLocal
  <2>6. \A b \in Markers : MarkerLocal(b)'
    BY <1>12, <2>1 DEF SendJournal, SenderStops, RowsTyped, markerVars, MarkersTyped, LocalsOK, MarkerLocal
  <2>7. QED
    BY <2>1, <2>2, <2>3, <2>4, <2>5, <2>6 DEF TypedInv, TypeOK, LocalsOK
<1>13. ASSUME NEW w \in Senders, SendAbort(w)
      PROVE  TypedInv'
  <2>1. sReq[w] \in Requests /\ PartnerOf[sReq[w]] \in Partners /\ status[sReq[w]] # "none"
    BY <1>13 DEF SendAbort, LocalsOK, SenderLocal
  <2>2. SendersTyped'
    BY <1>13, <2>1 DEF SendAbort, SenderStops, senderVars, RowsTyped, SendersTyped, MarkersTyped, ChainTyped, HistoryTyped
  <2>3. RowsTyped' /\ MarkersTyped' /\ ChainTyped' /\ HistoryTyped'
    BY <1>13 DEF SendAbort, rowVars, markerVars, chainVars, history, RowsTyped, MarkersTyped, ChainTyped, HistoryTyped
  <2>4. \A v \in Senders : SenderLocal(v)'
    BY <1>13, <2>1 DEF SendAbort, SenderStops, rowVars, RowsTyped, SendersTyped, LocalsOK, SenderLocal
  <2>5. \A b \in Markers : MarkerLocal(b)'
    BY <1>13, <2>1 DEF SendAbort, SenderStops, RowsTyped, markerVars, MarkersTyped, LocalsOK, MarkerLocal
  <2>6. QED
    BY <2>1, <2>2, <2>3, <2>4, <2>5 DEF TypedInv, TypeOK, LocalsOK
<1>14. ASSUME NEW a \in Markers, NEW p \in Partners, MarkStart(a, p)
      PROVE  TypedInv'
  <2>1. MarkersTyped'
    BY <1>14 DEF MarkStart, markerVars, RowsTyped, SendersTyped, MarkersTyped, ChainTyped, HistoryTyped
  <2>2. RowsTyped' /\ SendersTyped' /\ ChainTyped' /\ HistoryTyped'
    BY <1>14 DEF MarkStart, rowVars, senderVars, chainVars, history, RowsTyped, SendersTyped, ChainTyped, HistoryTyped
  <2>3. \A v \in Senders : SenderLocal(v)'
    BY <1>14 DEF MarkStart, rowVars, senderVars, RowsTyped, SendersTyped, LocalsOK, SenderLocal
  <2>4. \A b \in Markers : MarkerLocal(b)'
    BY <1>14 DEF MarkStart, RowsTyped, MarkersTyped, LocalsOK, MarkerLocal
  <2>5. QED
    BY <2>1, <2>2, <2>3, <2>4 DEF TypedInv, TypeOK, LocalsOK
<1>15. ASSUME NEW a \in Markers, MarkReadRequest(a)
      PROVE  TypedInv'
  <2>1. mWho[a] \in Partners /\ MarkerLocal(a)
    BY <1>15 DEF MarkReadRequest, LocalsOK, MarkerLocal
  <2>2. MarkersTyped'
    <3>1. CASE \E r \in Requests :
                /\ status[r] \in Active
                /\ mPc'  = [mPc EXCEPT ![a] = "debit"]
                /\ mReq' = [mReq EXCEPT ![a] = r]
                /\ mAmt' = [mAmt EXCEPT ![a] = amount[r]]
                /\ mWas' = [mWas EXCEPT ![a] = status[r]]
                /\ UNCHANGED <<mWho, mBal>>
      BY <1>15, <2>1, <3>1 DEF MarkReadRequest, markerVars, RowsTyped, SendersTyped, MarkersTyped, HistoryTyped
    <3>2. CASE \E n \in 1..mBal[a] :
                /\ mPc'  = [mPc EXCEPT ![a] = "debit"]
                /\ mAmt' = [mAmt EXCEPT ![a] = n]
                /\ UNCHANGED <<mWho, mBal, mReq, mWas>>
      BY <1>15, <2>1, <3>2 DEF MarkReadRequest, markerVars, RowsTyped, SendersTyped, MarkersTyped, HistoryTyped
    <3>3. QED
      BY <1>15, <2>1, <3>1, <3>2 DEF MarkReadRequest, MarkerLocal
  <2>3. RowsTyped' /\ SendersTyped' /\ ChainTyped' /\ HistoryTyped'
    BY <1>15 DEF MarkReadRequest, rowVars, senderVars, chainVars, history, RowsTyped, SendersTyped, ChainTyped, HistoryTyped
  <2>4. \A v \in Senders : SenderLocal(v)'
    BY <1>15, <2>1 DEF MarkReadRequest, HasActive, rowVars, senderVars, RowsTyped, SendersTyped, LocalsOK, SenderLocal
  <2>5. \A b \in Markers : MarkerLocal(b)'
    BY <1>15, <2>1 DEF MarkReadRequest, HasActive, RowsTyped, MarkersTyped, LocalsOK, MarkerLocal
  <2>6. QED
    BY <2>1, <2>2, <2>3, <2>4, <2>5 DEF TypedInv, TypeOK, LocalsOK
<1>16. ASSUME NEW a \in Markers, MarkDebit(a)
      PROVE  TypedInv'
  <2>1. mWho[a] \in Partners /\ MarkerLocal(a)
    BY <1>16 DEF MarkDebit, LocalsOK, MarkerLocal
  <2>2. RowsTyped'
    <3>1. CASE UNCHANGED balance
      BY <1>16, <2>1, <3>1 DEF MarkDebit, rowVars, RowsTyped, SendersTyped, MarkersTyped, HistoryTyped, MarkerLocal
    <3>2. CASE balance' = [balance EXCEPT ![mWho[a]] = mBal[a] - mAmt[a]]
      BY <1>16, <2>1, <3>2 DEF MarkDebit, rowVars, RowsTyped, SendersTyped, MarkersTyped, HistoryTyped, MarkerLocal
    <3>3. QED
      BY <1>16, <2>1, <3>1, <3>2 DEF MarkDebit, MarkerLocal
  <2>3. MarkersTyped'
    <3>1. CASE MarkerStops(a)
      BY <1>16, <2>1, <3>1 DEF MarkDebit, MarkerStops, MarkerGoes, markerVars, RowsTyped, SendersTyped, MarkersTyped, HistoryTyped
    <3>2. CASE MarkerGoes(a, "journal")
      BY <1>16, <2>1, <3>2 DEF MarkDebit, MarkerStops, MarkerGoes, markerVars, RowsTyped, SendersTyped, MarkersTyped, HistoryTyped
    <3>3. CASE MarkerGoes(a, "close")
      BY <1>16, <2>1, <3>3 DEF MarkDebit, MarkerStops, MarkerGoes, markerVars, RowsTyped, SendersTyped, MarkersTyped, HistoryTyped
    <3>4. QED
      BY <1>16, <2>1, <3>1, <3>2, <3>3 DEF MarkDebit, MarkerLocal
  <2>4. HistoryTyped'
    <3>1. CASE UNCHANGED <<paidOut, debits>>
      BY <1>16, <2>1, <3>1 DEF MarkDebit, history, RowsTyped, SendersTyped, MarkersTyped, HistoryTyped
    <3>2. CASE MarkerBooks(a, 1) /\ mReq[a] = Nothing
      BY <1>16, <2>1, <3>2 DEF MarkDebit, MarkerBooks, history, RowsTyped, SendersTyped, MarkersTyped, HistoryTyped
    <3>3. CASE MarkerBooks(a, 1) /\ mReq[a] # Nothing
      BY <1>16, <2>1, <3>3 DEF MarkDebit, MarkerBooks, history, RowsTyped, SendersTyped, MarkersTyped, HistoryTyped
    <3>4. QED
      BY <1>16, <2>1, <3>1, <3>2, <3>3 DEF MarkDebit, MarkerLocal
  <2>5. SendersTyped' /\ ChainTyped'
    BY <1>16 DEF MarkDebit, senderVars, chainVars, SendersTyped, ChainTyped
  <2>6. \A v \in Senders : SenderLocal(v)'
    BY <1>16, <2>1 DEF MarkDebit, MarkerStops, MarkerGoes, MarkerBooks, rowVars, senderVars, RowsTyped, SendersTyped, LocalsOK, SenderLocal
  <2>7. \A b \in Markers : MarkerLocal(b)'
    BY <1>16, <2>1 DEF MarkDebit, MarkerStops, MarkerGoes, MarkerBooks, RowsTyped, MarkersTyped, LocalsOK, MarkerLocal
  <2>8. QED
    BY <2>1, <2>2, <2>3, <2>4, <2>5, <2>6, <2>7 DEF TypedInv, TypeOK, LocalsOK
<1>17. ASSUME NEW a \in Markers, MarkClose(a)
      PROVE  TypedInv'
  <2>1. mWho[a] \in Partners /\ MarkerLocal(a)
    BY <1>17 DEF MarkClose, LocalsOK, MarkerLocal
  <2>2. RowsTyped'
    <3>1. CASE UNCHANGED status
      BY <1>17, <2>1, <3>1 DEF MarkClose, rowVars, RowsTyped, SendersTyped, MarkersTyped, HistoryTyped, MarkerLocal
    <3>2. CASE mReq[a] # Nothing /\ status' = [status EXCEPT ![mReq[a]] = "sent"]
      BY <1>17, <2>1, <3>2 DEF MarkClose, rowVars, RowsTyped, SendersTyped, MarkersTyped, HistoryTyped, MarkerLocal
    <3>3. QED
      BY <1>17, <2>1, <3>1, <3>2 DEF MarkClose, MarkerLocal
  <2>3. MarkersTyped'
    <3>1. CASE MarkerGoes(a, "journal")
      BY <1>17, <2>1, <3>1 DEF MarkClose, MarkerGoes, markerVars, RowsTyped, SendersTyped, MarkersTyped, HistoryTyped
    <3>2. CASE MarkerGoes(a, "undoBalance")
      BY <1>17, <2>1, <3>2 DEF MarkClose, MarkerGoes, markerVars, RowsTyped, SendersTyped, MarkersTyped, HistoryTyped
    <3>3. QED
      BY <1>17, <2>1, <3>1, <3>2 DEF MarkClose, MarkerLocal
  <2>4. SendersTyped' /\ ChainTyped' /\ HistoryTyped'
    BY <1>17 DEF MarkClose, senderVars, chainVars, history, SendersTyped, ChainTyped, HistoryTyped
  <2>5. \A v \in Senders : SenderLocal(v)'
    BY <1>17, <2>1 DEF MarkClose, MarkerGoes, rowVars, senderVars, RowsTyped, SendersTyped, LocalsOK, SenderLocal
  <2>6. \A b \in Markers : MarkerLocal(b)'
    BY <1>17, <2>1 DEF MarkClose, MarkerGoes, RowsTyped, MarkersTyped, LocalsOK, MarkerLocal
  <2>7. QED
    BY <2>1, <2>2, <2>3, <2>4, <2>5, <2>6 DEF TypedInv, TypeOK, LocalsOK
<1>18. ASSUME NEW a \in Markers, MarkJournal(a)
      PROVE  TypedInv'
  <2>1. mWho[a] \in Partners /\ MarkerLocal(a)
    BY <1>18 DEF MarkJournal, LocalsOK, MarkerLocal
  <2>2. RowsTyped'
    <3>1. CASE UNCHANGED journal
      BY <1>18, <2>1, <3>1 DEF MarkJournal, rowVars, RowsTyped, SendersTyped, MarkersTyped, HistoryTyped, MarkerLocal
    <3>2. CASE mReq[a] # Nothing /\ journal' = [journal EXCEPT ![mReq[a]] = @ + 1]
      BY <1>18, <2>1, <3>2 DEF MarkJournal, rowVars, RowsTyped, SendersTyped, MarkersTyped, HistoryTyped, MarkerLocal
    <3>3. QED
      BY <1>18, <2>1, <3>1, <3>2 DEF MarkJournal, MarkerLocal
  <2>3. MarkersTyped'
    <3>1. CASE MarkerStops(a)
      BY <1>18, <2>1, <3>1 DEF MarkJournal, MarkerStops, MarkerGoes, markerVars, RowsTyped, SendersTyped, MarkersTyped, HistoryTyped
    <3>2. CASE MarkerGoes(a, "undoBalance")
      BY <1>18, <2>1, <3>2 DEF MarkJournal, MarkerStops, MarkerGoes, markerVars, RowsTyped, SendersTyped, MarkersTyped, HistoryTyped
    <3>3. CASE MarkerGoes(a, "undoBoth")
      BY <1>18, <2>1, <3>3 DEF MarkJournal, MarkerStops, MarkerGoes, markerVars, RowsTyped, SendersTyped, MarkersTyped, HistoryTyped
    <3>4. QED
      BY <1>18, <2>1, <3>1, <3>2, <3>3 DEF MarkJournal, MarkerLocal
  <2>4. HistoryTyped'
    BY <1>18, <2>1 DEF MarkJournal, MarkerStops, MarkerGoes, history, RowsTyped, SendersTyped, MarkersTyped, ChainTyped, HistoryTyped, MarkerLocal
  <2>5. SendersTyped' /\ ChainTyped'
    BY <1>18 DEF MarkJournal, senderVars, chainVars, SendersTyped, ChainTyped
  <2>6. \A v \in Senders : SenderLocal(v)'
    BY <1>18, <2>1 DEF MarkJournal, MarkerStops, MarkerGoes, rowVars, senderVars, RowsTyped, SendersTyped, LocalsOK, SenderLocal
  <2>7. \A b \in Markers : MarkerLocal(b)'
    BY <1>18, <2>1 DEF MarkJournal, MarkerStops, MarkerGoes, RowsTyped, MarkersTyped, LocalsOK, MarkerLocal
  <2>8. QED
    BY <2>1, <2>2, <2>3, <2>4, <2>5, <2>6, <2>7 DEF TypedInv, TypeOK, LocalsOK
<1>19. ASSUME NEW a \in Markers, MarkUndoBalance(a)
      PROVE  TypedInv'
  <2>1. mWho[a] \in Partners /\ MarkerLocal(a)
    BY <1>19 DEF MarkUndoBalance, LocalsOK, MarkerLocal
  <2>2. RowsTyped'
    <3>1. CASE UNCHANGED balance
      BY <1>19, <2>1, <3>1 DEF MarkUndoBalance, rowVars, RowsTyped, SendersTyped, MarkersTyped, HistoryTyped, MarkerLocal
    <3>2. CASE balance' = [balance EXCEPT ![mWho[a]] = mBal[a]]
      BY <1>19, <2>1, <3>2 DEF MarkUndoBalance, rowVars, RowsTyped, SendersTyped, MarkersTyped, HistoryTyped, MarkerLocal
    <3>3. QED
      BY <1>19, <2>1, <3>1, <3>2 DEF MarkUndoBalance, MarkerLocal
  <2>3. MarkersTyped'
    <3>1. CASE MarkerStops(a)
      BY <1>19, <2>1, <3>1 DEF MarkUndoBalance, MarkerStops, MarkerGoes, markerVars, RowsTyped, SendersTyped, MarkersTyped, HistoryTyped
    <3>2. CASE MarkerGoes(a, "undoRequest")
      BY <1>19, <2>1, <3>2 DEF MarkUndoBalance, MarkerStops, MarkerGoes, markerVars, RowsTyped, SendersTyped, MarkersTyped, HistoryTyped
    <3>3. QED
      BY <1>19, <2>1, <3>1, <3>2 DEF MarkUndoBalance, MarkerLocal
  <2>4. HistoryTyped'
    <3>1. CASE UNCHANGED <<paidOut, debits>>
      BY <1>19, <2>1, <3>1 DEF MarkUndoBalance, history, RowsTyped, SendersTyped, MarkersTyped, HistoryTyped
    <3>2. CASE MarkerBooks(a, -1) /\ mReq[a] = Nothing
      BY <1>19, <2>1, <3>2 DEF MarkUndoBalance, MarkerBooks, history, RowsTyped, SendersTyped, MarkersTyped, HistoryTyped
    <3>3. CASE MarkerBooks(a, -1) /\ mReq[a] # Nothing
      BY <1>19, <2>1, <3>3 DEF MarkUndoBalance, MarkerBooks, history, RowsTyped, SendersTyped, MarkersTyped, HistoryTyped
    <3>4. QED
      BY <1>19, <2>1, <3>1, <3>2, <3>3 DEF MarkUndoBalance, MarkerLocal
  <2>5. SendersTyped' /\ ChainTyped'
    BY <1>19 DEF MarkUndoBalance, senderVars, chainVars, SendersTyped, ChainTyped
  <2>6. \A v \in Senders : SenderLocal(v)'
    BY <1>19, <2>1 DEF MarkUndoBalance, MarkerStops, MarkerGoes, MarkerBooks, rowVars, senderVars, RowsTyped, SendersTyped, LocalsOK, SenderLocal
  <2>7. \A b \in Markers : MarkerLocal(b)'
    BY <1>19, <2>1 DEF MarkUndoBalance, MarkerStops, MarkerGoes, MarkerBooks, RowsTyped, MarkersTyped, LocalsOK, MarkerLocal
  <2>8. QED
    BY <2>1, <2>2, <2>3, <2>4, <2>5, <2>6, <2>7 DEF TypedInv, TypeOK, LocalsOK
<1>20. ASSUME NEW a \in Markers, MarkUndoRequest(a)
      PROVE  TypedInv'
  <2>1. mWho[a] \in Partners /\ MarkerLocal(a)
    BY <1>20 DEF MarkUndoRequest, LocalsOK, MarkerLocal
  <2>2. RowsTyped'
    <3>1. UNCHANGED <<balance, earned, amount, ref, confirmed, journal, asking>>
      BY <1>20 DEF MarkUndoRequest
    <3>2. status' = status \/ status' = [status EXCEPT ![mReq[a]] = mWas[a]]
      BY <1>20 DEF MarkUndoRequest
    <3>3. mWas[a] \in Status
      BY DEF MarkersTyped
    <3>4. status' \in [Requests -> Status]
      BY <3>2, <3>3 DEF RowsTyped
    <3>5. QED
      BY <3>1, <3>4 DEF RowsTyped
  <2>3. MarkersTyped'
    BY <1>20, <2>1 DEF MarkUndoRequest, MarkerStops, Reopening, HasActive, markerVars, RowsTyped, SendersTyped, MarkersTyped, ChainTyped, HistoryTyped, MarkerLocal
  <2>4. HistoryTyped'
    BY <1>20, <2>1 DEF MarkUndoRequest, MarkerStops, Reopening, HasActive, history, RowsTyped, SendersTyped, MarkersTyped, ChainTyped, HistoryTyped, MarkerLocal
  <2>5. SendersTyped' /\ ChainTyped'
    BY <1>20 DEF MarkUndoRequest, senderVars, chainVars, SendersTyped, ChainTyped
  <2>6. \A v \in Senders : SenderLocal(v)'
    BY <1>20, <2>1 DEF MarkUndoRequest, MarkerStops, Reopening, HasActive, MarkerLocal, MarkersTyped, rowVars, senderVars, RowsTyped, SendersTyped, LocalsOK, SenderLocal
  <2>7. \A b \in Markers : MarkerLocal(b)'
    BY <1>20, <2>1 DEF MarkUndoRequest, MarkerStops, Reopening, HasActive, RowsTyped, MarkersTyped, LocalsOK, MarkerLocal
  <2>8. QED
    BY <2>1, <2>2, <2>3, <2>4, <2>5, <2>6, <2>7 DEF TypedInv, TypeOK, LocalsOK
<1>21. ASSUME NEW a \in Markers, MarkAbort(a)
      PROVE  TypedInv'
  <2>1. mWho[a] \in Partners /\ MarkerLocal(a)
    BY <1>21 DEF MarkAbort, LocalsOK, MarkerLocal
  <2>2. MarkersTyped'
    BY <1>21, <2>1 DEF MarkAbort, MarkerStops, markerVars, RowsTyped, SendersTyped, MarkersTyped, ChainTyped, HistoryTyped, MarkerLocal
  <2>3. RowsTyped' /\ SendersTyped' /\ ChainTyped' /\ HistoryTyped'
    BY <1>21 DEF MarkAbort, rowVars, senderVars, chainVars, history, RowsTyped, SendersTyped, ChainTyped, HistoryTyped
  <2>4. \A v \in Senders : SenderLocal(v)'
    BY <1>21, <2>1 DEF MarkAbort, MarkerStops, rowVars, senderVars, RowsTyped, SendersTyped, LocalsOK, SenderLocal
  <2>5. \A b \in Markers : MarkerLocal(b)'
    BY <1>21, <2>1 DEF MarkAbort, MarkerStops, RowsTyped, MarkersTyped, LocalsOK, MarkerLocal
  <2>6. QED
    BY <2>1, <2>2, <2>3, <2>4, <2>5 DEF TypedInv, TypeOK, LocalsOK
<1>22. ASSUME NEW m \in mempool, ChainExecute(m)
      PROVE  TypedInv'
  <2>1. ChainTyped'
    BY <1>22 DEF ChainExecute, chainVars, RowsTyped, SendersTyped, MarkersTyped, ChainTyped, HistoryTyped
  <2>2. RowsTyped' /\ SendersTyped' /\ MarkersTyped' /\ HistoryTyped'
    BY <1>22 DEF ChainExecute, rowVars, senderVars, markerVars, history, RowsTyped, SendersTyped, MarkersTyped, HistoryTyped
  <2>3. \A v \in Senders : SenderLocal(v)'
    BY <1>22 DEF ChainExecute, rowVars, senderVars, RowsTyped, SendersTyped, LocalsOK, SenderLocal
  <2>4. \A b \in Markers : MarkerLocal(b)'
    BY <1>22 DEF ChainExecute, RowsTyped, markerVars, MarkersTyped, LocalsOK, MarkerLocal
  <2>5. QED
    BY <2>1, <2>2, <2>3, <2>4 DEF TypedInv, TypeOK, LocalsOK
<1>23. ASSUME NEW r \in Requests, ConfirmPayout(r)
      PROVE  TypedInv'
  <2>1. RowsTyped'
    BY <1>23 DEF ConfirmPayout, rowVars, RowsTyped, SendersTyped, MarkersTyped, ChainTyped, HistoryTyped
  <2>2. SendersTyped' /\ MarkersTyped' /\ ChainTyped' /\ HistoryTyped'
    BY <1>23 DEF ConfirmPayout, senderVars, markerVars, chainVars, history, SendersTyped, MarkersTyped, ChainTyped, HistoryTyped
  <2>3. \A v \in Senders : SenderLocal(v)'
    BY <1>23 DEF ConfirmPayout, rowVars, senderVars, RowsTyped, SendersTyped, LocalsOK, SenderLocal
  <2>4. \A b \in Markers : MarkerLocal(b)'
    BY <1>23 DEF ConfirmPayout, RowsTyped, markerVars, MarkersTyped, LocalsOK, MarkerLocal
  <2>5. QED
    BY <2>1, <2>2, <2>3, <2>4 DEF TypedInv, TypeOK, LocalsOK
<1>24. CASE UNCHANGED vars
  BY <1>24 DEF vars, rowVars, senderVars, markerVars, chainVars, history, TypedInv, TypeOK,
     RowsTyped, SendersTyped, MarkersTyped, ChainTyped, HistoryTyped, LocalsOK,
     SenderLocal, MarkerLocal
<1>25. QED
  BY <1>1, <1>2, <1>3, <1>4, <1>5, <1>6, <1>7, <1>8, <1>9, <1>10, <1>11, <1>12, <1>13, <1>14, <1>15, <1>16, <1>17, <1>18, <1>19, <1>20, <1>21, <1>22, <1>23, <1>24
  DEF Next, PartnerStep, SenderStep, SenderContinues, MarkerStep

\* The type invariant of ReferralPayout: no handler writes a negative balance,
\* an unknown status or a reference that is not a seqno.
THEOREM TypeCorrect == Spec => []TypeOK
<1>1. TypedInv => TypeOK
  BY DEF TypedInv
<1>2. QED
  BY <1>1, TypedInit, TypedStep, PTL DEF Spec

LEMMA TypedAlways == Spec => []TypedInv
  BY TypedInit, TypedStep, PTL DEF Spec

-----------------------------------------------------------------------------
(***************************************************************************)
(* At most one transfer for a request that nobody reopened.                *)
(***************************************************************************)

LEMMA ClaimInit == Init => SingleClaim
  BY DEF Init, SingleClaim, ClaimInv, Holds, InMempool, OnChain

\* Steps that touch none of the variables ClaimInv speaks of.
LEMMA ClaimFrame ==
  ASSUME NEW r \in Requests, ClaimInv(r), reopened \subseteq reopened',
         UNCHANGED <<status, sPc, sReq, mempool, chain, claimed>>
  PROVE  ClaimInv(r)'
  BY DEF ClaimInv, Holds, InMempool, OnChain

\* Steps of a sender that neither claim nor broadcast.
LEMMA ClaimSenderLeaves ==
  ASSUME NEW r \in Requests, NEW w \in Senders, SendersTyped, ClaimInv(r),
         \/ sPc[w] \notin {"seqno", "broadcast"} /\ sPc'[w] \notin {"seqno", "broadcast"}
         \/ sPc'[w] \notin {"seqno", "broadcast"}
         \/ sPc[w] = "seqno" /\ sPc'[w] = "broadcast" /\ sReq'[w] = sReq[w],
         \A v \in Senders : v # w => sPc'[v] = sPc[v] /\ sReq'[v] = sReq[v],
         status'[r] = status[r] \/ status'[r] \notin Sendable \cup {"none"},
         UNCHANGED <<mempool, chain, claimed>>
  PROVE  ClaimInv(r)'
<1>1. \A v \in Senders : Holds(v, r)' => Holds(v, r)
  BY DEF Holds
<1>2. InMempool(r)' = InMempool(r) /\ OnChain(r)' = OnChain(r)
  BY DEF InMempool, OnChain
<1>3. QED
  BY <1>1, <1>2 DEF ClaimInv

LEMMA ClaimStep == TypedInv /\ SingleClaim /\ [Next]_vars => SingleClaim'
<1> SUFFICES ASSUME TypedInv, SingleClaim, [Next]_vars, NEW r \in Requests,
                    r \notin reopened'
             PROVE  ClaimInv(r)'
  BY DEF SingleClaim
<1> USE DEF TypedInv, TypeOK
<1>0. reopened \subseteq reopened'
  <2>1. ASSUME NEW p \in Partners, PartnerStep(p) PROVE UNCHANGED reopened
    BY <2>1 DEF PartnerStep, ApplyReward, AskForPayout, InsertRequest, history
  <2>2. ASSUME NEW w \in Senders, SenderStep(w) PROVE UNCHANGED reopened
    BY <2>2 DEF SenderStep, SenderContinues, SendStart, SendReadProfile, SendClaim,
       SendReadSeqno, SendBroadcast, SendDebit, SendClose, SendJournal, SendAbort, history
  <2>3. ASSUME NEW a \in Markers, MarkerStep(a) PROVE reopened \subseteq reopened'
    BY <2>3 DEF MarkerStep, MarkStart, MarkReadRequest, MarkDebit, MarkClose,
       MarkJournal, MarkUndoBalance, MarkUndoRequest, MarkAbort, Reopening, history
  <2>4. ASSUME NEW q \in Requests, NEW s \in AdminTargets, SetStatus(q, s)
        PROVE  reopened \subseteq reopened'
    BY <2>4 DEF SetStatus, Reopening
  <2>5. ASSUME NEW m \in mempool, ChainExecute(m) PROVE UNCHANGED reopened
    BY <2>5 DEF ChainExecute, history
  <2>6. ASSUME NEW q \in Requests, ConfirmPayout(q) PROVE UNCHANGED reopened
    BY <2>6 DEF ConfirmPayout, history
  <2>7. CASE UNCHANGED vars
    BY <2>7 DEF vars, history
  <2>8. QED
    BY <2>1, <2>2, <2>3, <2>4, <2>5, <2>6, <2>7 DEF Next
<1>1. ClaimInv(r)
  BY <1>0 DEF SingleClaim
<1>2. ASSUME NEW p \in Partners, ApplyReward(p) \/ AskForPayout(p)
      PROVE  ClaimInv(r)'
  BY <1>0, <1>1, <1>2, ClaimFrame
  DEF ApplyReward, AskForPayout, rowVars, senderVars, chainVars, history
<1>3. ASSUME NEW p \in Partners, InsertRequest(p)
      PROVE  ClaimInv(r)'
  <2>1. status'[r] = status[r] \/ (status[r] = "none" /\ status'[r] = "requested")
    BY <1>3 DEF InsertRequest, RowsTyped
  <2>2. UNCHANGED <<sPc, sReq, mempool, chain, claimed>>
    BY <1>3 DEF InsertRequest, senderVars, chainVars, history
  <2>3. status[r] = "none" => r \notin claimed
    BY <1>1 DEF ClaimInv
  <2>4. QED
    BY <1>1, <2>1, <2>2, <2>3 DEF ClaimInv, Holds, InMempool, OnChain
<1>4. ASSUME NEW q \in Requests, NEW s \in AdminTargets, SetStatus(q, s)
      PROVE  ClaimInv(r)'
  <2>1. status'[r] \in Sendable \cup {"none"} => r \notin claimed
    BY <1>1, <1>4 DEF SetStatus, Reopening, ClaimInv, RowsTyped, Sendable, AdminTargets
  <2>2. UNCHANGED <<sPc, sReq, mempool, chain, claimed>>
    BY <1>4 DEF SetStatus, senderVars, chainVars
  <2>3. QED
    BY <1>1, <2>1, <2>2 DEF ClaimInv, Holds, InMempool, OnChain
<1>5. ASSUME NEW w \in Senders, NEW q \in Requests, SendStart(w, q)
      PROVE  ClaimInv(r)'
  BY <1>1, <1>5, ClaimSenderLeaves
  DEF SendStart, rowVars, chainVars, history, SendersTyped
<1>6. ASSUME NEW w \in Senders, SendReadProfile(w)
      PROVE  ClaimInv(r)'
  <2>1. sPc'[w] \notin {"seqno", "broadcast"}
    BY <1>6 DEF SendReadProfile, SenderStops, SenderGoes, SendersTyped
  <2>2. \A v \in Senders : v # w => sPc'[v] = sPc[v] /\ sReq'[v] = sReq[v]
    BY <1>6 DEF SendReadProfile, SenderStops, SenderGoes, SendersTyped
  <2>3. UNCHANGED <<status, mempool, chain, claimed>>
    BY <1>6 DEF SendReadProfile, rowVars, chainVars, history
  <2>4. QED
    BY <1>1, <2>1, <2>2, <2>3, ClaimSenderLeaves
<1>7. ASSUME NEW w \in Senders, SendClaim(w)
      PROVE  ClaimInv(r)'
  <2>1. CASE status[sReq[w]] \notin Sendable
    <3>1. sPc'[w] = "idle" /\ UNCHANGED <<status, mempool, chain, claimed>>
      BY <1>7, <2>1 DEF SendClaim, SenderStops, SendersTyped, chainVars
    <3>2. \A v \in Senders : v # w => sPc'[v] = sPc[v] /\ sReq'[v] = sReq[v]
      BY <1>7, <2>1 DEF SendClaim, SenderStops, SendersTyped
    <3>3. QED
      BY <1>1, <3>1, <3>2, ClaimSenderLeaves
  <2>2. CASE status[sReq[w]] \in Sendable
    <3>1. /\ sPc[w] = "claim"
          /\ sPc' = [sPc EXCEPT ![w] = "seqno"]
          /\ status' = [status EXCEPT ![sReq[w]] = "sending"]
          /\ claimed' = claimed \cup {sReq[w]}
          /\ UNCHANGED <<sReq, mempool, chain>>
      BY <1>7, <2>2 DEF SendClaim, SenderGoes, chainVars
    <3>2. \A v \in Senders, q \in Requests :
            Holds(v, q)' <=> (Holds(v, q) \/ (v = w /\ q = sReq[w]))
      BY <3>1 DEF Holds, SendersTyped
    <3>3. InMempool(r)' = InMempool(r) /\ OnChain(r)' = OnChain(r)
      BY <3>1 DEF InMempool, OnChain
    <3>4. CASE r = sReq[w]
      <4>1. r \notin claimed
        BY <1>1, <2>2, <3>4 DEF ClaimInv
      <4>2. status'[r] = "sending" /\ r \in claimed'
        BY <3>1, <3>4 DEF RowsTyped
      <4>3. QED
        BY <1>1, <3>1, <3>2, <3>3, <4>1, <4>2 DEF ClaimInv, Sendable
    <3>5. CASE r # sReq[w]
      <4>1. status'[r] = status[r] /\ (r \in claimed' <=> r \in claimed)
        BY <3>1, <3>5 DEF RowsTyped
      <4>2. QED
        BY <1>1, <3>1, <3>2, <3>3, <3>5, <4>1 DEF ClaimInv
    <3>6. QED
      BY <3>4, <3>5
  <2>3. QED
    BY <2>1, <2>2
<1>8. ASSUME NEW w \in Senders, SendReadSeqno(w)
      PROVE  ClaimInv(r)'
  <2>1. sPc[w] = "seqno" /\ sPc'[w] = "broadcast" /\ sReq'[w] = sReq[w]
    BY <1>8 DEF SendReadSeqno, SenderGoes, SendersTyped
  <2>2. \A v \in Senders : v # w => sPc'[v] = sPc[v] /\ sReq'[v] = sReq[v]
    BY <1>8 DEF SendReadSeqno, SenderGoes, SendersTyped
  <2>3. UNCHANGED <<status, mempool, chain, claimed>>
    BY <1>8 DEF SendReadSeqno, rowVars, chainVars, history
  <2>4. QED
    BY <1>1, <2>1, <2>2, <2>3, ClaimSenderLeaves
<1>9. ASSUME NEW w \in Senders, SendBroadcast(w)
      PROVE  ClaimInv(r)'
  <2> DEFINE msg == [req |-> sReq[w], seq |-> sSeq[w]]
  <2>1. /\ sPc[w] = "broadcast" /\ sPc'[w] \in {"idle", "debit"}
        /\ mempool' = mempool \cup {msg}
        /\ UNCHANGED <<status, chain, claimed>>
    BY <1>9 DEF SendBroadcast, SenderGoes, SenderStops, SendersTyped, rowVars, history
  <2>2. \A v \in Senders : v # w => sPc'[v] = sPc[v] /\ sReq'[v] = sReq[v]
    BY <1>9 DEF SendBroadcast, SenderGoes, SenderStops, SendersTyped
  <2>3. \A v \in Senders : Holds(v, r)' <=> (v # w /\ Holds(v, r))
    BY <2>1, <2>2 DEF Holds
  <2>4. OnChain(r)' = OnChain(r)
    BY <2>1 DEF OnChain
  <2>5. msg.req = sReq[w]
    OBVIOUS
  <2>6. InMempool(r)' <=> (InMempool(r) \/ r = sReq[w])
    BY <2>1, <2>5 DEF InMempool
  <2> HIDE DEF msg
  <2>7. CASE r = sReq[w]
    <3>1. Holds(w, r)
      BY <2>1, <2>7 DEF Holds
    <3>2. /\ ~InMempool(r) /\ ~OnChain(r)
          /\ r \in claimed
          /\ \A v \in Senders : Holds(v, r) => v = w
      BY <1>1, <3>1 DEF ClaimInv
    <3>3. \A m, n \in mempool' : m.req = r /\ n.req = r => m = n
      BY <2>1, <3>2 DEF InMempool
    <3>4. QED
      BY <1>1, <2>1, <2>3, <2>4, <3>2, <3>3 DEF ClaimInv
  <2>8. CASE r # sReq[w]
    <3>1. \A m \in mempool' : m.req = r => m \in mempool
      BY <2>1, <2>5, <2>8
    <3>2. InMempool(r)' = InMempool(r)
      BY <2>6, <2>8 DEF InMempool
    <3>3. \A m, n \in mempool' : m.req = r /\ n.req = r => m = n
      BY <1>1, <3>1 DEF ClaimInv
    <3>4. QED
      BY <1>1, <2>1, <2>3, <2>4, <3>2, <3>3 DEF ClaimInv
  <2>9. QED
    BY <2>7, <2>8
<1>10. ASSUME NEW w \in Senders, SendDebit(w)
      PROVE  ClaimInv(r)'
  <2>1. sPc'[w] \notin {"seqno", "broadcast"}
    BY <1>10 DEF SendDebit, SenderStops, SenderGoes, SendersTyped
  <2>2. \A v \in Senders : v # w => sPc'[v] = sPc[v] /\ sReq'[v] = sReq[v]
    BY <1>10 DEF SendDebit, SenderStops, SenderGoes, SendersTyped
  <2>3. UNCHANGED <<mempool, chain, claimed>>
    BY <1>10 DEF SendDebit, chainVars, history
  <2>4. status'[r] = status[r] \/ status'[r] \notin Sendable \cup {"none"}
    BY <1>10 DEF SendDebit, RowsTyped
  <2>5. QED
    BY <1>1, <2>1, <2>2, <2>3, <2>4, ClaimSenderLeaves
<1>11. ASSUME NEW w \in Senders, SendClose(w)
      PROVE  ClaimInv(r)'
  <2>1. sPc'[w] \notin {"seqno", "broadcast"}
    BY <1>11 DEF SendClose, SenderStops, SenderGoes, SendersTyped
  <2>2. \A v \in Senders : v # w => sPc'[v] = sPc[v] /\ sReq'[v] = sReq[v]
    BY <1>11 DEF SendClose, SenderStops, SenderGoes, SendersTyped
  <2>3. UNCHANGED <<mempool, chain, claimed>>
    BY <1>11 DEF SendClose, chainVars, history
  <2>4. status'[r] = status[r] \/ status'[r] \notin Sendable \cup {"none"}
    BY <1>11 DEF SendClose, RowsTyped, Sendable
  <2>5. QED
    BY <1>1, <2>1, <2>2, <2>3, <2>4, ClaimSenderLeaves
<1>12. ASSUME NEW w \in Senders, SendJournal(w)
      PROVE  ClaimInv(r)'
  <2>1. sPc'[w] \notin {"seqno", "broadcast"}
    BY <1>12 DEF SendJournal, SenderStops, SenderGoes, SendersTyped
  <2>2. \A v \in Senders : v # w => sPc'[v] = sPc[v] /\ sReq'[v] = sReq[v]
    BY <1>12 DEF SendJournal, SenderStops, SenderGoes, SendersTyped
  <2>3. UNCHANGED <<mempool, chain, claimed>>
    BY <1>12 DEF SendJournal, chainVars, history
  <2>4. status'[r] = status[r] \/ status'[r] \notin Sendable \cup {"none"}
    BY <1>12 DEF SendJournal, RowsTyped
  <2>5. QED
    BY <1>1, <2>1, <2>2, <2>3, <2>4, ClaimSenderLeaves
<1>13. ASSUME NEW w \in Senders, SendAbort(w)
      PROVE  ClaimInv(r)'
  <2>1. sPc'[w] \notin {"seqno", "broadcast"}
    BY <1>13 DEF SendAbort, SenderStops, SenderGoes, SendersTyped
  <2>2. \A v \in Senders : v # w => sPc'[v] = sPc[v] /\ sReq'[v] = sReq[v]
    BY <1>13 DEF SendAbort, SenderStops, SenderGoes, SendersTyped
  <2>3. UNCHANGED <<mempool, chain, claimed>>
    BY <1>13 DEF SendAbort, chainVars, history
  <2>4. status'[r] = status[r] \/ status'[r] \notin Sendable \cup {"none"}
    BY <1>13 DEF SendAbort, rowVars
  <2>5. QED
    BY <1>1, <2>1, <2>2, <2>3, <2>4, ClaimSenderLeaves
<1>14. ASSUME NEW w \in Senders, SenderStep(w)
       PROVE  ClaimInv(r)'
  BY <1>5, <1>6, <1>7, <1>8, <1>9, <1>10, <1>11, <1>12, <1>13, <1>14
  DEF SenderStep, SenderContinues
<1>15. ASSUME NEW a \in Markers, NEW p \in Partners, MarkStart(a, p)
       PROVE  ClaimInv(r)'
  BY <1>0, <1>1, <1>15, ClaimFrame
  DEF MarkStart, rowVars, senderVars, chainVars, history
<1>16. ASSUME NEW a \in Markers, MarkReadRequest(a)
       PROVE  ClaimInv(r)'
  <2>1. UNCHANGED <<status, sPc, sReq, mempool, chain, claimed>>
    BY <1>16 DEF MarkReadRequest, rowVars, senderVars, chainVars, history
  <2>2. QED
    BY <1>0, <1>1, <2>1, ClaimFrame
<1>17. ASSUME NEW a \in Markers, MarkDebit(a)
       PROVE  ClaimInv(r)'
  <2>1. UNCHANGED <<status, sPc, sReq, mempool, chain, claimed>>
    BY <1>17 DEF MarkDebit, senderVars, chainVars
  <2>2. QED
    BY <1>0, <1>1, <2>1, ClaimFrame
<1>18. ASSUME NEW a \in Markers, MarkJournal(a)
       PROVE  ClaimInv(r)'
  <2>1. UNCHANGED <<status, sPc, sReq, mempool, chain, claimed>>
    BY <1>18 DEF MarkJournal, senderVars, chainVars
  <2>2. QED
    BY <1>0, <1>1, <2>1, ClaimFrame
<1>19. ASSUME NEW a \in Markers, MarkUndoBalance(a)
       PROVE  ClaimInv(r)'
  <2>1. UNCHANGED <<status, sPc, sReq, mempool, chain, claimed>>
    BY <1>19 DEF MarkUndoBalance, senderVars, chainVars
  <2>2. QED
    BY <1>0, <1>1, <2>1, ClaimFrame
<1>20. ASSUME NEW a \in Markers, MarkAbort(a)
       PROVE  ClaimInv(r)'
  <2>1. UNCHANGED <<status, sPc, sReq, mempool, chain, claimed>>
    BY <1>20 DEF MarkAbort, rowVars, senderVars, chainVars, history
  <2>2. QED
    BY <1>0, <1>1, <2>1, ClaimFrame
<1>21. ASSUME NEW a \in Markers, MarkClose(a)
       PROVE  ClaimInv(r)'
  <2>1. UNCHANGED <<sPc, sReq, mempool, chain, claimed>>
    BY <1>21 DEF MarkClose, senderVars, chainVars, history
  <2>2. status'[r] = status[r] \/ status'[r] = "sent"
    BY <1>21 DEF MarkClose, RowsTyped
  <2>3. QED
    BY <1>1, <2>1, <2>2 DEF ClaimInv, Holds, InMempool, OnChain, Sendable
<1>22. ASSUME NEW a \in Markers, MarkUndoRequest(a)
       PROVE  ClaimInv(r)'
  <2>1. UNCHANGED <<sPc, sReq, mempool, chain, claimed>>
    BY <1>22 DEF MarkUndoRequest, senderVars, chainVars
  <2>2. mWas[a] \in Active
    BY <1>22 DEF TypedInv, LocalsOK, MarkerLocal, MarkUndoRequest
  <2>3. status'[r] \in Sendable \cup {"none"} => r \notin claimed
    BY <1>1, <1>22, <2>2
    DEF MarkUndoRequest, Reopening, ClaimInv, RowsTyped, Sendable, Active
  <2>4. QED
    BY <1>1, <2>1, <2>3 DEF ClaimInv, Holds, InMempool, OnChain
<1>23. ASSUME NEW a \in Markers, MarkerStep(a)
       PROVE  ClaimInv(r)'
  BY <1>15, <1>16, <1>17, <1>18, <1>19, <1>20, <1>21, <1>22, <1>23 DEF MarkerStep
<1>24. ASSUME NEW m \in mempool, ChainExecute(m)
       PROVE  ClaimInv(r)'
  <2>1. /\ chain' = Append(chain, m.req)
        /\ mempool' = mempool \ {m}
        /\ UNCHANGED <<status, sPc, sReq, claimed>>
    BY <1>24 DEF ChainExecute, rowVars, senderVars, history
  <2>2. chain \in Seq(Requests) /\ m.req \in Requests
    BY DEF ChainTyped
  <2>3. /\ Len(chain') = Len(chain) + 1
        /\ \A i \in 1..Len(chain) : chain'[i] = chain[i]
        /\ chain'[Len(chain) + 1] = m.req
    BY <2>1, <2>2
  <2>4. OnChain(r)' <=> (OnChain(r) \/ m.req = r)
    BY <2>2, <2>3 DEF OnChain
  <2>5. \A v \in Senders : Holds(v, r)' = Holds(v, r)
    BY <2>1 DEF Holds
  <2>6. CASE m.req = r
    <3>1. InMempool(r)
      BY <2>6 DEF InMempool
    <3>2. /\ ~OnChain(r) /\ r \in claimed
          /\ \A v \in Senders : ~Holds(v, r)
      BY <1>1, <3>1 DEF ClaimInv
    <3>3. ~InMempool(r)'
      BY <1>1, <2>1, <2>6 DEF ClaimInv, InMempool
    <3>4. \A i, j \in 1..Len(chain)' : chain'[i] = r /\ chain'[j] = r => i = j
      <4>1. \A i \in 1..Len(chain) : chain'[i] # r
        BY <2>3, <3>2 DEF OnChain
      <4>2. \A i \in 1..Len(chain)' : i \in 1..Len(chain) \/ i = Len(chain) + 1
        BY <2>2, <2>3
      <4>3. QED
        BY <4>1, <4>2
    <3>5. QED
      BY <1>1, <2>1, <2>5, <3>2, <3>3, <3>4 DEF ClaimInv
  <2>7. CASE m.req # r
    <3>1. InMempool(r)' = InMempool(r)
      BY <2>1, <2>7 DEF InMempool
    <3>2. OnChain(r)' = OnChain(r)
      BY <2>4, <2>7 DEF OnChain
    <3>3. \A n, k \in mempool' : n.req = r /\ k.req = r => n = k
      BY <1>1, <2>1 DEF ClaimInv
    <3>4. \A i, j \in 1..Len(chain)' : chain'[i] = r /\ chain'[j] = r => i = j
      <4>1. \A i \in 1..Len(chain)' : chain'[i] = r =>
              i \in 1..Len(chain) /\ chain[i] = r
        BY <2>2, <2>3, <2>7
      <4>2. QED
        BY <1>1, <4>1 DEF ClaimInv
    <3>5. QED
      BY <1>1, <2>1, <2>5, <3>1, <3>2, <3>3, <3>4 DEF ClaimInv
  <2>8. QED
    BY <2>6, <2>7
<1>25. ASSUME NEW q \in Requests, ConfirmPayout(q)
       PROVE  ClaimInv(r)'
  <2>1. UNCHANGED <<status, sPc, sReq, mempool, chain, claimed>>
    BY <1>25 DEF ConfirmPayout, senderVars, chainVars, history
  <2>2. QED
    BY <1>0, <1>1, <2>1, ClaimFrame
<1>26. CASE UNCHANGED vars
  <2>1. UNCHANGED <<status, sPc, sReq, mempool, chain, claimed>>
    BY <1>26 DEF vars, rowVars, senderVars, chainVars, history
  <2>2. QED
    BY <1>0, <1>1, <2>1, ClaimFrame
<1>27. QED
  BY <1>2, <1>3, <1>4, <1>14, <1>23, <1>24, <1>25, <1>26 DEF Next, PartnerStep

\* The inductive invariant of both theorems holds in every behaviour.
LEMMA ClaimAlways == Spec => []SingleClaim
  BY ClaimInit, TypedAlways, ClaimStep, PTL DEF Spec

\* For any number of senders, markers, partners and requests: the reserve
\* wallet executes at most one transfer for a request that was not made
\* sendable again after its claim.
THEOREM TransferOnce == Spec => []AtMostOneTransfer
<1>1. TypedInv /\ SingleClaim => AtMostOneTransfer
  <2> SUFFICES ASSUME TypedInv, SingleClaim,
                      NEW i \in 1..Len(chain), NEW j \in 1..Len(chain),
                      chain[i] = chain[j], chain[i] \notin reopened
               PROVE  i = j
    BY DEF AtMostOneTransfer
  <2>1. chain[i] \in Requests
    BY DEF TypedInv, TypeOK, ChainTyped
  <2>2. ClaimInv(chain[i])
    BY <2>1 DEF SingleClaim
  <2>3. QED
    BY <2>2 DEF ClaimInv
<1>2. QED
  BY <1>1, TypedAlways, ClaimAlways, PTL

-----------------------------------------------------------------------------
(***************************************************************************)
(* The balance keeps its contract.                                         *)
(***************************************************************************)
LEMMA MoveIsContract ==
  ASSUME TypedInv, NEW p \in Partners, NEW n \in Int,
         balance' = [balance EXCEPT ![p] = balance[p] - n],
         paidOut' = [paidOut EXCEPT ![p] = paidOut[p] + n],
         UNCHANGED earned,
         \/ 0 <= n /\ n <= balance[p]
         \/ n <= 0 /\ -n <= paidOut[p]
  PROVE  Ledger!Next
<1>1. Ledger!Move(p, n)
  BY DEF Ledger!Move
<1>2. balance[p] \in Nat /\ paidOut[p] \in Int
  BY DEF TypedInv, TypeOK, RowsTyped, HistoryTyped
<1>3. CASE 0 <= n /\ n <= balance[p]
  <2>1. n \in 0 .. balance[p]
    BY <1>2, <1>3
  <2>2. QED
    BY <1>1, <2>1 DEF Ledger!Take, Ledger!Next
<1>4. CASE n <= 0 /\ -n <= paidOut[p]
  <2>1. PICK k \in 0 .. paidOut[p] : n = -k
    <3>1. -n \in 0 .. paidOut[p] /\ n = -(-n)
      BY <1>2, <1>4
    <3>2. QED
      BY <3>1
  <2>2. QED
    BY <1>1, <2>1 DEF Ledger!GiveBack, Ledger!Next
<1>5. QED
  BY <1>3, <1>4

\* What a step does to the money is one move of the contract: the conditional
\* write finds the balance that its amount was computed from.
LEMMA MoneyMoves ==
  TypedInv /\ NoLostReward /\ LedgerInv /\ [Next]_vars => [Ledger!Next]_(Ledger!vars)
<1> SUFFICES ASSUME TypedInv, NoLostReward, LedgerInv, [Next]_vars
             PROVE  Ledger!Next \/ UNCHANGED <<balance, earned, paidOut>>
  BY DEF Ledger!vars
<1>t. /\ balance \in [Partners -> Nat] /\ earned \in [Partners -> Nat]
      /\ paidOut \in [Partners -> Int] /\ amount \in [Requests -> Nat]
  BY DEF TypedInv, TypeOK, RowsTyped, HistoryTyped
<1>1. ASSUME NEW p \in Partners, ApplyReward(p)
      PROVE  Ledger!Next
  BY <1>1 DEF ApplyReward, history, Ledger!Earn, Ledger!Next
<1>2. ASSUME NEW p \in Partners, AskForPayout(p) \/ InsertRequest(p)
      PROVE  UNCHANGED <<balance, earned, paidOut>>
  BY <1>2 DEF AskForPayout, InsertRequest, rowVars, history
<1>3. ASSUME NEW w \in Senders, SendDebit(w)
      PROVE  Ledger!Next \/ UNCHANGED <<balance, earned, paidOut>>
  <2>1. CASE balance[PartnerOf[sReq[w]]] # sBal[w]
    BY <1>3, <2>1 DEF SendDebit
  <2>2. CASE balance[PartnerOf[sReq[w]]] = sBal[w]
    <3>1. sReq[w] \in Requests /\ amount[sReq[w]] <= sBal[w]
      BY <1>3 DEF SendDebit, TypedInv, LocalsOK, SenderLocal
    <3>2. PICK p \in Partners : p = PartnerOf[sReq[w]]
      BY <3>1
    <3>3. PICK n \in Nat : n = amount[sReq[w]]
      BY <1>t, <3>1
    <3>4. /\ balance' = [balance EXCEPT ![p] = balance[p] - n]
          /\ paidOut' = [paidOut EXCEPT ![p] = paidOut[p] + n]
          /\ UNCHANGED earned
      BY <1>3, <2>2, <3>2, <3>3 DEF SendDebit
    <3>5. n \in Int /\ 0 <= n /\ n <= balance[p]
      BY <2>2, <3>1, <3>2, <3>3
    <3>6. QED
      BY <3>4, <3>5, MoveIsContract
  <2>3. QED
    BY <2>1, <2>2
<1>4. ASSUME NEW w \in Senders, SenderStep(w)
      PROVE  Ledger!Next \/ UNCHANGED <<balance, earned, paidOut>>
  BY <1>3, <1>4
  DEF SenderStep, SenderContinues, SendStart, SendReadProfile, SendClaim,
      SendReadSeqno, SendBroadcast, SendClose, SendJournal, SendAbort, rowVars, history
<1>5. ASSUME NEW a \in Markers, mPc[a] # "idle"
      PROVE  /\ mWho[a] \in Partners /\ mBal[a] \in Nat /\ mAmt[a] \in Nat
             /\ mAmt[a] <= mBal[a] /\ mBal[a] <= earned[mWho[a]]
  BY <1>5 DEF TypedInv, TypeOK, MarkersTyped, LocalsOK, MarkerLocal, LedgerInv
<1>6. ASSUME NEW a \in Markers, MarkDebit(a)
      PROVE  Ledger!Next \/ UNCHANGED <<balance, earned, paidOut>>
  <2>0. /\ mWho[a] \in Partners /\ mBal[a] \in Nat /\ mAmt[a] \in Nat
        /\ mAmt[a] <= mBal[a]
    BY <1>5, <1>6 DEF MarkDebit
  <2>1. CASE balance[mWho[a]] # mBal[a]
    BY <1>6, <2>1 DEF MarkDebit
  <2>2. CASE balance[mWho[a]] = mBal[a]
    <3>1. PICK p \in Partners, n \in Nat : p = mWho[a] /\ n = mAmt[a]
      BY <2>0
    <3>2. /\ balance' = [balance EXCEPT ![p] = balance[p] - n]
          /\ UNCHANGED earned
      BY <1>6, <2>2, <3>1 DEF MarkDebit
    <3>3. MarkerBooks(a, 1)
      BY <1>6, <2>2 DEF MarkDebit
    <3>4. paidOut' = [paidOut EXCEPT ![p] = paidOut[p] + 1 * n]
      BY <3>1, <3>3 DEF MarkerBooks
    <3>5. n \in Int /\ 0 <= n /\ n <= balance[p] /\ 1 * n = n
      BY <2>0, <2>2, <3>1
    <3>6. QED
      BY <3>2, <3>4, <3>5, MoveIsContract
  <2>3. QED
    BY <2>1, <2>2
<1>7. ASSUME NEW a \in Markers, MarkUndoBalance(a)
      PROVE  Ledger!Next \/ UNCHANGED <<balance, earned, paidOut>>
  <2>1. PICK p \in Partners, b \in Nat, n \in Nat :
          p = mWho[a] /\ b = mBal[a] /\ n = mAmt[a] /\ n <= b /\ b <= earned[p]
    BY <1>5, <1>7 DEF MarkUndoBalance
  <2>2. CASE UNCHANGED <<balance, paidOut, debits>>
    BY <1>7, <2>2 DEF MarkUndoBalance
  <2>3. CASE /\ balance[p] = b - n
             /\ balance' = [balance EXCEPT ![p] = b]
             /\ MarkerBooks(a, -1)
    <3>1. paidOut' = [paidOut EXCEPT ![p] = paidOut[p] + (-n)]
      <4>1. paidOut' = [paidOut EXCEPT ![p] = paidOut[p] + (-1) * n]
        BY <2>1, <2>3 DEF MarkerBooks
      <4>2. (-1) * n = -n
        OBVIOUS
      <4>3. QED
        BY <4>1, <4>2
    <3>2. b = balance[p] - (-n)
      BY <2>1, <2>3
    <3>3. balance' = [balance EXCEPT ![p] = balance[p] - (-n)]
      BY <2>3, <3>2
    <3>4. n <= paidOut[p]
      <4>1. balance[p] + paidOut[p] = earned[p]
        BY DEF NoLostReward
      <4>2. QED
        BY <1>t, <2>1, <2>3, <4>1
    <3>5. -n \in Int /\ -n <= 0 /\ -(-n) <= paidOut[p]
      BY <1>t, <2>1, <3>4
    <3>6. UNCHANGED earned
      BY <1>7 DEF MarkUndoBalance
    <3>7. QED
      BY <3>1, <3>3, <3>5, <3>6, MoveIsContract
  <2>4. QED
    BY <1>7, <2>1, <2>2, <2>3 DEF MarkUndoBalance
<1>8. ASSUME NEW a \in Markers, MarkerStep(a)
      PROVE  Ledger!Next \/ UNCHANGED <<balance, earned, paidOut>>
  BY <1>6, <1>7, <1>8
  DEF MarkerStep, MarkStart, MarkReadRequest, MarkClose, MarkJournal,
      MarkUndoRequest, MarkAbort, rowVars, history
<1>9. ASSUME NEW r \in Requests,
             (\E s \in AdminTargets : SetStatus(r, s)) \/ ConfirmPayout(r)
      PROVE  UNCHANGED <<balance, earned, paidOut>>
  BY <1>9 DEF SetStatus, ConfirmPayout, history
<1>10. ASSUME NEW m \in mempool, ChainExecute(m)
       PROVE  UNCHANGED <<balance, earned, paidOut>>
  BY <1>10 DEF ChainExecute, rowVars, history
<1>11. CASE UNCHANGED vars
  BY <1>11 DEF vars, rowVars, history
<1>12. QED
  BY <1>1, <1>2, <1>4, <1>8, <1>9, <1>10, <1>11 DEF Next, PartnerStep

\* The contract alone keeps the balance and the debits in step, takes no
\* payout below zero, and forgets nothing that was earned.
LEMMA ContractKeeps ==
  ASSUME TypedInv, TypedInv', NoLostReward, \A q \in Partners : paidOut[q] >= 0,
         [Ledger!Next]_(Ledger!vars), NEW p \in Partners
  PROVE  /\ balance'[p] + paidOut'[p] = earned'[p]
         /\ paidOut'[p] >= 0
         /\ earned[p] <= earned'[p]
<1>1. /\ balance \in [Partners -> Nat] /\ earned \in [Partners -> Nat]
      /\ paidOut \in [Partners -> Int]
      /\ balance[p] + paidOut[p] = earned[p] /\ paidOut[p] >= 0
  BY DEF TypedInv, TypeOK, RowsTyped, HistoryTyped, NoLostReward
<1>2. ASSUME NEW q \in Partners, Ledger!Earn(q)
      PROVE  /\ balance'[p] + paidOut'[p] = earned'[p]
             /\ paidOut'[p] >= 0
             /\ earned[p] <= earned'[p]
  <2>1. PICK n \in RewardSizes :
          /\ balance' = [balance EXCEPT ![q] = @ + n]
          /\ earned'  = [earned EXCEPT ![q] = @ + n]
          /\ UNCHANGED paidOut
    BY <1>2 DEF Ledger!Earn
  <2>2. n \in Nat
    OBVIOUS
  <2>3. QED
    BY <1>1, <2>1, <2>2
<1>3. ASSUME NEW q \in Partners, Ledger!Take(q) \/ Ledger!GiveBack(q)
      PROVE  /\ balance'[p] + paidOut'[p] = earned'[p]
             /\ paidOut'[p] >= 0
             /\ earned[p] <= earned'[p]
  <2>1. PICK n \in Int :
          /\ paidOut[q] + n >= 0
          /\ balance' = [balance EXCEPT ![q] = @ - n]
          /\ paidOut' = [paidOut EXCEPT ![q] = @ + n]
          /\ UNCHANGED earned
    <3>1. paidOut[q] \in Int /\ paidOut[q] >= 0 /\ balance[q] \in Nat
      BY <1>1
    <3>2. CASE Ledger!Take(q)
      <4>1. PICK n \in 0 .. balance[q] : Ledger!Move(q, n)
        BY <3>2 DEF Ledger!Take
      <4>2. n \in Int /\ paidOut[q] + n >= 0
        BY <3>1
      <4>3. QED
        BY <4>1, <4>2 DEF Ledger!Move
    <3>3. CASE Ledger!GiveBack(q)
      <4>1. PICK n \in 0 .. paidOut[q] : Ledger!Move(q, -n)
        BY <3>3 DEF Ledger!GiveBack
      <4>2. -n \in Int /\ paidOut[q] + (-n) >= 0
        BY <3>1
      <4>3. QED
        BY <4>1, <4>2 DEF Ledger!Move
    <3>4. QED
      BY <1>3, <3>2, <3>3
  <2>2. CASE p = q
    BY <1>1, <2>1, <2>2
  <2>3. CASE p # q
    BY <1>1, <2>1, <2>3
  <2>4. QED
    BY <2>2, <2>3
<1>4. CASE UNCHANGED Ledger!vars
  BY <1>1, <1>4 DEF Ledger!vars
<1>5. QED
  BY <1>2, <1>3, <1>4 DEF Ledger!Next

\* A marker's copy of the balance is taken when it starts, and never changed.
LEMMA CopyStep ==
  ASSUME TypedInv, TypedInv', [Next]_vars, NEW a \in Markers, mPc'[a] # "idle"
  PROVE  \/ mPc[a] # "idle" /\ mBal'[a] = mBal[a] /\ mWho'[a] = mWho[a]
         \/ /\ mWho'[a] \in Partners /\ mBal'[a] = balance[mWho'[a]]
            /\ UNCHANGED earned
<1> USE DEF TypedInv, TypeOK, MarkersTyped
<1>1. CASE UNCHANGED markerVars
  BY <1>1 DEF markerVars
<1>2. ASSUME NEW b \in Markers, NEW p \in Partners, MarkStart(b, p)
      PROVE  \/ mPc[a] # "idle" /\ mBal'[a] = mBal[a] /\ mWho'[a] = mWho[a]
             \/ /\ mWho'[a] \in Partners /\ mBal'[a] = balance[mWho'[a]]
                /\ UNCHANGED earned
  BY <1>2 DEF MarkStart, rowVars
<1>3. ASSUME NEW b \in Markers,
             \/ MarkReadRequest(b) \/ MarkDebit(b) \/ MarkClose(b) \/ MarkJournal(b)
             \/ MarkUndoBalance(b) \/ MarkUndoRequest(b) \/ MarkAbort(b)
      PROVE  mPc[a] # "idle" /\ mBal'[a] = mBal[a] /\ mWho'[a] = mWho[a]
  <2>1. mPc[b] # "idle"
    BY <1>3 DEF MarkReadRequest, MarkDebit, MarkClose, MarkJournal,
                MarkUndoBalance, MarkUndoRequest, MarkAbort
  <2>2. \/ MarkerStops(b)
        \/ UNCHANGED <<mBal, mWho>> /\ \E pc \in MarkerPc : mPc' = [mPc EXCEPT ![b] = pc]
    BY <1>3 DEF MarkReadRequest, MarkDebit, MarkClose, MarkJournal,
                MarkUndoBalance, MarkUndoRequest, MarkAbort, MarkerGoes
  <2>3. QED
    BY <2>1, <2>2 DEF MarkerStops
<1>4. CASE \/ \E p \in Partners : PartnerStep(p)
           \/ \E w \in Senders : SenderStep(w)
           \/ \E r \in Requests, s \in AdminTargets : SetStatus(r, s)
           \/ \E m \in mempool : ChainExecute(m)
           \/ \E r \in Requests : ConfirmPayout(r)
           \/ UNCHANGED vars
  <2>1. UNCHANGED markerVars
    BY <1>4
    DEF PartnerStep, ApplyReward, AskForPayout, InsertRequest, SenderStep,
        SenderContinues, SendStart, SendReadProfile, SendClaim, SendReadSeqno,
        SendBroadcast, SendDebit, SendClose, SendJournal, SendAbort, SetStatus,
        ChainExecute, ConfirmPayout, vars
  <2>2. QED
    BY <1>1, <2>1
<1>5. QED
  BY <1>2, <1>3, <1>4 DEF Next, MarkerStep

LEMMA LedgerStep ==
  TypedInv /\ TypedInv' /\ NoLostReward /\ LedgerInv /\ [Next]_vars
    => NoLostReward' /\ LedgerInv'
<1> SUFFICES ASSUME TypedInv, TypedInv', NoLostReward, LedgerInv, [Next]_vars
             PROVE  NoLostReward' /\ LedgerInv'
  OBVIOUS
<1>1. \A p \in Partners : /\ balance'[p] + paidOut'[p] = earned'[p]
                          /\ paidOut'[p] >= 0
                          /\ earned[p] <= earned'[p]
  BY MoneyMoves, ContractKeeps DEF LedgerInv
<1>2. ASSUME NEW a \in Markers, mPc'[a] # "idle"
      PROVE  mBal'[a] <= earned'[mWho'[a]]
  <2>1. /\ balance \in [Partners -> Nat] /\ earned \in [Partners -> Nat]
        /\ earned' \in [Partners -> Nat] /\ paidOut \in [Partners -> Int]
        /\ mBal[a] \in Nat
    BY DEF TypedInv, TypeOK, RowsTyped, HistoryTyped, MarkersTyped
  <2>2. CASE mPc[a] # "idle" /\ mBal'[a] = mBal[a] /\ mWho'[a] = mWho[a]
    <3>1. mWho[a] \in Partners /\ mBal[a] <= earned[mWho[a]]
      BY <2>2 DEF TypedInv, LocalsOK, MarkerLocal, LedgerInv
    <3>2. QED
      BY <1>1, <2>1, <2>2, <3>1
  <2>3. CASE /\ mWho'[a] \in Partners /\ mBal'[a] = balance[mWho'[a]]
             /\ UNCHANGED earned
    <3>1. PICK p \in Partners : p = mWho'[a]
      BY <2>3
    <3>2. balance[p] + paidOut[p] = earned[p] /\ paidOut[p] >= 0
      BY DEF NoLostReward, LedgerInv
    <3>3. QED
      BY <2>1, <2>3, <3>1, <3>2
  <2>4. QED
    BY <1>2, <2>2, <2>3, CopyStep
<1>3. QED
  BY <1>1, <1>2 DEF NoLostReward, LedgerInv

LEMMA LedgerAlways == Spec => [](TypedInv /\ NoLostReward /\ LedgerInv)
<1>1. Init => NoLostReward /\ LedgerInv
  <2> SUFFICES ASSUME Init, NEW p \in Partners
               PROVE  balance[p] + paidOut[p] = earned[p] /\ paidOut[p] >= 0
    BY DEF Init, NoLostReward, LedgerInv
  <2>1. balance[p] = 0 /\ paidOut[p] = 0 /\ earned[p] = 0
    BY DEF Init
  <2>2. QED
    BY <2>1
<1>2. QED
  BY <1>1, TypedStep, LedgerStep, TypedInit, PTL DEF Spec

\* The optimistic handlers implement in-place updates of the balance, for any
\* number of senders, markers and rewards at once: what a payout takes is
\* covered, and a rollback gives back no more than was taken.
THEOREM LedgerImplemented == Spec => LedgerKept
<1>1. Init => Ledger!Init
  BY DEF Init, Ledger!Init
<1>2. QED
  BY <1>1, MoneyMoves, LedgerAlways, PTL DEF Spec, LedgerKept, Ledger!Spec

\* A partner's balance always is what was earned less the net debits booked
\* against it: no reward is lost, none is credited out of thin air.
THEOREM RewardsKept == Spec => []NoLostReward
  BY LedgerAlways, PTL

\* Nobody can ask for more than was earned, whatever is booked and undone.
NeverOverpaid == \A p \in Partners : 0 <= paidOut[p] /\ paidOut[p] <= earned[p]

THEOREM PaidFromEarnings == Spec => []NeverOverpaid
<1>1. TypedInv /\ NoLostReward /\ LedgerInv => NeverOverpaid
  <2> SUFFICES ASSUME TypedInv, NoLostReward, LedgerInv, NEW p \in Partners
               PROVE  0 <= paidOut[p] /\ paidOut[p] <= earned[p]
    BY DEF NeverOverpaid
  <2>1. /\ balance[p] \in Nat /\ earned[p] \in Nat /\ paidOut[p] \in Int
        /\ balance[p] + paidOut[p] = earned[p] /\ paidOut[p] >= 0
    BY DEF TypedInv, TypeOK, RowsTyped, HistoryTyped, NoLostReward, LedgerInv
  <2>2. QED
    BY <2>1
<1>2. QED
  BY <1>1, LedgerAlways, PTL

-----------------------------------------------------------------------------
(***************************************************************************)
(* One call at a time closes a request, and what its journal, reference    *)
(* and confirmation say then holds for good.                               *)
(***************************************************************************)

\* The calls that have closed the request and have not yet returned.
SenderCloses(w, r) == sPc[w] = "journal" /\ sReq[w] = r
MarkerUndoes(a, r) == mPc[a] \in {"undoBoth", "undoRequest"} /\ mReq[a] = r
MarkerCloses(a, r) == MarkerUndoes(a, r) \/ (mPc[a] = "journal" /\ mReq[a] = r)

CloserInv(r) ==
  /\ \A w \in Senders : SenderCloses(w, r) => status[r] = "sent" /\ journal[r] = 0
  /\ \A a \in Markers : MarkerCloses(a, r) =>
       status[r] = "sent" /\ journal[r] = 0 /\ ref[r] = NoRef /\ confirmed[r] = NoRef
  /\ \A a \in Markers : MarkerUndoes(a, r) => r \in undone
  /\ \A v, w \in Senders : SenderCloses(v, r) /\ SenderCloses(w, r) => v = w
  /\ \A a, b \in Markers : MarkerCloses(a, r) /\ MarkerCloses(b, r) => a = b
  /\ \A w \in Senders, a \in Markers : ~(SenderCloses(w, r) /\ MarkerCloses(a, r))

PaidUnder(r, n) == n < Len(chain) /\ chain[n + 1] = r

RowInv(r) ==
  /\ status[r] # "sent" => journal[r] = 0 /\ ref[r] = NoRef /\ confirmed[r] = NoRef
  /\ journal[r] <= 1
  /\ confirmed[r] # NoRef => PaidUnder(r, confirmed[r])

OneCloser == \A r \in Requests : CloserInv(r) /\ RowInv(r)

LEMMA CloserInit == Init => OneCloser
  BY DEF Init, OneCloser, CloserInv, RowInv, SenderCloses, MarkerCloses, MarkerUndoes

\* What a step may do to the row of a request and to the calls that closed it.
NoNewSender(r) == \A w \in Senders : SenderCloses(w, r)' => SenderCloses(w, r)
NoNewMarker(r) ==
  \A a \in Markers : /\ MarkerCloses(a, r)' => MarkerCloses(a, r)
                     /\ MarkerUndoes(a, r)' => MarkerUndoes(a, r) \/ r \in undone'
NoNewCloser(r) == NoNewSender(r) /\ NoNewMarker(r)

Frame(r) == /\ undone \subseteq undone'
            /\ \A n \in Nat : PaidUnder(r, n) => PaidUnder(r, n)'

SameRef(r) == ref'[r] = ref[r] /\ confirmed'[r] = confirmed[r]
SameRow(r) == status'[r] = status[r] /\ journal'[r] = journal[r] /\ SameRef(r)

Open(s) == s \notin Final

\* Nothing happens to it, or an unsettled request gets another status.
Rests(r) == NoNewCloser(r) /\ SameRow(r)
Turns(r) ==
  /\ NoNewCloser(r) /\ SameRef(r) /\ journal'[r] = journal[r]
  /\ Open(status[r]) /\ status'[r] # "sent"
\* A sender, or a marker, writes 'sent' and becomes the one that closed it.
SenderSends(w, r) ==
  /\ NoNewMarker(r) /\ \A v \in Senders : SenderCloses(v, r)' => v = w \/ SenderCloses(v, r)
  /\ Open(status[r]) /\ status'[r] = "sent"
  /\ journal'[r] = journal[r] /\ confirmed'[r] = confirmed[r]
MarkerSends(a, r) ==
  /\ NoNewSender(r) /\ \A b \in Markers : MarkerCloses(b, r)' => b = a \/ MarkerCloses(b, r)
  /\ \A b \in Markers : MarkerUndoes(b, r)' => MarkerUndoes(b, r)
  /\ Open(status[r]) /\ status'[r] = "sent"
  /\ journal'[r] = journal[r] /\ SameRef(r)
\* The one that closed it writes the event row and returns.
SenderWrites(w, r) ==
  /\ NoNewCloser(r) /\ SenderCloses(w, r) /\ ~SenderCloses(w, r)'
  /\ status'[r] = status[r] /\ SameRef(r) /\ journal'[r] = journal[r] + 1
MarkerWrites(a, r) ==
  /\ NoNewCloser(r) /\ MarkerCloses(a, r) /\ ~MarkerCloses(a, r)'
  /\ status'[r] = status[r] /\ SameRef(r) /\ journal'[r] = journal[r] + 1
\* A marker takes its own closing back.
Reverts(a, r) ==
  /\ NoNewCloser(r) /\ MarkerUndoes(a, r) /\ ~MarkerCloses(a, r)'
  /\ SameRef(r) /\ journal'[r] = journal[r] /\ status'[r] # "sent"
\* The reference gives way to the hash of the transfer found on chain.
Confirmed(r) ==
  /\ NoNewCloser(r) /\ status'[r] = status[r] /\ journal'[r] = journal[r]
  /\ status[r] = "sent" /\ ref[r] # NoRef /\ ref'[r] = NoRef
  /\ confirmed'[r] = ref[r] /\ PaidUnder(r, ref[r])

RowMoves(r) ==
  /\ Frame(r)
  /\ \/ Rests(r) \/ Turns(r) \/ Confirmed(r)
     \/ \E w \in Senders : SenderSends(w, r) \/ SenderWrites(w, r)
     \/ \E a \in Markers : MarkerSends(a, r) \/ MarkerWrites(a, r) \/ Reverts(a, r)

LEMMA MovesKeep ==
  ASSUME NEW r \in Requests, TypeOK, TypeOK', CloserInv(r), RowInv(r), RowMoves(r)
  PROVE  CloserInv(r)' /\ RowInv(r)'
<1>0. /\ journal[r] \in Nat /\ ref[r] \in Nat \cup {NoRef}
      /\ confirmed[r] \in Nat \cup {NoRef}
  BY DEF TypeOK, RowsTyped
<1>1. CASE Rests(r)
  BY <1>0, <1>1 DEF RowMoves, Frame, Rests, SameRow, SameRef, NoNewCloser, NoNewSender,
     NoNewMarker, CloserInv, RowInv
<1>2. CASE Turns(r)
  BY <1>0, <1>2 DEF RowMoves, Frame, Turns, Open, Final, SameRef, NoNewCloser, NoNewSender,
     NoNewMarker, CloserInv, RowInv
<1>3. CASE Confirmed(r)
  BY <1>0, <1>3 DEF RowMoves, Frame, Confirmed, NoNewCloser, NoNewSender,
     NoNewMarker, CloserInv, RowInv
<1>4. ASSUME NEW w \in Senders, SenderSends(w, r)
      PROVE  CloserInv(r)' /\ RowInv(r)'
  BY <1>0, <1>4 DEF RowMoves, Frame, SenderSends, Open, Final, NoNewMarker, CloserInv, RowInv
<1>5. ASSUME NEW w \in Senders, SenderWrites(w, r)
      PROVE  CloserInv(r)' /\ RowInv(r)'
  BY <1>0, <1>5 DEF RowMoves, Frame, SenderWrites, SameRef, NoNewCloser, NoNewSender,
     NoNewMarker, CloserInv, RowInv
<1>6. ASSUME NEW a \in Markers, MarkerSends(a, r)
      PROVE  CloserInv(r)' /\ RowInv(r)'
  BY <1>0, <1>6 DEF RowMoves, Frame, MarkerSends, SameRef, Open, Final, NoNewSender,
     CloserInv, RowInv
<1>7. ASSUME NEW a \in Markers, MarkerWrites(a, r)
      PROVE  CloserInv(r)' /\ RowInv(r)'
  BY <1>0, <1>7 DEF RowMoves, Frame, MarkerWrites, SameRef, NoNewCloser, NoNewSender,
     NoNewMarker, CloserInv, RowInv
<1>8. ASSUME NEW a \in Markers, Reverts(a, r)
      PROVE  CloserInv(r)' /\ RowInv(r)'
  BY <1>0, <1>8 DEF RowMoves, Frame, Reverts, SameRef, NoNewCloser, NoNewSender,
     NoNewMarker, CloserInv, RowInv, MarkerCloses
<1>9. QED
  BY <1>1, <1>2, <1>3, <1>4, <1>5, <1>6, <1>7, <1>8 DEF RowMoves

LEMMA MovesStep ==
  ASSUME TypedInv, [Next]_vars, NEW r \in Requests
  PROVE  RowMoves(r)
<1> USE DEF TypedInv, TypeOK
<1>0. /\ status \in [Requests -> Status] /\ ref \in [Requests -> Nat \cup {NoRef}]
      /\ confirmed \in [Requests -> Nat \cup {NoRef}] /\ journal \in [Requests -> Nat]
  BY DEF RowsTyped
<1>1. Frame(r)
  <2>1. undone \subseteq undone'
    <3>1. ASSUME NEW p \in Partners, PartnerStep(p) PROVE UNCHANGED undone
      BY <3>1 DEF PartnerStep, ApplyReward, AskForPayout, InsertRequest, history
    <3>2. ASSUME NEW w \in Senders, SenderStep(w) PROVE UNCHANGED undone
      BY <3>2 DEF SenderStep, SenderContinues, SendStart, SendReadProfile, SendClaim,
         SendReadSeqno, SendBroadcast, SendDebit, SendClose, SendJournal, SendAbort, history
    <3>3. ASSUME NEW a \in Markers, MarkerStep(a) PROVE undone \subseteq undone'
      BY <3>3 DEF MarkerStep, MarkStart, MarkReadRequest, MarkDebit, MarkClose,
         MarkJournal, MarkUndoBalance, MarkUndoRequest, MarkAbort, history
    <3>4. ASSUME NEW q \in Requests, NEW s \in AdminTargets, SetStatus(q, s) PROVE UNCHANGED undone
      BY <3>4 DEF SetStatus, history
    <3>5. ASSUME NEW m \in mempool, ChainExecute(m) PROVE UNCHANGED undone
      BY <3>5 DEF ChainExecute, history
    <3>6. ASSUME NEW q \in Requests, ConfirmPayout(q) PROVE UNCHANGED undone
      BY <3>6 DEF ConfirmPayout, history
    <3>7. CASE UNCHANGED vars
      BY <3>7 DEF vars, history
    <3>8. QED
      BY <3>1, <3>2, <3>3, <3>4, <3>5, <3>6, <3>7 DEF Next
  <2>2. UNCHANGED chain \/ \E m \in mempool : chain' = Append(chain, m.req)
    <3>1. ASSUME NEW p \in Partners, PartnerStep(p) PROVE UNCHANGED chain
      BY <3>1 DEF PartnerStep, ApplyReward, AskForPayout, InsertRequest, chainVars
    <3>2. ASSUME NEW w \in Senders, SenderStep(w) PROVE UNCHANGED chain
      BY <3>2 DEF SenderStep, SenderContinues, SendStart, SendReadProfile, SendClaim,
         SendReadSeqno, SendBroadcast, SendDebit, SendClose, SendJournal, SendAbort, chainVars
    <3>3. ASSUME NEW a \in Markers, MarkerStep(a) PROVE UNCHANGED chain
      BY <3>3 DEF MarkerStep, MarkStart, MarkReadRequest, MarkDebit, MarkClose,
         MarkJournal, MarkUndoBalance, MarkUndoRequest, MarkAbort, chainVars
    <3>4. ASSUME NEW q \in Requests, NEW s \in AdminTargets, SetStatus(q, s) PROVE UNCHANGED chain
      BY <3>4 DEF SetStatus, chainVars
    <3>5. ASSUME NEW q \in Requests, ConfirmPayout(q) PROVE UNCHANGED chain
      BY <3>5 DEF ConfirmPayout, chainVars
    <3>6. CASE UNCHANGED vars
      BY <3>6 DEF vars, chainVars
    <3>7. QED
      BY <3>1, <3>2, <3>3, <3>4, <3>5, <3>6 DEF Next, ChainExecute
  <2>3. \A n \in Nat : PaidUnder(r, n) => PaidUnder(r, n)'
    <3>1. CASE UNCHANGED chain
      BY <3>1 DEF PaidUnder
    <3>2. ASSUME NEW m \in mempool, chain' = Append(chain, m.req)
          PROVE  \A n \in Nat : PaidUnder(r, n) => PaidUnder(r, n)'
      <4>1. chain \in Seq(Requests) /\ m.req \in Requests
        BY DEF ChainTyped
      <4>2. /\ Len(chain') = Len(chain) + 1
            /\ \A i \in 1..Len(chain) : chain'[i] = chain[i]
        BY <3>2, <4>1
      <4>3. QED
        BY <4>1, <4>2 DEF PaidUnder
    <3>3. QED
      BY <2>2, <3>1, <3>2
  <2>4. QED
    BY <2>1, <2>3 DEF Frame
<1>2. ASSUME UNCHANGED <<status, journal, ref, confirmed>>, NoNewCloser(r)
      PROVE  RowMoves(r)
  BY <1>1, <1>2 DEF RowMoves, Rests, SameRow, SameRef
<1>3. ASSUME UNCHANGED markerVars
      PROVE  NoNewMarker(r)
  BY <1>3 DEF markerVars, NoNewMarker, MarkerCloses, MarkerUndoes
<1>4. ASSUME UNCHANGED senderVars
      PROVE  NoNewSender(r)
  BY <1>4 DEF senderVars, NoNewSender, SenderCloses
<1>5. ASSUME NEW p \in Partners, PartnerStep(p)
      PROVE  RowMoves(r)
  <2>1. NoNewCloser(r)
    BY <1>3, <1>4, <1>5 DEF PartnerStep, ApplyReward, AskForPayout, InsertRequest, NoNewCloser
  <2>2. /\ journal'[r] = journal[r] /\ SameRef(r)
        /\ status'[r] = status[r] \/ (status[r] = "none" /\ status'[r] = "requested")
    BY <1>0, <1>5 DEF PartnerStep, ApplyReward, AskForPayout, InsertRequest, rowVars, SameRef
  <2>3. QED
    BY <1>1, <2>1, <2>2 DEF RowMoves, Rests, SameRow, Turns, Open, Final
<1>6. ASSUME NEW q \in Requests, NEW s \in AdminTargets, SetStatus(q, s)
      PROVE  RowMoves(r)
  <2>1. NoNewCloser(r)
    BY <1>3, <1>4, <1>6 DEF SetStatus, NoNewCloser
  <2>2. /\ journal'[r] = journal[r] /\ SameRef(r)
        /\ status'[r] = status[r] \/ (status[r] \in Active /\ status'[r] # "sent")
    BY <1>0, <1>6 DEF SetStatus, AdminTargets, SameRef
  <2>3. QED
    BY <1>1, <2>1, <2>2 DEF RowMoves, Rests, SameRow, Turns, Open, Final
<1>7. ASSUME NEW w \in Senders, SenderStep(w)
      PROVE  RowMoves(r)
  <2>1. sPc[w] # "idle" => sReq[w] \in Requests
    BY DEF LocalsOK, SenderLocal
  <2>2. NoNewMarker(r)
    BY <1>3, <1>7 DEF SenderStep, SenderContinues, SendStart, SendReadProfile, SendClaim,
       SendReadSeqno, SendBroadcast, SendDebit, SendClose, SendJournal, SendAbort
  <2>3. \A v \in Senders : v # w => sPc'[v] = sPc[v] /\ sReq'[v] = sReq[v]
    BY <1>7 DEF SenderStep, SenderContinues, SendStart, SendReadProfile, SendClaim,
       SendReadSeqno, SendBroadcast, SendDebit, SendClose, SendJournal, SendAbort,
       SenderStops, SenderGoes, SendersTyped, DebitMissed
  <2>4. \A v \in Senders : SenderCloses(v, r)' => v = w \/ SenderCloses(v, r)
    BY <2>3 DEF SenderCloses
  <2>5. ASSUME sPc'[w] # "journal" PROVE NoNewCloser(r)
    BY <2>2, <2>4, <2>5 DEF NoNewCloser, NoNewSender, SenderCloses
  <2>6. ASSUME sPc'[w] # "journal", UNCHANGED <<status, journal, ref, confirmed>>
        PROVE  RowMoves(r)
    BY <1>2, <2>5, <2>6
  <2>7. CASE \E q \in Requests : SendStart(w, q)
    BY <2>6, <2>7 DEF SendStart, rowVars, SendersTyped
  <2>8. CASE SendReadProfile(w) \/ SendReadSeqno(w) \/ SendBroadcast(w) \/ SendAbort(w)
    BY <2>6, <2>8 DEF SendReadProfile, SendReadSeqno, SendBroadcast, SendAbort,
       SenderStops, SenderGoes, rowVars, SendersTyped
  <2>9. CASE SendDebit(w)
    BY <2>6, <2>9 DEF SendDebit, SenderStops, SenderGoes, SendersTyped
  <2>10. CASE SendClaim(w)
    <3>1. sPc'[w] # "journal"
      BY <2>10 DEF SendClaim, SenderStops, SenderGoes, SendersTyped
    <3>2. /\ journal'[r] = journal[r] /\ SameRef(r)
          /\ status'[r] = status[r] \/ (status[r] \in Sendable /\ status'[r] = "sending")
      BY <1>0, <2>10 DEF SendClaim, SameRef
    <3>3. QED
      BY <1>1, <2>5, <3>1, <3>2 DEF RowMoves, Rests, SameRow, Turns, Open, Final
  <2>11. CASE SendClose(w)
    <3>1. UNCHANGED <<journal, confirmed>>
      BY <2>11 DEF SendClose
    <3>2. CASE UNCHANGED <<status, ref>> /\ SenderStops(w)
      BY <2>6, <3>1, <3>2 DEF SenderStops, SendersTyped
    <3>3. CASE /\ status[sReq[w]] = "sending" /\ status' = [status EXCEPT ![sReq[w]] = "sent"]
               /\ ref' = [ref EXCEPT ![sReq[w]] = sSeq[w]] /\ SenderGoes(w, "journal")
      <4>1. CASE sReq[w] = r
        <5>1. status[r] = "sending" /\ status'[r] = "sent"
          BY <1>0, <3>3, <4>1
        <5>2. QED
          BY <1>1, <2>2, <2>4, <3>1, <5>1 DEF RowMoves, SenderSends, Open, Final
      <4>2. CASE sReq[w] # r
        <5>1. SameRow(r)
          BY <1>0, <3>1, <3>3, <4>2 DEF SameRow, SameRef
        <5>2. ~SenderCloses(w, r)'
          BY <3>3, <4>2 DEF SenderGoes, SenderCloses
        <5>3. NoNewCloser(r)
          BY <2>2, <2>4, <5>2 DEF NoNewCloser, NoNewSender
        <5>4. QED
          BY <1>1, <5>1, <5>3 DEF RowMoves, Rests
      <4>3. QED
        BY <4>1, <4>2
    <3>4. QED
      BY <2>11, <3>2, <3>3 DEF SendClose
  <2>12. CASE SendJournal(w)
    <3>1. sPc[w] = "journal" /\ sPc'[w] = "idle" /\ UNCHANGED <<status, ref, confirmed>>
      BY <2>12 DEF SendJournal, SenderStops, SendersTyped
    <3>2. NoNewCloser(r)
      BY <2>5, <3>1
    <3>3. journal'[r] = journal[r] \/ (sReq[w] = r /\ journal'[r] = journal[r] + 1)
      BY <1>0, <2>1, <2>12 DEF SendJournal
    <3>4. QED
      BY <1>1, <3>1, <3>2, <3>3
      DEF RowMoves, Rests, SameRow, SameRef, SenderWrites, SenderCloses
  <2>13. QED
    BY <1>7, <2>7, <2>8, <2>9, <2>10, <2>11, <2>12 DEF SenderStep, SenderContinues
<1>8. ASSUME NEW a \in Markers, MarkerStep(a)
      PROVE  RowMoves(r)
  <2>1. NoNewSender(r)
    BY <1>4, <1>8 DEF MarkerStep, MarkStart, MarkReadRequest, MarkDebit, MarkClose,
       MarkJournal, MarkUndoBalance, MarkUndoRequest, MarkAbort
  <2>2. \A b \in Markers : b # a => mPc'[b] = mPc[b] /\ mReq'[b] = mReq[b]
    BY <1>8 DEF MarkerStep, MarkStart, MarkReadRequest, MarkDebit, MarkClose,
       MarkJournal, MarkUndoBalance, MarkUndoRequest, MarkAbort, MarkerStops,
       MarkerGoes, MarkersTyped, BookingMissed
  <2>3. \A b \in Markers : b # a => (MarkerCloses(b, r)' <=> MarkerCloses(b, r))
                                 /\ (MarkerUndoes(b, r)' <=> MarkerUndoes(b, r))
    BY <2>2 DEF MarkerCloses, MarkerUndoes
  <2>4. ASSUME ~MarkerCloses(a, r)' PROVE NoNewCloser(r)
    BY <2>1, <2>3, <2>4 DEF NoNewCloser, NoNewMarker, MarkerCloses
  <2>5. ASSUME ~MarkerCloses(a, r)', UNCHANGED <<status, journal, ref, confirmed>>
        PROVE  RowMoves(r)
    BY <1>2, <2>4, <2>5
  <2>6. CASE (\E p \in Partners : MarkStart(a, p)) \/ MarkReadRequest(a) \/ MarkAbort(a)
    <3>1. mPc'[a] \in {"idle", "request", "debit"}
      BY <2>6 DEF MarkStart, MarkReadRequest, MarkAbort, MarkerStops, MarkersTyped
    <3>2. UNCHANGED <<status, journal, ref, confirmed>>
      BY <2>6 DEF MarkStart, MarkReadRequest, MarkAbort, rowVars
    <3>3. QED
      BY <2>5, <3>1, <3>2 DEF MarkerCloses, MarkerUndoes
  <2>7. CASE MarkDebit(a)
    <3>1. mPc'[a] \in {"idle", "close"} \/ (mPc'[a] = "journal" /\ mReq'[a] = Nothing)
      BY <2>7 DEF MarkDebit, MarkerStops, MarkerGoes, MarkersTyped
    <3>2. UNCHANGED <<status, journal, ref, confirmed>>
      BY <2>7 DEF MarkDebit
    <3>3. ~MarkerCloses(a, r)'
      BY <3>1 DEF MarkerCloses, MarkerUndoes
    <3>4. QED
      BY <2>5, <3>2, <3>3
  <2>8. CASE MarkClose(a)
    <3>1. UNCHANGED <<journal, ref, confirmed, mReq>>
      BY <2>8 DEF MarkClose, MarkerGoes
    <3>2. CASE UNCHANGED status /\ MarkerGoes(a, "undoBalance")
      BY <2>5, <3>1, <3>2 DEF MarkerGoes, MarkersTyped, MarkerCloses, MarkerUndoes
    <3>3. CASE /\ status[mReq[a]] \in Active /\ status' = [status EXCEPT ![mReq[a]] = "sent"]
               /\ MarkerGoes(a, "journal")
      <4>1. ~MarkerUndoes(a, r)'
        BY <3>3 DEF MarkerGoes, MarkersTyped, MarkerUndoes
      <4>2. CASE mReq[a] = r
        <5>1. status[r] \in Active /\ status'[r] = "sent"
          BY <1>0, <3>3, <4>2
        <5>2. QED
          BY <1>1, <2>1, <2>3, <3>1, <4>1, <5>1
          DEF RowMoves, MarkerSends, SameRef, Open, Final
      <4>3. CASE mReq[a] # r
        <5>1. SameRow(r)
          BY <1>0, <3>1, <3>3, <4>3 DEF SameRow, SameRef
        <5>2. ~MarkerCloses(a, r)'
          BY <3>1, <4>3 DEF MarkerCloses, MarkerUndoes
        <5>3. QED
          BY <1>1, <2>4, <5>1, <5>2 DEF RowMoves, Rests
      <4>4. QED
        BY <4>2, <4>3
    <3>4. QED
      BY <2>8, <3>2, <3>3 DEF MarkClose
  <2>9. CASE MarkJournal(a)
    <3>1. mPc[a] = "journal" /\ UNCHANGED <<status, ref, confirmed>>
      BY <2>9 DEF MarkJournal
    <3>2. CASE MarkerStops(a)
      <4>1. ~MarkerCloses(a, r)'
        BY <3>2 DEF MarkerStops, MarkersTyped, MarkerCloses, MarkerUndoes
      <4>2. journal'[r] = journal[r] \/ (mReq[a] = r /\ journal'[r] = journal[r] + 1)
        BY <1>0, <2>9 DEF MarkJournal, MarkersTyped
      <4>3. QED
        BY <1>1, <2>4, <3>1, <4>1, <4>2
        DEF RowMoves, Rests, SameRow, SameRef, MarkerWrites, MarkerCloses
    <3>3. CASE /\ MarkerGoes(a, IF mReq[a] = Nothing THEN "undoBalance" ELSE "undoBoth")
               /\ undone' = undone \cup ({mReq[a]} \cap Requests) /\ UNCHANGED journal
      <4>1. MarkerCloses(a, r)' => mReq[a] = r /\ r \in undone'
        BY <3>3 DEF MarkerGoes, MarkersTyped, MarkerCloses, MarkerUndoes
      <4>2. NoNewCloser(r)
        BY <2>1, <2>3, <3>1, <4>1 DEF NoNewCloser, NoNewMarker, MarkerCloses
      <4>3. QED
        BY <1>2, <3>1, <3>3, <4>2
    <3>4. QED
      BY <2>9, <3>2, <3>3 DEF MarkJournal
  <2>10. CASE MarkUndoBalance(a)
    <3>1. UNCHANGED <<status, journal, ref, confirmed>>
      BY <2>10 DEF MarkUndoBalance
    <3>2. CASE mPc[a] = "undoBoth" /\ MarkerGoes(a, "undoRequest")
      <4>1. MarkerCloses(a, r)' => MarkerUndoes(a, r)
        BY <3>2 DEF MarkerGoes, MarkersTyped, MarkerCloses, MarkerUndoes
      <4>2. NoNewCloser(r)
        BY <2>1, <2>3, <4>1 DEF NoNewCloser, NoNewMarker, MarkerCloses
      <4>3. QED
        BY <1>2, <3>1, <4>2
    <3>3. CASE MarkerStops(a)
      BY <2>5, <3>1, <3>3 DEF MarkerStops, MarkersTyped, MarkerCloses, MarkerUndoes
    <3>4. QED
      BY <2>10, <3>2, <3>3 DEF MarkUndoBalance
  <2>11. CASE MarkUndoRequest(a)
    <3>1. /\ mPc[a] = "undoRequest" /\ MarkerStops(a)
          /\ UNCHANGED <<journal, ref, confirmed>>
      BY <2>11 DEF MarkUndoRequest
    <3>2. ~MarkerCloses(a, r)'
      BY <3>1 DEF MarkerStops, MarkersTyped, MarkerCloses, MarkerUndoes
    <3>3. mWas[a] \in Active
      BY <3>1 DEF LocalsOK, MarkerLocal
    <3>4. status'[r] = status[r] \/ (mReq[a] = r /\ status'[r] = mWas[a])
      BY <1>0, <2>11 DEF MarkUndoRequest
    <3>5. QED
      BY <1>1, <2>4, <3>1, <3>2, <3>3, <3>4
      DEF RowMoves, Rests, SameRow, SameRef, Reverts, MarkerUndoes
  <2>12. QED
    BY <1>8, <2>6, <2>7, <2>8, <2>9, <2>10, <2>11 DEF MarkerStep
<1>9. ASSUME NEW m \in mempool, ChainExecute(m)
      PROVE  RowMoves(r)
  BY <1>2, <1>3, <1>4, <1>9 DEF ChainExecute, rowVars, NoNewCloser
<1>10. ASSUME NEW q \in Requests, ConfirmPayout(q)
       PROVE  RowMoves(r)
  <2>1. NoNewCloser(r) /\ UNCHANGED <<status, journal>>
    BY <1>3, <1>4, <1>10 DEF ConfirmPayout, NoNewCloser
  <2>2. CASE q = r
    <3>1. ref'[r] = NoRef /\ confirmed'[r] = ref[r]
      BY <1>0, <1>10, <2>2 DEF ConfirmPayout
    <3>2. status[r] = "sent" /\ ref[r] # NoRef /\ PaidUnder(r, ref[r])
      BY <1>10, <2>2 DEF ConfirmPayout, CarriesMemo, PaidUnder
    <3>3. QED
      BY <1>1, <2>1, <3>1, <3>2 DEF RowMoves, Confirmed
  <2>3. CASE q # r
    BY <1>0, <1>1, <1>10, <2>1, <2>3 DEF ConfirmPayout, RowMoves, Rests, SameRow, SameRef
  <2>4. QED
    BY <2>2, <2>3
<1>11. CASE UNCHANGED vars
  BY <1>2, <1>3, <1>4, <1>11 DEF vars, rowVars, NoNewCloser
<1>12. QED
  BY <1>5, <1>6, <1>7, <1>8, <1>9, <1>10, <1>11 DEF Next

LEMMA CloserStep == TypedInv /\ OneCloser /\ [Next]_vars => OneCloser'
<1> SUFFICES ASSUME TypedInv, OneCloser, [Next]_vars, NEW r \in Requests
             PROVE  CloserInv(r)' /\ RowInv(r)'
  BY DEF OneCloser
<1>1. TypeOK /\ TypeOK'
  BY TypedStep DEF TypedInv
<1>2. CloserInv(r) /\ RowInv(r)
  BY DEF OneCloser
<1>3. RowMoves(r)
  BY MovesStep
<1>4. QED
  BY <1>1, <1>2, <1>3, MovesKeep

LEMMA CloserAlways == Spec => [](TypedInv /\ OneCloser)
  BY TypedInit, TypedStep, CloserInit, CloserStep, PTL DEF Spec

\* For any number of senders and markers: a request has at most one event row
\* in the journal, and has it only while it is 'sent'.
THEOREM JournalOnce == Spec => []JournaledOnce
<1>1. TypedInv /\ OneCloser => JournaledOnce
  BY DEF TypedInv, TypeOK, RowsTyped, OneCloser, RowInv, JournaledOnce
<1>2. QED
  BY <1>1, CloserAlways, PTL

\* For any number of senders that signed with one seqno: a hash is attached
\* only to a request that is 'sent' and that the wallet paid under that seqno.
THEOREM ConfirmedPaid == Spec => []ConfirmedIsPaid
<1>1. TypedInv /\ OneCloser => ConfirmedIsPaid
  BY DEF OneCloser, RowInv, PaidUnder, ConfirmedIsPaid
<1>2. QED
  BY <1>1, CloserAlways, PTL

\* Nothing but the rollback of its own marker, before the event row, takes a
\* settled request back, whatever senders and administrators do to it.
THEOREM SettledForGood == Spec => SettledStays
<1>1. TypedInv /\ OneCloser /\ [Next]_vars =>
        [\A r \in Requests :
           /\ status[r] \in {"failed", "cancelled"} => status'[r] = status[r]
           /\ status[r] = "sent" /\ status'[r] # "sent" =>
                r \in undone /\ journal[r] = 0 /\ ref[r] = NoRef]_vars
  <2> SUFFICES ASSUME TypedInv, OneCloser, [Next]_vars, NEW r \in Requests
               PROVE  /\ status[r] \in {"failed", "cancelled"} => status'[r] = status[r]
                      /\ status[r] = "sent" /\ status'[r] # "sent" =>
                           r \in undone /\ journal[r] = 0 /\ ref[r] = NoRef
    OBVIOUS
  <2>1. CloserInv(r) /\ RowMoves(r)
    BY MovesStep DEF OneCloser
  <2>2. (\E a \in Markers : Reverts(a, r)) =>
          status[r] = "sent" /\ r \in undone /\ journal[r] = 0 /\ ref[r] = NoRef
    BY <2>1 DEF Reverts, CloserInv, MarkerCloses
  <2>3. QED
    BY <2>1, <2>2 DEF RowMoves, Rests, SameRow, Turns, Open, Final, Confirmed,
       SenderSends, SenderWrites, MarkerSends, MarkerWrites
<1>2. QED
  BY <1>1, CloserAlways, PTL DEF Spec, SettledStays

-----------------------------------------------------------------------------
(***************************************************************************)
(* What is closed as 'sent' was debited.                                   *)
(***************************************************************************)

\* Calls that have debited the balance for the request and not returned yet,
\* and the request's own claim on a debit once it is settled.
SenderOwes(r) == {w \in Senders : sPc[w] = "close" /\ sReq[w] = r}
Paying == {"close", "journal", "undoBalance", "undoBoth"}
MarkerOwes(r) == {a \in Markers : mPc[a] \in Paying /\ mReq[a] = r}
Writing(a, r) == mPc[a] = "journal" /\ mReq[a] = r
Settled(r) ==
  status[r] = "sent" /\ r \notin undone /\ \A a \in Markers : ~Writing(a, r)

\* Each of these has a net debit of its own.
DebitInv(r) ==
  debits[r] >= Cardinality(SenderOwes(r)) + Cardinality(MarkerOwes(r))
               + (IF Settled(r) THEN 1 ELSE 0)
EachDebited == \A r \in Requests : DebitInv(r)

LEMMA DebitInit == Init => EachDebited
<1> SUFFICES ASSUME Init, NEW r \in Requests PROVE DebitInv(r)
  BY DEF EachDebited
<1>1. SenderOwes(r) = {} /\ MarkerOwes(r) = {} /\ ~Settled(r) /\ debits[r] = 0
  BY DEF Init, SenderOwes, MarkerOwes, Paying, Settled
<1>2. QED
  BY <1>1, FS_EmptySet DEF DebitInv

LEMMA OwesFinite ==
  ASSUME NEW r \in Requests
  PROVE  /\ IsFiniteSet(SenderOwes(r)) /\ Cardinality(SenderOwes(r)) \in Nat
         /\ IsFiniteSet(MarkerOwes(r)) /\ Cardinality(MarkerOwes(r)) \in Nat
  BY FiniteCalls, FS_Subset, FS_CardinalityType DEF SenderOwes, MarkerOwes

\* What a step may do to the debits of a request and to the calls that owe them.
NoNewSettled(r) == Settled(r)' => Settled(r)
Keeps(r) ==
  /\ SenderOwes(r)' \subseteq SenderOwes(r) /\ MarkerOwes(r)' \subseteq MarkerOwes(r)
  /\ NoNewSettled(r) /\ debits'[r] = debits[r]
SenderDebits(w, r) ==
  /\ w \notin SenderOwes(r) /\ SenderOwes(r)' = SenderOwes(r) \cup {w}
  /\ MarkerOwes(r)' = MarkerOwes(r) /\ NoNewSettled(r) /\ debits'[r] = debits[r] + 1
SenderSettles(w, r) ==
  /\ w \in SenderOwes(r) /\ SenderOwes(r)' = SenderOwes(r) \ {w}
  /\ MarkerOwes(r)' = MarkerOwes(r) /\ ~Settled(r) /\ debits'[r] = debits[r]
MarkerDebits(a, r) ==
  /\ a \notin MarkerOwes(r) /\ MarkerOwes(r)' = MarkerOwes(r) \cup {a}
  /\ SenderOwes(r)' = SenderOwes(r) /\ NoNewSettled(r) /\ debits'[r] = debits[r] + 1
MarkerSettles(a, r) ==
  /\ a \in MarkerOwes(r) /\ MarkerOwes(r)' = MarkerOwes(r) \ {a}
  /\ SenderOwes(r)' = SenderOwes(r) /\ ~Settled(r) /\ debits'[r] = debits[r]
MarkerRestores(a, r) ==
  /\ a \in MarkerOwes(r) /\ MarkerOwes(r)' = MarkerOwes(r) \ {a}
  /\ SenderOwes(r)' = SenderOwes(r) /\ NoNewSettled(r)
  /\ debits'[r] = debits[r] \/ debits'[r] = debits[r] - 1

DebitMoves(r) ==
  \/ Keeps(r)
  \/ \E w \in Senders : SenderDebits(w, r) \/ SenderSettles(w, r)
  \/ \E a \in Markers : MarkerDebits(a, r) \/ MarkerSettles(a, r) \/ MarkerRestores(a, r)

LEMMA DebitsKeep ==
  ASSUME NEW r \in Requests, TypeOK, TypeOK', DebitInv(r), DebitMoves(r)
  PROVE  DebitInv(r)'
<1>0. debits[r] \in Int /\ debits'[r] \in Int
  BY DEF TypeOK, HistoryTyped
<1>1. CASE Keeps(r)
  <2>1. /\ Cardinality(SenderOwes(r)') <= Cardinality(SenderOwes(r))
        /\ Cardinality(SenderOwes(r)') \in Nat
    BY <1>1, OwesFinite, FS_Subset, FS_CardinalityType DEF Keeps
  <2>2. /\ Cardinality(MarkerOwes(r)') <= Cardinality(MarkerOwes(r))
        /\ Cardinality(MarkerOwes(r)') \in Nat
    BY <1>1, OwesFinite, FS_Subset, FS_CardinalityType DEF Keeps
  <2>3. QED
    BY <1>0, <1>1, <2>1, <2>2, OwesFinite DEF Keeps, NoNewSettled, DebitInv
<1>2. ASSUME NEW w \in Senders, SenderDebits(w, r)
      PROVE  DebitInv(r)'
  <2>1. Cardinality(SenderOwes(r)') = Cardinality(SenderOwes(r)) + 1
    BY <1>2, OwesFinite, FS_AddElement DEF SenderDebits
  <2>2. QED
    BY <1>0, <1>2, <2>1, OwesFinite DEF SenderDebits, NoNewSettled, DebitInv
<1>3. ASSUME NEW w \in Senders, SenderSettles(w, r)
      PROVE  DebitInv(r)'
  <2>1. Cardinality(SenderOwes(r)') = Cardinality(SenderOwes(r)) - 1
    BY <1>3, OwesFinite, FS_RemoveElement DEF SenderSettles
  <2>2. /\ MarkerOwes(r)' = MarkerOwes(r) /\ ~Settled(r) /\ debits'[r] = debits[r]
    BY <1>3 DEF SenderSettles
  <2>3. /\ Cardinality(SenderOwes(r)) + Cardinality(MarkerOwes(r)) <= debits[r]
    BY <2>2, <1>0, OwesFinite DEF DebitInv
  <2>4. QED
    BY <1>0, <2>1, <2>2, <2>3, OwesFinite DEF DebitInv
<1>4. ASSUME NEW a \in Markers, MarkerDebits(a, r)
      PROVE  DebitInv(r)'
  <2>1. Cardinality(MarkerOwes(r)') = Cardinality(MarkerOwes(r)) + 1
    BY <1>4, OwesFinite, FS_AddElement DEF MarkerDebits
  <2>2. QED
    BY <1>0, <1>4, <2>1, OwesFinite DEF MarkerDebits, NoNewSettled, DebitInv
<1>5. ASSUME NEW a \in Markers, MarkerSettles(a, r) \/ MarkerRestores(a, r)
      PROVE  DebitInv(r)'
  <2>1. Cardinality(MarkerOwes(r)') = Cardinality(MarkerOwes(r)) - 1
    BY <1>5, OwesFinite, FS_RemoveElement DEF MarkerSettles, MarkerRestores
  <2>2. CASE MarkerSettles(a, r)
    BY <1>0, <2>1, <2>2, OwesFinite DEF MarkerSettles, DebitInv
  <2>3. CASE MarkerRestores(a, r)
    BY <1>0, <2>1, <2>3, OwesFinite DEF MarkerRestores, NoNewSettled, DebitInv
  <2>4. QED
    BY <1>5, <2>2, <2>3
<1>6. QED
  BY <1>1, <1>2, <1>3, <1>4, <1>5 DEF DebitMoves

LEMMA DebitMovesStep ==
  ASSUME TypedInv, [Next]_vars, NEW r \in Requests
  PROVE  DebitMoves(r)
<1> USE DEF TypedInv, TypeOK
<1>0. status \in [Requests -> Status] /\ debits \in [Requests -> Int]
  BY DEF RowsTyped, HistoryTyped
<1>1. ASSUME UNCHANGED senderVars PROVE SenderOwes(r)' = SenderOwes(r)
  BY <1>1 DEF senderVars, SenderOwes
<1>2. ASSUME UNCHANGED markerVars
      PROVE  MarkerOwes(r)' = MarkerOwes(r) /\ \A a \in Markers : Writing(a, r)' <=> Writing(a, r)
  BY <1>2 DEF markerVars, MarkerOwes, Writing
<1>3. ASSUME NEW p \in Partners, PartnerStep(p)
      PROVE  DebitMoves(r)
  <2>1. /\ UNCHANGED <<senderVars, markerVars, undone, debits>>
        /\ status'[r] = status[r] \/ status'[r] = "requested"
    BY <1>0, <1>3 DEF PartnerStep, ApplyReward, AskForPayout, InsertRequest, rowVars, history
  <2>2. QED
    BY <1>1, <1>2, <2>1 DEF DebitMoves, Keeps, NoNewSettled, Settled
<1>4. ASSUME NEW q \in Requests, NEW s \in AdminTargets, SetStatus(q, s)
      PROVE  DebitMoves(r)
  <2>1. /\ UNCHANGED <<senderVars, markerVars, undone, debits>>
        /\ status'[r] = status[r] \/ status'[r] # "sent"
    BY <1>0, <1>4 DEF SetStatus, AdminTargets
  <2>2. QED
    BY <1>1, <1>2, <2>1 DEF DebitMoves, Keeps, NoNewSettled, Settled
<1>5. ASSUME NEW w \in Senders, SenderStep(w)
      PROVE  DebitMoves(r)
  <2>1. sPc[w] # "idle" => sReq[w] \in Requests
    BY DEF LocalsOK, SenderLocal
  <2>2. UNCHANGED <<markerVars, undone>>
    BY <1>5 DEF SenderStep, SenderContinues, SendStart, SendReadProfile, SendClaim,
       SendReadSeqno, SendBroadcast, SendDebit, SendClose, SendJournal, SendAbort, history
  <2>3. \A v \in Senders : v # w => sPc'[v] = sPc[v] /\ sReq'[v] = sReq[v]
    BY <1>5 DEF SenderStep, SenderContinues, SendStart, SendReadProfile, SendClaim,
       SendReadSeqno, SendBroadcast, SendDebit, SendClose, SendJournal, SendAbort,
       SenderStops, SenderGoes, SendersTyped, DebitMissed
  <2>4. /\ MarkerOwes(r)' = MarkerOwes(r)
        /\ status'[r] # "sent" \/ status'[r] = status[r] => NoNewSettled(r)
    BY <1>2, <2>2 DEF NoNewSettled, Settled
  <2>5. ASSUME sPc'[w] # "close" PROVE SenderOwes(r)' = SenderOwes(r) \ {w}
    BY <2>3, <2>5 DEF SenderOwes
  <2>6. ASSUME sPc'[w] # "close", UNCHANGED <<status, debits>>
        PROVE  DebitMoves(r)
    BY <2>4, <2>5, <2>6 DEF DebitMoves, Keeps
  <2>7. CASE \E q \in Requests : SendStart(w, q)
    BY <2>6, <2>7 DEF SendStart, rowVars, history, SendersTyped
  <2>8. CASE SendReadProfile(w) \/ SendReadSeqno(w) \/ SendBroadcast(w) \/ SendAbort(w)
    BY <2>6, <2>8 DEF SendReadProfile, SendReadSeqno, SendBroadcast, SendAbort,
       SenderStops, SenderGoes, rowVars, history, SendersTyped
  <2>9. CASE SendJournal(w)
    BY <2>6, <2>9 DEF SendJournal, SenderStops, history, SendersTyped
  <2>10. CASE SendClaim(w)
    <3>1. sPc'[w] # "close" /\ debits'[r] = debits[r]
      BY <2>10 DEF SendClaim, SenderStops, SenderGoes, SendersTyped
    <3>2. status'[r] # "sent" \/ status'[r] = status[r]
      BY <1>0, <2>10 DEF SendClaim
    <3>3. QED
      BY <2>4, <2>5, <3>1, <3>2 DEF DebitMoves, Keeps
  <2>11. CASE SendDebit(w)
    <3>1. sPc[w] = "debit" /\ UNCHANGED status
      BY <2>11 DEF SendDebit
    <3>2. CASE SenderStops(w) /\ UNCHANGED debits
      BY <2>6, <3>1, <3>2 DEF SenderStops, SendersTyped
    <3>3. CASE SenderGoes(w, "close") /\ debits' = [debits EXCEPT ![sReq[w]] = @ + 1]
      <4>1. sPc'[w] = "close" /\ sReq'[w] = sReq[w]
        BY <3>3 DEF SenderGoes, SendersTyped
      <4>2. CASE sReq[w] = r
        <5>1. w \notin SenderOwes(r) /\ SenderOwes(r)' = SenderOwes(r) \cup {w}
          BY <2>3, <3>1, <4>1, <4>2 DEF SenderOwes
        <5>2. debits'[r] = debits[r] + 1
          BY <1>0, <3>3, <4>2
        <5>3. QED
          BY <2>4, <3>1, <5>1, <5>2 DEF DebitMoves, SenderDebits
      <4>3. CASE sReq[w] # r
        <5>1. SenderOwes(r)' = SenderOwes(r)
          BY <2>3, <4>1, <4>3 DEF SenderOwes
        <5>2. debits'[r] = debits[r]
          BY <1>0, <3>3, <4>3
        <5>3. QED
          BY <2>4, <3>1, <5>1, <5>2 DEF DebitMoves, Keeps
      <4>4. QED
        BY <4>2, <4>3
    <3>4. QED
      BY <2>11, <3>2, <3>3 DEF SendDebit, DebitMissed
  <2>12. CASE SendClose(w)
    <3>1. sPc[w] = "close" /\ sPc'[w] # "close" /\ UNCHANGED debits
      BY <2>12 DEF SendClose, SenderStops, SenderGoes, SendersTyped, history
    <3>2. CASE status'[r] = status[r]
      BY <2>4, <2>5, <3>1, <3>2 DEF DebitMoves, Keeps
    <3>3. CASE status'[r] # status[r]
      <4>1. sReq[w] = r /\ status[r] = "sending"
        BY <1>0, <2>12, <3>3 DEF SendClose
      <4>2. w \in SenderOwes(r) /\ ~Settled(r)
        BY <3>1, <4>1 DEF SenderOwes, Settled
      <4>3. QED
        BY <2>4, <2>5, <3>1, <4>2 DEF DebitMoves, SenderSettles
    <3>4. QED
      BY <3>2, <3>3
  <2>13. QED
    BY <1>5, <2>7, <2>8, <2>9, <2>10, <2>11, <2>12 DEF SenderStep, SenderContinues
<1>6. ASSUME NEW a \in Markers, MarkerStep(a)
      PROVE  DebitMoves(r)
  <2>1. SenderOwes(r)' = SenderOwes(r)
    BY <1>1, <1>6 DEF MarkerStep, MarkStart, MarkReadRequest, MarkDebit, MarkClose,
       MarkJournal, MarkUndoBalance, MarkUndoRequest, MarkAbort
  <2>2. \A b \in Markers : b # a => mPc'[b] = mPc[b] /\ mReq'[b] = mReq[b]
    BY <1>6 DEF MarkerStep, MarkStart, MarkReadRequest, MarkDebit, MarkClose,
       MarkJournal, MarkUndoBalance, MarkUndoRequest, MarkAbort, MarkerStops,
       MarkerGoes, MarkersTyped, BookingMissed
  <2>3. \A b \in Markers : b # a => (Writing(b, r)' <=> Writing(b, r))
    BY <2>2 DEF Writing
  <2>4. /\ a \notin MarkerOwes(r)' => MarkerOwes(r)' = MarkerOwes(r) \ {a}
        /\ a \in MarkerOwes(r)' => MarkerOwes(r)' = MarkerOwes(r) \cup {a}
    BY <2>2 DEF MarkerOwes
  <2>5. ASSUME status'[r] = status[r] \/ status'[r] # "sent", undone \subseteq undone', ~Writing(a, r)
        PROVE  NoNewSettled(r)
    BY <2>3, <2>5 DEF NoNewSettled, Settled
  <2>6. CASE (\E p \in Partners : MarkStart(a, p)) \/ MarkReadRequest(a)
    <3>1. mPc[a] \in {"idle", "request"} /\ mPc'[a] \in {"request", "debit"}
      BY <2>6 DEF MarkStart, MarkReadRequest, MarkersTyped
    <3>2. UNCHANGED <<status, undone, debits>>
      BY <2>6 DEF MarkStart, MarkReadRequest, rowVars, history
    <3>3. a \notin MarkerOwes(r)' /\ ~Writing(a, r)
      BY <3>1 DEF MarkerOwes, Paying, Writing
    <3>4. QED
      BY <2>1, <2>4, <2>5, <3>2, <3>3 DEF DebitMoves, Keeps
  <2>7. CASE MarkDebit(a)
    <3>1. mPc[a] = "debit" /\ UNCHANGED <<status, undone>>
      BY <2>7 DEF MarkDebit
    <3>2. ~Writing(a, r) /\ a \notin MarkerOwes(r)
      BY <3>1 DEF Writing, MarkerOwes, Paying
    <3>3. NoNewSettled(r)
      BY <2>5, <3>1, <3>2
    <3>4. CASE MarkerStops(a) /\ UNCHANGED debits
      <4>1. a \notin MarkerOwes(r)'
        BY <3>4 DEF MarkerStops, MarkersTyped, MarkerOwes, Paying
      <4>2. QED
        BY <2>1, <2>4, <3>3, <3>4, <4>1 DEF DebitMoves, Keeps
    <3>5. CASE /\ MarkerBooks(a, 1)
               /\ MarkerGoes(a, IF mReq[a] = Nothing THEN "journal" ELSE "close")
      <4>1. CASE mReq[a] = r
        <5>1. a \in MarkerOwes(r)'
          BY <3>5, <4>1 DEF MarkerGoes, MarkersTyped, MarkerOwes, Paying
        <5>2. debits'[r] = debits[r] + 1
          BY <1>0, <3>5, <4>1 DEF MarkerBooks
        <5>3. QED
          BY <2>1, <2>4, <3>2, <3>3, <5>1, <5>2 DEF DebitMoves, MarkerDebits
      <4>2. CASE mReq[a] # r
        <5>1. a \notin MarkerOwes(r)'
          BY <3>5, <4>2 DEF MarkerGoes, MarkerOwes
        <5>2. debits'[r] = debits[r]
          BY <1>0, <3>5, <4>2 DEF MarkerBooks
        <5>3. QED
          BY <2>1, <2>4, <3>3, <5>1, <5>2 DEF DebitMoves, Keeps
      <4>3. QED
        BY <4>1, <4>2
    <3>6. QED
      BY <2>7, <3>4, <3>5 DEF MarkDebit, BookingMissed
  <2>8. CASE MarkClose(a)
    <3>1. /\ mPc[a] = "close" /\ mPc'[a] \in {"journal", "undoBalance"}
          /\ UNCHANGED <<mReq, undone, debits>>
      BY <2>8 DEF MarkClose, MarkerGoes, MarkersTyped, history
    <3>2. MarkerOwes(r)' = MarkerOwes(r)
      BY <2>4, <3>1 DEF MarkerOwes, Paying
    <3>3. NoNewSettled(r)
      <4>1. CASE status'[r] = status[r]
        BY <2>5, <3>1, <4>1 DEF Writing
      <4>2. CASE status'[r] # status[r]
        <5>1. mReq[a] = r /\ MarkerGoes(a, "journal")
          BY <1>0, <2>8, <4>2 DEF MarkClose
        <5>2. Writing(a, r)'
          BY <5>1 DEF MarkerGoes, MarkersTyped, Writing
        <5>3. QED
          BY <5>2 DEF NoNewSettled, Settled
      <4>3. QED
        BY <4>1, <4>2
    <3>4. QED
      BY <2>1, <3>1, <3>2, <3>3 DEF DebitMoves, Keeps
  <2>9. CASE MarkJournal(a)
    <3>1. mPc[a] = "journal" /\ UNCHANGED <<status, debits>>
      BY <2>9 DEF MarkJournal
    <3>2. undone \subseteq undone'
      BY <2>9 DEF MarkJournal
    <3>3. CASE mReq[a] # r
      <4>1. a \notin MarkerOwes(r)' /\ ~Writing(a, r)
        BY <2>9, <3>3 DEF MarkJournal, MarkerStops, MarkerGoes, MarkersTyped, MarkerOwes, Writing
      <4>2. QED
        BY <2>1, <2>4, <2>5, <3>1, <3>2, <4>1 DEF DebitMoves, Keeps
    <3>4. CASE mReq[a] = r
      <4>1. a \in MarkerOwes(r) /\ ~Settled(r)
        BY <3>1, <3>4 DEF MarkerOwes, Paying, Writing, Settled
      <4>2. CASE MarkerStops(a)
        <5>1. a \notin MarkerOwes(r)'
          BY <4>2 DEF MarkerStops, MarkersTyped, MarkerOwes, Paying
        <5>2. QED
          BY <2>1, <2>4, <3>1, <4>1, <5>1 DEF DebitMoves, MarkerSettles
      <4>3. CASE /\ MarkerGoes(a, IF mReq[a] = Nothing THEN "undoBalance" ELSE "undoBoth")
                 /\ undone' = undone \cup ({mReq[a]} \cap Requests)
        <5>1. MarkerOwes(r)' = MarkerOwes(r)
          BY <2>4, <3>4, <4>1, <4>3 DEF MarkerGoes, MarkersTyped, MarkerOwes, Paying
        <5>2. ~Settled(r)'
          BY <3>4, <4>3 DEF Settled
        <5>3. QED
          BY <2>1, <3>1, <5>1, <5>2 DEF DebitMoves, Keeps, NoNewSettled
      <4>4. QED
        BY <2>9, <4>2, <4>3 DEF MarkJournal
    <3>5. QED
      BY <3>3, <3>4
  <2>10. CASE MarkUndoBalance(a)
    <3>1. /\ mPc[a] \in {"undoBalance", "undoBoth"} /\ mPc'[a] \in {"idle", "undoRequest"}
          /\ UNCHANGED <<status, undone>>
      BY <2>10 DEF MarkUndoBalance, MarkerStops, MarkerGoes, MarkersTyped
    <3>2. a \notin MarkerOwes(r)' /\ ~Writing(a, r)
      BY <3>1 DEF MarkerOwes, Paying, Writing
    <3>3. MarkerOwes(r)' = MarkerOwes(r) \ {a} /\ NoNewSettled(r)
      BY <2>4, <2>5, <3>1, <3>2
    <3>4. CASE mReq[a] = r
      <4>1. a \in MarkerOwes(r)
        BY <3>1, <3>4 DEF MarkerOwes, Paying
      <4>2. debits'[r] = debits[r] \/ debits'[r] = debits[r] - 1
        BY <1>0, <2>10, <3>4 DEF MarkUndoBalance, MarkerBooks
      <4>3. QED
        BY <2>1, <3>3, <4>1, <4>2 DEF DebitMoves, MarkerRestores
    <3>5. CASE mReq[a] # r
      <4>1. debits'[r] = debits[r]
        BY <1>0, <2>10, <3>5 DEF MarkUndoBalance, MarkerBooks
      <4>2. QED
        BY <2>1, <3>3, <4>1 DEF DebitMoves, Keeps
    <3>6. QED
      BY <3>4, <3>5
  <2>11. CASE MarkUndoRequest(a)
    <3>1. /\ mPc[a] = "undoRequest" /\ mPc'[a] = "idle"
          /\ UNCHANGED <<undone, debits>>
      BY <2>11 DEF MarkUndoRequest, MarkerStops, MarkersTyped
    <3>2. mWas[a] \in Active
      BY <2>11, <3>1 DEF MarkUndoRequest, LocalsOK, MarkerLocal
    <3>3. status'[r] = status[r] \/ status'[r] # "sent"
      BY <1>0, <2>11, <3>2 DEF MarkUndoRequest
    <3>4. a \notin MarkerOwes(r)' /\ ~Writing(a, r)
      BY <3>1 DEF MarkerOwes, Paying, Writing
    <3>5. QED
      BY <2>1, <2>4, <2>5, <3>1, <3>3, <3>4 DEF DebitMoves, Keeps
  <2>12. CASE MarkAbort(a)
    <3>1. mPc'[a] = "idle" /\ UNCHANGED <<status, undone, debits>>
      BY <2>12 DEF MarkAbort, MarkerStops, MarkersTyped, rowVars, history
    <3>2. a \notin MarkerOwes(r)'
      BY <3>1 DEF MarkerOwes, Paying
    <3>3. CASE Writing(a, r)
      <4>1. a \in MarkerOwes(r) /\ ~Settled(r)
        BY <3>3 DEF Writing, MarkerOwes, Paying, Settled
      <4>2. QED
        BY <2>1, <2>4, <3>1, <3>2, <4>1 DEF DebitMoves, MarkerSettles
    <3>4. CASE ~Writing(a, r)
      BY <2>1, <2>4, <2>5, <3>1, <3>2, <3>4 DEF DebitMoves, Keeps
    <3>5. QED
      BY <3>3, <3>4
  <2>13. QED
    BY <1>6, <2>6, <2>7, <2>8, <2>9, <2>10, <2>11, <2>12 DEF MarkerStep
<1>7. ASSUME \/ \E m \in mempool : ChainExecute(m)
             \/ \E q \in Requests : ConfirmPayout(q)
             \/ UNCHANGED vars
      PROVE  DebitMoves(r)
  <2>1. UNCHANGED <<senderVars, markerVars, status, undone, debits>>
    BY <1>7 DEF ChainExecute, ConfirmPayout, vars, rowVars, history
  <2>2. QED
    BY <1>1, <1>2, <2>1 DEF DebitMoves, Keeps, NoNewSettled, Settled
<1>8. QED
  BY <1>3, <1>4, <1>5, <1>6, <1>7 DEF Next

LEMMA DebitStep == TypedInv /\ EachDebited /\ [Next]_vars => EachDebited'
<1> SUFFICES ASSUME TypedInv, EachDebited, [Next]_vars, NEW r \in Requests
             PROVE  DebitInv(r)'
  BY DEF EachDebited
<1>1. TypeOK /\ TypeOK'
  BY TypedStep DEF TypedInv
<1>2. DebitInv(r) /\ DebitMoves(r)
  BY DebitMovesStep DEF EachDebited
<1>3. QED
  BY <1>1, <1>2, DebitsKeep

\* For any number of senders and markers: a request closed as 'sent' has a
\* debit of its own that was not restored, unless its marker began to roll back.
THEOREM SentWasDebited == Spec => []SentIsDebited
<1>1. TypedInv /\ EachDebited => SentIsDebited
  <2> SUFFICES ASSUME TypedInv, EachDebited, NEW r \in Requests,
                      status[r] = "sent", r \notin undone
               PROVE  debits[r] >= 1
    BY DEF SentIsDebited
  <2>1. DebitInv(r) /\ debits[r] \in Int
    BY DEF EachDebited, TypedInv, TypeOK, HistoryTyped
  <2>2. CASE Settled(r)
    BY <2>1, <2>2, OwesFinite DEF DebitInv
  <2>3. CASE ~Settled(r)
    <3>1. PICK a \in Markers : Writing(a, r)
      BY <2>3 DEF Settled
    <3>2. a \in MarkerOwes(r)
      BY <3>1 DEF Writing, MarkerOwes, Paying
    <3>3. Cardinality(MarkerOwes(r)) # 0
      BY <3>2, OwesFinite, FS_EmptySet
    <3>4. QED
      BY <2>1, <3>3, OwesFinite DEF DebitInv
  <2>4. QED
    BY <2>2, <2>3
<1>2. QED
  BY <1>1, DebitInit, DebitStep, TypedAlways, PTL DEF Spec
=============================================================================
