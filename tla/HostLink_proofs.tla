--------------------------- MODULE HostLink_proofs ---------------------------
(***************************************************************************)
(* Theorems about HostLink, for every set of words and destinations, every *)
(* capacity, and any number of calls.  What the hardware holds is counted  *)
(* by the places of its queues: credits are conserved (CreditInv), so the  *)
(* fence's two counters tell that nothing is under way; a load under way   *)
(* is counted until it is received (LoadsInv), so no read underflows.      *)
(*                                                                         *)
(* Then what a read returns.  There are as many places for load ids (the   *)
(* stack and the loads under way) as ids, and every id has one (IdsInv),   *)
(* so by counting each has exactly one; hence a response finds the entry   *)
(* of id_to_rsp_i that its own load wrote, and since no store follows a    *)
(* load (OrderInv) it brings the word that the program last wrote there    *)
(* (AnswersInv, BufferInv).                                                *)
(***************************************************************************)
EXTENDS HostLink, FiniteSetTheorems, SequenceTheorems, TLAPS

-----------------------------------------------------------------------------
(***************************************************************************)
(* Places: the positions of the requests in a function of queues.          *)
(***************************************************************************)

\* The places where q holds a request with one of the operations ops.
Places(q, ops) ==
  UNION {{<<d, k>> : k \in {i \in 1 .. Len(q[d]) : q[d][i].op \in ops}} : d \in DOMAIN q}

LoadOp == {"load"}
AnyOp  == {"store", "load"}

\* The transmit FIFO, as a function of queues.
Fifo == [x \in {"txq"} |-> txq]

-----------------------------------------------------------------------------
(***************************************************************************)
(* The inductive invariants.                                               *)
(***************************************************************************)

Reading == pc \in {"request", "response"}

\* The call's data, and where the host can be in it.
CallInv ==
  /\ Words \in Nat /\ DOMAIN call.addrs = 1 .. Words
  /\ data \in [1 .. Words -> Value]
  /\ call.kind \in {"read", "write"} /\ pc # "idle" => Words = 1
  /\ pc = "update" => call.kind = "write_mem"
  /\ pc \in {"fence", "vacancy", "credits"} => call.kind = "write_mem" /\ sent = Words
  /\ pc = "store" => call.kind \in {"write_mem", "write"} /\ sent < Words
  /\ Reading => call.kind \in {"read_mem", "read"}

\* Every credit that is not with the endpoint is with a request under way, every read credit
\* with a load under way or a response.
CreditInv ==
  /\ IsFiniteSet(Places(net, AnyOp)) /\ IsFiniteSet(Places(net, LoadOp))
  /\ out_credits + Cardinality(Places(net, AnyOp)) = MaxOutCredits
  /\ read_credits + Cardinality(Places(net, LoadOp)) + Len(rsp) = HostCredits

LinkInv == TypeOK /\ CallInv /\ CreditInv

StoreTo(r, a) == r.op = "store" /\ r.addr = a

\* q holds no store to word a; its last one, if any, writes x.
NoneTo(q, a)    == \A k \in 1 .. Len(q) : ~StoreTo(q[k], a)
LastTo(q, a, x) == \A k \in 1 .. Len(q) :
                     StoreTo(q[k], a) => q[k].arg = x \/ \E j \in k + 1 .. Len(q) : StoreTo(q[j], a)

HomeInv == \A d \in Dest : \A k \in 1 .. Len(net[d]) : Home[net[d][k].addr] = d

\* The last store to a word that is under way, or else the word's memory, holds what was last
\* written to it.
LastInv(a) ==
  /\ LastTo(txq, a, written[a])
  /\ NoneTo(txq, a) => LastTo(net[Home[a]], a, written[a])
  /\ NoneTo(txq, a) /\ NoneTo(net[Home[a]], a) => mem[a] = written[a]

StoresInv == HomeInv /\ \A a \in Addr : LastInv(a)

Quiet == txq = <<>> /\ \A d \in Dest : net[d] = <<>>

\* Once the fence has found the FIFO empty it stays empty, and once it has found all credits back
\* as well nothing is under way.
FenceInv ==
  /\ pc = "credits" /\ vacancy = HostCredits => txq = <<>>
  /\ pc = "fence" /\ vacancy = HostCredits /\ ep_out_credits = MaxOutCredits => Quiet
  /\ Succeeded({"write_mem"}) => Quiet

\* The loads under way.
Outstanding ==
  Cardinality(Places(Fifo, LoadOp)) + Cardinality(Places(net, LoadOp)) + Len(rsp) + Len(piso)

\* A read is not refused a word after its first: no read leaves loads under way.
WholeReads == \A c \in Calls : c.kind = "read_mem" => \A k \in 2 .. Len(c.addrs) : c.addrs[k] \in Addr

\* The loads under way are those the call has sent and not received; the host's count covers
\* them and the FIFO.
LoadsInv ==
  /\ Reading => \A k \in 2 .. Words : call.addrs[k] \in Addr
  /\ IsFiniteSet(Places(Fifo, LoadOp))
  /\ Outstanding = IF Reading THEN sent - got ELSE 0
  /\ htod >= Len(txq) + Cardinality(Places(net, LoadOp)) + Len(rsp) + Len(piso)
  /\ result # "FAIL"

-----------------------------------------------------------------------------
(***************************************************************************)
(* Queues and places.                                                      *)
(***************************************************************************)

LEMMA Appended ==
  ASSUME NEW S, NEW s \in Seq(S), NEW x \in S
  PROVE  /\ Append(s, x) \in Seq(S) /\ Len(Append(s, x)) = Len(s) + 1
         /\ \A k \in 1 .. Len(s) : Append(s, x)[k] = s[k]
         /\ Append(s, x)[Len(s) + 1] = x
BY AppendProperties

LEMMA Shifted ==
  ASSUME NEW S, NEW s \in Seq(S), s # <<>>
  PROVE  /\ Len(s) \in Nat \ {0} /\ Head(s) = s[1] /\ Head(s) \in S
         /\ Tail(s) \in Seq(S) /\ Len(Tail(s)) = Len(s) - 1
         /\ \A k \in 1 .. Len(s) - 1 : Tail(s)[k] = s[k + 1]
BY HeadTailProperties, EmptySeq

LEMMA InPlaces ==
  ASSUME NEW q, NEW ops
  PROVE  \A p \in Places(q, ops) :
           \E d \in DOMAIN q : \E k \in 1 .. Len(q[d]) : p = <<d, k>> /\ q[d][k].op \in ops
BY DEF Places

LEMMA PlaceOf ==
  ASSUME NEW q, NEW ops, NEW d \in DOMAIN q, NEW k \in 1 .. Len(q[d])
  PROVE  <<d, k>> \in Places(q, ops) <=> q[d][k].op \in ops
BY DEF Places

\* A request joins queue d of q; the oldest one leaves it.
Joined(q, d, r) == [q EXCEPT ![d] = Append(@, r)]
Left(q, d)      == [q EXCEPT ![d] = Tail(@)]

LEMMA PlacesAppend ==
  ASSUME NEW q, NEW d \in DOMAIN q, q[d] \in Seq(Request), NEW r \in Request, NEW ops,
         IsFiniteSet(Places(q, ops))
  PROVE  LET t == Joined(q, d, r)
         IN  /\ IsFiniteSet(Places(t, ops))
             /\ r.op \in ops => Cardinality(Places(t, ops)) = Cardinality(Places(q, ops)) + 1
             /\ r.op \notin ops => Cardinality(Places(t, ops)) = Cardinality(Places(q, ops))
<1> DEFINE t == Joined(q, d, r)
           D == DOMAIN q
           new == <<d, Len(q[d]) + 1>>
<1>1. DOMAIN q = D /\ DOMAIN t = D /\ t[d] = Append(q[d], r)
      /\ \A e \in D \ {d} : t[e] = q[e]
  BY DEF Joined
<1> HIDE DEF t
<1>2. /\ Len(q[d]) \in Nat /\ Len(t[d]) = Len(q[d]) + 1
      /\ \A k \in 1 .. Len(q[d]) : t[d][k] = q[d][k]
      /\ t[d][Len(q[d]) + 1] = r
  BY <1>1, Appended
<1>3. new \notin Places(q, ops)
  BY <1>2, InPlaces
<1>4. ASSUME NEW p PROVE p \in Places(t, ops) <=> p \in Places(q, ops) \/ (p = new /\ r.op \in ops)
  <2>1. ASSUME p \in Places(q, ops) PROVE p \in Places(t, ops)
    <3>1. PICK e \in D : \E k \in 1 .. Len(q[e]) : p = <<e, k>> /\ q[e][k].op \in ops
      BY <1>1, <2>1, InPlaces
    <3>2. PICK k \in 1 .. Len(q[e]) : p = <<e, k>> /\ q[e][k].op \in ops
      BY <3>1
    <3>3. k \in 1 .. Len(t[e]) /\ t[e][k] = q[e][k]
      BY <1>1, <1>2
    <3>4. QED
      BY <3>2, <3>3, <1>1, PlaceOf
  <2>2. ASSUME p = new, r.op \in ops PROVE p \in Places(t, ops)
    <3>1. Len(q[d]) + 1 \in 1 .. Len(t[d])
      BY <1>2
    <3>2. QED
      BY <1>1, <1>2, <2>2, <3>1, PlaceOf
  <2>3. ASSUME p \in Places(t, ops) PROVE p \in Places(q, ops) \/ (p = new /\ r.op \in ops)
    <3>1. PICK e \in DOMAIN t : \E k \in 1 .. Len(t[e]) : p = <<e, k>> /\ t[e][k].op \in ops
      BY <2>3 DEF Places
    <3>2. PICK k \in 1 .. Len(t[e]) : p = <<e, k>> /\ t[e][k].op \in ops
      BY <3>1
    <3>3. CASE e = d /\ k = Len(q[d]) + 1
      BY <1>2, <3>2, <3>3
    <3>4. CASE ~(e = d /\ k = Len(q[d]) + 1)
      <4>1. k \in 1 .. Len(q[e]) /\ t[e][k] = q[e][k]
        BY <1>1, <1>2, <3>4
      <4>2. QED
        BY <3>2, <4>1, <1>1, PlaceOf
    <3>5. QED
      BY <3>3, <3>4
  <2>4. QED
    BY <2>1, <2>2, <2>3
<1>5. CASE r.op \in ops
  <2>1. Places(t, ops) = Places(q, ops) \cup {new}
    BY <1>4, <1>5
  <2>2. QED
    BY <2>1, <1>3, <1>5, FS_AddElement DEF t
<1>6. CASE r.op \notin ops
  <2>1. Places(t, ops) = Places(q, ops)
    BY <1>4, <1>6
  <2>2. QED
    BY <2>1, <1>6, FS_CardinalityType DEF t
<1>7. QED
  BY <1>5, <1>6

\* The oldest request of a queue leaves: the others move up.
LEMMA PlacesTail ==
  ASSUME NEW q, NEW d \in DOMAIN q, q[d] \in Seq(Request), q[d] # <<>>, NEW ops,
         IsFiniteSet(Places(q, ops))
  PROVE  LET t == Left(q, d)
         IN  /\ IsFiniteSet(Places(t, ops))
             /\ Head(q[d]).op \in ops =>
                  Cardinality(Places(t, ops)) = Cardinality(Places(q, ops)) - 1
             /\ Head(q[d]).op \notin ops =>
                  Cardinality(Places(t, ops)) = Cardinality(Places(q, ops))
<1> DEFINE t == Left(q, d)
           D == DOMAIN q
           first == <<d, 1>>
           rest == Places(q, ops) \ {first}
           up == [p \in rest |-> IF p[1] = d THEN <<d, p[2] - 1>> ELSE p]
<1>1. DOMAIN q = D /\ DOMAIN t = D /\ t[d] = Tail(q[d])
      /\ \A e \in D \ {d} : t[e] = q[e]
  BY DEF Left
<1> HIDE DEF t
<1>2. /\ Len(q[d]) \in Nat \ {0} /\ Len(t[d]) = Len(q[d]) - 1 /\ Head(q[d]) = q[d][1]
      /\ \A k \in 1 .. Len(q[d]) - 1 : t[d][k] = q[d][k + 1]
  BY <1>1, Shifted
<1>3. first \in Places(q, ops) <=> Head(q[d]).op \in ops
  BY <1>1, <1>2, PlaceOf
<1>4. ASSUME NEW p \in rest PROVE up[p] \in Places(t, ops)
  <2>0. PICK e \in D : \E k \in 1 .. Len(q[e]) : p = <<e, k>> /\ q[e][k].op \in ops
    BY <1>1, InPlaces
  <2>1. PICK k \in 1 .. Len(q[e]) : p = <<e, k>> /\ q[e][k].op \in ops
    BY <2>0
  <2>2. CASE e = d
    <3>1. k - 1 \in 1 .. Len(t[d]) /\ t[d][k - 1] = q[d][k]
      BY <1>2, <2>1, <2>2
    <3>2. up[p] = <<d, k - 1>>
      BY <2>1, <2>2
    <3>3. QED
      BY <1>1, <3>1, <3>2, <2>1, <2>2, PlaceOf
  <2>3. CASE e # d
    BY <1>1, <2>1, <2>3, PlaceOf
  <2>4. QED
    BY <2>2, <2>3
<1>5. ASSUME NEW p \in Places(t, ops) PROVE \E o \in rest : up[o] = p
  <2>0. PICK e \in DOMAIN t : \E k \in 1 .. Len(t[e]) : p = <<e, k>> /\ t[e][k].op \in ops
    BY DEF Places
  <2>1. PICK k \in 1 .. Len(t[e]) : p = <<e, k>> /\ t[e][k].op \in ops
    BY <2>0
  <2>2. CASE e = d
    <3>1. k + 1 \in 1 .. Len(q[d]) /\ t[d][k] = q[d][k + 1] /\ k + 1 # 1 /\ (k + 1) - 1 = k
      BY <1>2, <2>1, <2>2
    <3>2. <<d, k + 1>> \in rest
      BY <1>1, <2>1, <2>2, <3>1, PlaceOf
    <3>3. up[<<d, k + 1>>] = p
      BY <2>1, <2>2, <3>1, <3>2
    <3>4. QED
      BY <3>2, <3>3
  <2>3. CASE e # d
    <3>1. p \in rest
      BY <1>1, <2>1, <2>3, PlaceOf
    <3>2. QED
      BY <2>1, <2>3, <3>1
  <2>4. QED
    BY <2>2, <2>3
<1>6. ASSUME NEW p \in rest, NEW o \in rest, up[p] = up[o] PROVE p = o
  <2>1. ASSUME NEW x \in rest PROVE \E e \in D : \E k \in 1 .. Len(q[e]) : x = <<e, k>>
    BY <1>1, InPlaces
  <2>2. (\E e \in D : \E k \in Int : p = <<e, k>>) /\ (\E e \in D : \E k \in Int : o = <<e, k>>)
    BY <2>1
  <2>3. QED
    BY <1>6, <2>2
<1>7. up \in Bijection(rest, Places(t, ops))
  <2>1. up \in [rest -> Places(t, ops)]
    BY <1>4
  <2>2. up \in Injection(rest, Places(t, ops))
    BY <2>1, <1>6 DEF Injection, IsInjective
  <2>3. up \in Surjection(rest, Places(t, ops))
    BY <2>1, <1>5 DEF Surjection
  <2>4. QED
    BY <2>2, <2>3 DEF Bijection
<1>8. IsFiniteSet(rest) /\ Cardinality(rest) = IF first \in Places(q, ops)
                                                THEN Cardinality(Places(q, ops)) - 1
                                                ELSE Cardinality(Places(q, ops))
  BY FS_RemoveElement
<1>9. IsFiniteSet(Places(t, ops)) /\ Cardinality(Places(t, ops)) = Cardinality(rest)
  BY <1>7, <1>8, FS_Bijection DEF ExistsBijection
<1>10. Cardinality(Places(q, ops)) \in Nat
  BY FS_CardinalityType
<1>11. QED
  BY <1>3, <1>8, <1>9, <1>10 DEF t

-----------------------------------------------------------------------------
(***************************************************************************)
(* The steps of the hardware.                                              *)
(***************************************************************************)

LEMMA RequestOps == \A r \in Request : r.op \in AnyOp /\ r.addr \in Addr /\ Home[r.addr] \in Dest
                                       /\ (r.op = "store" => r.arg \in Value)
                                       /\ (r.op = "load" => r.arg \in Id)
BY DEF Request, AnyOp, Dest

LEMMA DepartEffect ==
  ASSUME LinkInv, Depart, NEW r, r = Head(txq)
  PROVE  /\ r \in Request /\ Home[r.addr] \in Dest /\ HasCredits(r)
         /\ txq # <<>> /\ txq' = Tail(txq)
         /\ net' = [net EXCEPT ![Home[r.addr]] = Append(@, r)]
         /\ out_credits' = out_credits - 1
         /\ r.op = "load" => read_credits' = read_credits - 1
         /\ r.op # "load" => read_credits' = read_credits
         /\ UNCHANGED <<htod, pc, local, result, rsp, piso, mem, written>>
<1>1. r \in Request
  BY Shifted DEF Depart, LinkInv, TypeOK
<1>2. QED
  BY <1>1, RequestOps DEF Depart

LEMMA ServeEffect ==
  ASSUME LinkInv, NEW d \in Dest, Serve(d), NEW r, r = Head(net[d])
  PROVE  /\ r \in Request /\ net[d] # <<>>
         /\ net' = [net EXCEPT ![d] = Tail(@)]
         /\ out_credits' = out_credits + 1
         /\ r.op = "store" => mem' = [mem EXCEPT ![r.addr] = r.arg] /\ rsp' = rsp
         /\ r.op = "load" =>
              rsp' = Append(rsp, [id |-> r.arg, data |-> mem[r.addr]]) /\ mem' = mem
         /\ UNCHANGED <<htod, pc, local, result, txq, read_credits, piso, written>>
<1>1. r \in Request
  BY Shifted DEF Serve, LinkInv, TypeOK
<1>2. QED
  BY <1>1 DEF Serve

\* A request enters the network, and leaves it.
LEMMA NetJoined ==
  ASSUME LinkInv, NEW d \in Dest, NEW r \in Request,
         net' = [net EXCEPT ![d] = Append(@, r)]
  PROVE  /\ IsFiniteSet(Places(net', AnyOp)) /\ IsFiniteSet(Places(net', LoadOp))
         /\ Cardinality(Places(net', AnyOp)) = Cardinality(Places(net, AnyOp)) + 1
         /\ r.op = "load" =>
              Cardinality(Places(net', LoadOp)) = Cardinality(Places(net, LoadOp)) + 1
         /\ r.op # "load" =>
              Cardinality(Places(net', LoadOp)) = Cardinality(Places(net, LoadOp))
<1>1. /\ d \in DOMAIN net /\ net[d] \in Seq(Request)
      /\ IsFiniteSet(Places(net, AnyOp)) /\ IsFiniteSet(Places(net, LoadOp))
  BY DEF LinkInv, TypeOK, CreditInv
<1>2. r.op \in AnyOp /\ (r.op \in LoadOp <=> r.op = "load")
  BY <1>1, RequestOps DEF LoadOp
<1> DEFINE t == Joined(net, d, r)
<1>0. net' = t
  BY DEF Joined
<1> HIDE DEF t
<1>3. IsFiniteSet(Places(t, AnyOp))
  BY <1>1, PlacesAppend DEF t
<1>4. Cardinality(Places(t, AnyOp)) = Cardinality(Places(net, AnyOp)) + 1
  BY <1>1, <1>2, PlacesAppend DEF t
<1>5. IsFiniteSet(Places(t, LoadOp))
  BY <1>1, PlacesAppend DEF t
<1>6. r.op \in LoadOp =>
        Cardinality(Places(t, LoadOp)) = Cardinality(Places(net, LoadOp)) + 1
  BY <1>1, PlacesAppend DEF t
<1>7. r.op \notin LoadOp =>
        Cardinality(Places(t, LoadOp)) = Cardinality(Places(net, LoadOp))
  BY <1>1, PlacesAppend DEF t
<1>8. QED
  BY <1>0, <1>2, <1>3, <1>4, <1>5, <1>6, <1>7

LEMMA NetLeft ==
  ASSUME LinkInv, NEW d \in Dest, net[d] # <<>>,
         net' = [net EXCEPT ![d] = Tail(@)]
  PROVE  /\ IsFiniteSet(Places(net', AnyOp)) /\ IsFiniteSet(Places(net', LoadOp))
         /\ Cardinality(Places(net', AnyOp)) = Cardinality(Places(net, AnyOp)) - 1
         /\ Head(net[d]).op = "load" =>
              Cardinality(Places(net', LoadOp)) = Cardinality(Places(net, LoadOp)) - 1
         /\ Head(net[d]).op # "load" =>
              Cardinality(Places(net', LoadOp)) = Cardinality(Places(net, LoadOp))
<1>1. /\ d \in DOMAIN net /\ net[d] \in Seq(Request)
      /\ IsFiniteSet(Places(net, AnyOp)) /\ IsFiniteSet(Places(net, LoadOp))
  BY DEF LinkInv, TypeOK, CreditInv
<1>2. Head(net[d]).op \in AnyOp /\ (Head(net[d]).op \in LoadOp <=> Head(net[d]).op = "load")
  BY <1>1, RequestOps, Shifted DEF LoadOp
<1> DEFINE t == Left(net, d)
<1>0. net' = t
  BY DEF Left
<1> HIDE DEF t
<1>3. IsFiniteSet(Places(t, AnyOp))
  BY <1>1, PlacesTail DEF t
<1>4. Cardinality(Places(t, AnyOp)) = Cardinality(Places(net, AnyOp)) - 1
  BY <1>1, <1>2, PlacesTail DEF t
<1>5. IsFiniteSet(Places(t, LoadOp))
  BY <1>1, PlacesTail DEF t
<1>6. Head(net[d]).op \in LoadOp =>
        Cardinality(Places(t, LoadOp)) = Cardinality(Places(net, LoadOp)) - 1
  BY <1>1, PlacesTail DEF t
<1>7. Head(net[d]).op \notin LoadOp =>
        Cardinality(Places(t, LoadOp)) = Cardinality(Places(net, LoadOp))
  BY <1>1, PlacesTail DEF t
<1>8. QED
  BY <1>0, <1>2, <1>3, <1>4, <1>5, <1>6, <1>7

LEMMA HostKeepsLink ==
  ASSUME (\E c \in Calls : Call(c)) \/ HostStep
  PROVE  UNCHANGED <<net, out_credits, read_credits, rsp, mem>>
BY DEF Call, HostStep, UpdateRequests, HaveCapacity, Store, Refuse, EnterFence, FenceTest,
       FencePoll, RequestLoad, EndRequests, ReceiveResponse, EndResponses, link, local

LEMMA CreditStep == LinkInv /\ [Next]_vars => CreditInv'
<1> SUFFICES ASSUME LinkInv, [Next]_vars PROVE CreditInv'
  OBVIOUS
<1>1. /\ CreditInv /\ net \in [Dest -> Seq(Request)] /\ rsp \in Seq(Response)
      /\ out_credits \in Nat /\ read_credits \in Nat
      /\ MaxOutCredits \in Nat /\ HostCredits \in Nat
  BY LinkAssumption DEF LinkInv, TypeOK
<1>2. CASE UNCHANGED <<net, out_credits, read_credits, rsp>>
  BY <1>1, <1>2 DEF CreditInv
<1>3. CASE Depart
  <2> DEFINE r == Head(txq)
             d == Home[r.addr]
  <2>1. /\ r \in Request /\ d \in Dest /\ net' = [net EXCEPT ![d] = Append(@, r)]
        /\ out_credits' = out_credits - 1 /\ rsp' = rsp
        /\ r.op = "load" => read_credits' = read_credits - 1
        /\ r.op # "load" => read_credits' = read_credits
    BY <1>3, DepartEffect
  <2> HIDE DEF r, d
  <2>2. /\ IsFiniteSet(Places(net', AnyOp)) /\ IsFiniteSet(Places(net', LoadOp))
        /\ Cardinality(Places(net', AnyOp)) = Cardinality(Places(net, AnyOp)) + 1
        /\ r.op = "load" =>
             Cardinality(Places(net', LoadOp)) = Cardinality(Places(net, LoadOp)) + 1
        /\ r.op # "load" => Cardinality(Places(net', LoadOp)) = Cardinality(Places(net, LoadOp))
    BY <2>1, NetJoined
  <2>5. Cardinality(Places(net, AnyOp)) \in Nat /\ Cardinality(Places(net, LoadOp)) \in Nat
    BY <1>1, FS_CardinalityType DEF CreditInv
  <2>6. Len(rsp) \in Nat
    BY <1>1
  <2>7. QED
    BY <1>1, <2>1, <2>2, <2>5, <2>6 DEF CreditInv
<1>4. ASSUME NEW d \in Dest, Serve(d) PROVE CreditInv'
  <2> DEFINE r == Head(net[d])
  <2>1. /\ r \in Request /\ net[d] # <<>> /\ net' = [net EXCEPT ![d] = Tail(@)]
        /\ out_credits' = out_credits + 1 /\ read_credits' = read_credits
        /\ r.op = "store" => rsp' = rsp
        /\ r.op = "load" => rsp' = Append(rsp, [id |-> r.arg, data |-> mem[r.addr]])
    BY <1>4, ServeEffect
  <2>2. /\ IsFiniteSet(Places(net', AnyOp)) /\ IsFiniteSet(Places(net', LoadOp))
        /\ Cardinality(Places(net', AnyOp)) = Cardinality(Places(net, AnyOp)) - 1
        /\ r.op = "load" =>
             Cardinality(Places(net', LoadOp)) = Cardinality(Places(net, LoadOp)) - 1
        /\ r.op # "load" => Cardinality(Places(net', LoadOp)) = Cardinality(Places(net, LoadOp))
    BY <2>1, NetLeft
  <2>4. r.op = "load" \/ r.op = "store"
    BY <2>1, RequestOps DEF AnyOp
  <2>5. Cardinality(Places(net, AnyOp)) \in Nat /\ Cardinality(Places(net, LoadOp)) \in Nat
    BY <1>1, FS_CardinalityType DEF CreditInv
  <2>6. Len(rsp) \in Nat
    BY <1>1
  <2>7. r.op = "load" => Len(rsp') = Len(rsp) + 1
    <3>1. r.op = "load" => [id |-> r.arg, data |-> mem[r.addr]] \in Response
      BY <2>1, RequestOps DEF Response, LinkInv, TypeOK
    <3>2. QED
      BY <3>1, <2>1, <1>1, Appended
  <2> HIDE DEF r
  <2>8. QED
    BY <1>1, <2>1, <2>2, <2>4, <2>5, <2>6, <2>7, SMTT(20) DEF CreditInv
<1>5. CASE Serialize
  <2>1. net' = net /\ out_credits' = out_credits /\ read_credits' = read_credits + 1
        /\ rsp # <<>> /\ rsp' = Tail(rsp)
    BY <1>5 DEF Serialize
  <2>2. Len(rsp') = Len(rsp) - 1 /\ Len(rsp) \in Nat
    BY <1>1, <2>1, Shifted
  <2>3. Cardinality(Places(net, LoadOp)) \in Nat
    BY <1>1, FS_CardinalityType DEF CreditInv
  <2>4. QED
    BY <1>1, <2>1, <2>2, <2>3 DEF CreditInv
<1>6. QED
  BY <1>2, <1>3, <1>4, <1>5, HostKeepsLink DEF Next, LinkStep, vars, link

-----------------------------------------------------------------------------
(***************************************************************************)
(* Types and counts: LinkInv is inductive.                                 *)
(***************************************************************************)

\* TypeOK in two parts: the host's variables, and those of the hardware.
HostTypes ==
  /\ htod \in Nat
  /\ pc \in {"idle", "update", "store", "fence", "vacancy", "credits", "request", "response"}
  /\ call.kind \in Kinds /\ calls \in 0 .. MaxCalls
  /\ sent \in 0 .. Words /\ got \in 0 .. sent
  /\ ids \in Seq(Id) /\ slot \in [Id -> 0 .. Words]
  /\ result \in {"none", "SUCCESS", "INVALID", "FAIL"}
  /\ vacancy \in Nat /\ ep_out_credits \in Nat

LinkTypes ==
  /\ txq \in Seq(Request) /\ Len(txq) <= HostCredits
  /\ net \in [Dest -> Seq(Request)]
  /\ out_credits \in 0 .. MaxOutCredits /\ read_credits \in 0 .. HostCredits
  /\ rsp \in Seq(Response) /\ Len(rsp) <= HostCredits
  /\ piso \in Seq(Response) /\ Len(piso) <= 1
  /\ mem \in [Addr -> Value] /\ written \in [Addr -> Value]

LEMMA TypeParts == TypeOK <=> HostTypes /\ LinkTypes
BY DEF TypeOK, HostTypes, LinkTypes

LEMMA LinkTypesKept ==
  ASSUME LinkTypes, UNCHANGED <<link, written>>
  PROVE  LinkTypes'
BY DEF LinkTypes, link


LEMMA CallTypes ==
  ASSUME LinkInv, NEW c \in Calls, Call(c)
  PROVE  HostTypes' /\ CallInv'
<1>1. /\ calls' = calls + 1 /\ call' = c /\ result' = "none" /\ sent' = 0 /\ got' = 0
      /\ UNCHANGED <<htod, vacancy, ep_out_credits>> /\ calls < MaxCalls
      /\ slot' = [id \in Id |-> 0] /\ data' = [k \in DOMAIN c.addrs |-> 0]
      /\ Words' = Len(c.addrs)
  BY DEF Call, Words
<1>2. /\ c.kind \in Kinds /\ Len(c.addrs) \in Nat /\ DOMAIN c.addrs = 1 .. Len(c.addrs)
      /\ c.kind \in {"read", "write"} => Len(c.addrs) = 1
  BY CallsAssumption
<1>3. \/ c.kind = "write_mem" /\ pc' = "update" /\ ids' = <<>>
      \/ c.kind = "write" /\ pc' = "store" /\ ids' = <<>>
      \/ c.kind = "read_mem" /\ pc' = "request" /\ ids' = [k \in 1 .. LoadCap |-> k - 1]
      \/ c.kind = "read" /\ pc' = "request" /\ ids' = <<0>>
  BY <1>2 DEF Call, Kinds
<1>4. ids' \in Seq(Id)
  <2>1. [k \in 1 .. LoadCap |-> k - 1] \in [1 .. LoadCap -> Id]
    BY LinkAssumption DEF Id
  <2>2. [k \in 1 .. LoadCap |-> k - 1] \in Seq(Id)
    BY <2>1, LinkAssumption, SeqDef
  <2>3. <<>> \in Seq(Id) /\ <<0>> \in Seq(Id)
    BY LinkAssumption DEF Id
  <2>4. QED
    BY <1>3, <2>2, <2>3
<1>5. HostTypes'
  BY <1>1, <1>2, <1>3, <1>4, CallsAssumption, LinkAssumption DEF LinkInv, TypeOK, HostTypes
<1>6. data' \in [1 .. Words' -> Value']
  BY <1>1, <1>2, CallsAssumption DEF Value
<1>7. CallInv'
  <2>1. Words' \in Nat /\ DOMAIN call'.addrs = 1 .. Words' /\ call'.kind = c.kind
    BY <1>1, <1>2
  <2>2. c.kind \in {"read", "write"} => Words' = 1
    BY <1>1, <1>2
  <2>3. pc' = "store" => sent' < Words'
    <3>1. sent' = 0
      BY <1>1
    <3>2. pc' = "store" => Words' = 1
      BY <1>3, <2>2
    <3>3. QED
      BY <3>1, <3>2
  <2>4. QED
    BY <1>3, <1>6, <2>1, <2>2, <2>3 DEF CallInv, Reading
<1>8. QED
  BY <1>5, <1>7


LEMMA LoopTypes ==
  ASSUME LinkInv, UpdateRequests \/ HaveCapacity \/ EnterFence \/ FenceTest \/ FencePoll
                  \/ EndRequests \/ EndResponses
  PROVE  HostTypes'
<1>1. UNCHANGED <<call, calls, sent, got, ids, slot>> /\ Words' = Words
  BY DEF UpdateRequests, HaveCapacity, EnterFence, FenceTest, FencePoll, EndRequests, EndResponses, Words, local
<1>2. pc' \in {"idle", "update", "store", "fence", "vacancy", "credits", "request", "response"} /\  result' \in {"none", "SUCCESS", "INVALID", "FAIL"}
  BY DEF LinkInv, TypeOK, UpdateRequests, HaveCapacity, EnterFence, FenceTest, FencePoll, EndRequests, EndResponses, FenceReads, Return, local
<1>3. htod' \in Nat
  BY DEF LinkInv, TypeOK, UpdateRequests, Poll, HaveCapacity, EnterFence, FenceTest, FencePoll, EndRequests, EndResponses, FenceReads, Return, local
<1>4. HostCredits - Len(txq) \in Nat
  BY LinkAssumption DEF LinkInv, TypeOK
<1>5. vacancy' \in Nat /\ ep_out_credits' \in Nat
  BY <1>4, LinkAssumption DEF LinkInv, TypeOK, UpdateRequests, HaveCapacity, EnterFence, FenceTest, FencePoll, EndRequests, EndResponses, FenceReads, Return, local
<1>6. QED
  BY <1>1, <1>2, <1>3, <1>5 DEF LinkInv, TypeOK, HostTypes


LEMMA StoreTypes ==
  ASSUME LinkInv, Store
  PROVE  HostTypes' /\ LinkTypes'
<1>1. UNCHANGED <<call, calls, got, ids, slot, vacancy, ep_out_credits, net, out_credits, read_credits, rsp, piso, mem>> /\ Words' = Words
  BY DEF Store, Words
<1>2. pc = "store" /\ sent < Words /\ sent' = sent + 1 /\ htod' \in Nat /\ pc' \in {"update", "idle"} /\ result' \in {result, "SUCCESS"}
   /\ NextWord \in Addr
  BY SMTT(20) DEF Store, CallInv, LinkInv, TypeOK, CountStore, Transmit, Return
<1>3. /\ txq' = Append(txq, [op |-> "store", addr |-> NextWord, arg |-> calls]) /\ Len(txq) < HostCredits
      /\ written' = [written EXCEPT ![NextWord] = calls]
  BY DEF Store, Transmit
<1>4. HostTypes'
  BY <1>1, <1>2 DEF LinkInv, TypeOK, HostTypes, CallInv
<1>5. [op |-> "store", addr |-> NextWord, arg |-> calls] \in Request
  BY <1>2 DEF LinkInv, TypeOK, Request, Value
<1>6. txq' \in Seq(Request) /\ Len(txq') <= HostCredits
  BY <1>3, <1>5, Appended, LinkAssumption DEF LinkInv, TypeOK
<1>7. written' \in [Addr -> Value]
  BY <1>3 DEF LinkInv, TypeOK, Value
<1>8. LinkTypes'
  BY <1>1, <1>6, <1>7 DEF LinkInv, TypeOK, LinkTypes
<1>9. QED
  BY <1>4, <1>8

LEMMA RefuseTypes ==
  ASSUME LinkInv, Refuse
  PROVE  HostTypes'
<1>1. UNCHANGED <<htod, call, calls, sent, got, ids, vacancy, ep_out_credits>> /\ Words' = Words /\ sent < Words
      /\ pc' = "idle" /\ result' = "INVALID"
  BY DEF Refuse, Words, Return
<1>2. slot' \in [Id -> 0 .. Words]
  <2>1. sent + 1 \in 0 .. Words
    BY <1>1 DEF LinkInv, TypeOK, CallInv
  <2>2. QED
    BY <2>1, Shifted DEF Refuse, LinkInv, TypeOK
<1>3. QED
  BY <1>1, <1>2 DEF LinkInv, TypeOK, HostTypes

LEMMA RequestTypes ==
  ASSUME LinkInv, RequestLoad
  PROVE  HostTypes' /\ LinkTypes'
<1> DEFINE r == [op |-> "load", addr |-> NextWord, arg |-> Head(ids)]
<1>1. UNCHANGED <<pc, call, calls, got, vacancy, ep_out_credits, result, net, out_credits, read_credits, rsp, piso, mem, written>> /\ Words' = Words
  BY DEF RequestLoad, Words
<1>2. sent < Words /\ sent' = sent + 1 /\ htod' \in Nat  /\ NextWord \in Addr
      /\ txq' = Append(txq, r) /\ Len(txq) < HostCredits
      /\ slot' = [slot EXCEPT ![Head(ids)] = sent + 1] /\ ids # <<>> /\ ids' = Tail(ids)
  BY DEF RequestLoad, LinkInv, TypeOK, CountLoad, Transmit, TakeId
<1>3. Head(ids) \in Id /\ ids' \in Seq(Id)
  BY <1>2, Shifted DEF LinkInv, TypeOK
<1>4. sent + 1 \in 0 .. Words
  BY <1>2 DEF LinkInv, TypeOK, CallInv
<1>5. slot' \in [Id -> 0 .. Words]
  BY <1>2, <1>3, <1>4 DEF LinkInv, TypeOK
<1>6. HostTypes'
  BY <1>1, <1>2, <1>3, <1>5, <1>4 DEF LinkInv, TypeOK, HostTypes, CallInv
<1>7. r \in Request
  BY <1>2, <1>3 DEF Request
<1>8. txq' \in Seq(Request) /\ Len(txq') <= HostCredits
  BY <1>2, <1>7, Appended, LinkAssumption DEF LinkInv, TypeOK
<1>9. LinkTypes'
  BY <1>1, <1>8 DEF LinkInv, TypeOK, LinkTypes
<1>10. QED
  BY <1>6, <1>9

LEMMA ReceiveTypes ==
  ASSUME LinkInv, ReceiveResponse
  PROVE  HostTypes' /\ LinkTypes' /\ CallInv'
<1> DEFINE r == Head(piso)
<1>1. UNCHANGED <<call, calls, sent, slot, vacancy, ep_out_credits,
                 txq, net, out_credits, read_credits, rsp, mem, written>> /\ Words' = Words
  BY DEF ReceiveResponse, Words
<1>2. pc = "response" /\ got < sent /\ piso # <<>> /\ piso' = <<>>
   BY DEF ReceiveResponse
<1>3. r \in Response
   BY <1>2, Shifted DEF LinkInv, TypeOK
<1>4. \/ htod = 0 /\ pc' = "idle" /\ result' = "FAIL" /\ UNCHANGED <<htod, got, ids, data>>
      \/ htod # 0 /\ htod' = htod - 1 /\ Deliver(r) /\ got' = got + 1 /\ ids' = <<r.id>> \o ids /\ UNCHANGED <<pc, result>>
   BY DEF ReceiveResponse, Return
<1>5. data' \in [1 .. Words -> Value]
  <2>1. r.data \in Value /\ data \in [1 .. Words -> Value]
    BY <1>3 DEF Response, LinkInv, CallInv
  <2>2. CASE Deliver(r)
    <3>1. \A k : [data EXCEPT ![k] = r.data] \in [1 .. Words -> Value]
      BY <2>1
    <3>2. QED
      BY <2>1, <2>2, <3>1 DEF Deliver
  <2>3. QED
    BY <1>4, <2>1, <2>2
<1>6. ids' \in Seq(Id) /\ got' \in 0 .. sent
  <2>1. r.id \in Id /\ ids \in Seq(Id) /\ got \in 0 .. sent /\ sent \in Nat
    BY <1>3 DEF Response, LinkInv, TypeOK, CallInv
  <2>2. <<r.id>> \in Seq(Id)
    BY <2>1
  <2>3. <<r.id>> \o ids \in Seq(Id)
    BY <2>1, <2>2, ConcatProperties
  <2>4. got + 1 \in 0 .. sent
    BY <2>1, <1>2
  <2>5. QED
    BY <2>1, <2>3, <2>4, <1>4
<1>7. htod' \in Nat
  BY <1>4 DEF LinkInv, TypeOK
<1>8. HostTypes'
  BY <1>1, <1>2, <1>4, <1>6, <1>7 DEF LinkInv, TypeOK, HostTypes
<1>9. LinkTypes'
  BY <1>1, <1>2 DEF LinkInv, TypeOK, LinkTypes
<1>10. CallInv'
  BY <1>1, <1>2, <1>4, <1>5 DEF LinkInv, CallInv, Reading, Value
<1>11. QED
  BY <1>8, <1>9, <1>10

\* A response's place and a step of the hardware.
LEMMA HardwareTypes ==
  ASSUME LinkInv, CreditInv', LinkStep
  PROVE  HostTypes' /\ LinkTypes' /\ CallInv'
<1>1. UNCHANGED <<htod, pc, local, result, written>> /\ Words' = Words
  BY DEF LinkStep, Depart, Serialize, Serve, Words, local
<1>2. HostTypes' /\ CallInv'
  BY <1>1 DEF LinkInv, TypeOK, CallInv, HostTypes, local, Reading, Value
<1>3. CASE Depart
  <2> DEFINE r == Head(txq)
             d == Home[r.addr]
  <2>1. /\ r \in Request /\ d \in Dest /\ HasCredits(r) /\ txq # <<>> /\ txq' = Tail(txq)
        /\ net' = [net EXCEPT ![d] = Append(@, r)]
        /\ out_credits' = out_credits - 1
        /\ r.op = "load" => read_credits' = read_credits - 1
        /\ r.op # "load" => read_credits' = read_credits
        /\ UNCHANGED <<rsp, piso, mem, written>>
    BY <1>3, DepartEffect
  <2>2. txq' \in Seq(Request) /\ Len(txq') <= HostCredits
    BY <2>1, Shifted, LinkAssumption DEF LinkInv, TypeOK
  <2> HIDE DEF r, d
  <2>3. Append(net[d], r) \in Seq(Request)
    BY <2>1, Appended DEF LinkInv, TypeOK
  <2>4. net' \in [Dest -> Seq(Request)]
    BY <2>1, <2>3 DEF LinkInv, TypeOK
  <2>5. out_credits' \in 0 .. MaxOutCredits /\ read_credits' \in 0 .. HostCredits
    BY <2>1, LinkAssumption DEF LinkInv, TypeOK, HasCredits
  <2>6. QED
    BY <1>2, <2>1, <2>2, <2>4, <2>5 DEF LinkInv, TypeOK, LinkTypes
<1>4. ASSUME NEW d \in Dest, Serve(d) PROVE LinkTypes'
  <2> DEFINE r == Head(net[d])
             answer == [id |-> r.arg, data |-> mem[r.addr]]
  <2>1. /\ r \in Request /\ net[d] # <<>>
        /\ net' = [net EXCEPT ![d] = Tail(@)]
        /\ out_credits' = out_credits + 1
        /\ r.op = "store" => mem' = [mem EXCEPT ![r.addr] = r.arg] /\ rsp' = rsp
        /\ r.op = "load" => rsp' = Append(rsp, answer) /\ mem' = mem
        /\ UNCHANGED <<txq, read_credits, piso, written>>
    BY <1>4, ServeEffect
  <2>2. Tail(net[d]) \in Seq(Request)
    BY <2>1, Shifted DEF LinkInv, TypeOK
  <2>3. net' \in [Dest -> Seq(Request)]
    BY <2>1, <2>2 DEF LinkInv, TypeOK
  <2>4. r.op \in AnyOp /\ r.addr \in Addr /\ (r.op = "store" => r.arg \in Value)
        /\ (r.op = "load" => r.arg \in Id)
    BY <2>1, RequestOps
  <2>5. mem' \in [Addr -> Value]
    BY <2>1, <2>4 DEF LinkInv, TypeOK, AnyOp
  <2>6. r.op = "load" => answer \in Response
    BY <2>4 DEF Response, LinkInv, TypeOK
  <2>7. rsp' \in Seq(Response)
    <3>1. rsp \in Seq(Response)
      BY DEF LinkInv, TypeOK
    <3>2. r.op = "load" => Append(rsp, answer) \in Seq(Response)
      BY <2>6, <3>1, Appended
    <3>3. QED
      BY <2>1, <2>4, <3>1, <3>2 DEF AnyOp
  <2>8. out_credits' \in 0 .. MaxOutCredits /\ Len(rsp') <= HostCredits
    <3>1. Cardinality(Places(net', AnyOp)) \in Nat /\ Cardinality(Places(net', LoadOp)) \in Nat
      BY FS_CardinalityType DEF CreditInv
    <3>2. out_credits' + Cardinality(Places(net', AnyOp)) = MaxOutCredits
          /\ read_credits' + Cardinality(Places(net', LoadOp)) + Len(rsp') = HostCredits
      BY DEF CreditInv
    <3>3. out_credits' \in Nat /\ read_credits' \in Nat /\ Len(rsp') \in Nat
      BY <2>1, <2>7 DEF LinkInv, TypeOK
    <3>4. QED
      BY <3>1, <3>2, <3>3, LinkAssumption
  <2>9. QED
    BY <2>1, <2>3, <2>5, <2>7, <2>8 DEF LinkInv, TypeOK, LinkTypes
<1>5. CASE Serialize
  <2>1. /\ rsp # <<>> /\ piso' = <<Head(rsp)>> /\ rsp' = Tail(rsp)
        /\ read_credits' = read_credits + 1
        /\ UNCHANGED <<txq, net, out_credits, mem, written>>
    BY <1>5 DEF Serialize
  <2>2. Head(rsp) \in Response /\ rsp' \in Seq(Response) /\ Len(rsp') = Len(rsp) - 1
    BY <2>1, Shifted DEF LinkInv, TypeOK
  <2>3. read_credits' \in 0 .. HostCredits /\ Len(rsp') <= HostCredits
    <3>1. Cardinality(Places(net', LoadOp)) \in Nat
      BY FS_CardinalityType DEF CreditInv
    <3>2. read_credits' + Cardinality(Places(net', LoadOp)) + Len(rsp') = HostCredits
      BY DEF CreditInv
    <3>3. read_credits' \in Nat /\ Len(rsp') \in Nat
      BY <2>1, <2>2 DEF LinkInv, TypeOK
    <3>4. QED
      BY <3>1, <3>2, <3>3, LinkAssumption
  <2>4. piso' \in Seq(Response) /\ Len(piso') <= 1
    BY <2>1, <2>2
  <2>5. /\ txq' \in Seq(Request) /\ Len(txq') <= HostCredits /\ net' \in [Dest -> Seq(Request)]
        /\ out_credits' \in 0 .. MaxOutCredits
        /\ mem' \in [Addr -> Value] /\ written' \in [Addr -> Value]
    BY <2>1 DEF LinkInv, TypeOK
  <2>6. QED
    BY <1>2, <2>2, <2>3, <2>4, <2>5 DEF LinkTypes
<1>6. QED
  BY <1>2, <1>3, <1>4, <1>5 DEF LinkStep

LEMMA InitLink == Init => LinkInv
<1> SUFFICES ASSUME Init PROVE LinkInv
  OBVIOUS
<1>1. TypeOK
  BY LinkAssumption, CallsAssumption DEF Init, TypeOK, Words, Value, Kinds
<1>2. CallInv
  BY DEF Init, CallInv, Words, Reading
<1>3. CreditInv
  <2>1. \A ops : Places(net, ops) = {}
    BY DEF Init, Places
  <2>2. IsFiniteSet({}) /\ Cardinality({}) = 0
    BY FS_EmptySet
  <2>3. out_credits = MaxOutCredits /\ read_credits = HostCredits /\ Len(rsp) = 0
    BY DEF Init
  <2>4. Places(net, AnyOp) = {} /\ Places(net, LoadOp) = {}
    BY <2>1
  <2>5. IsFiniteSet(Places(net, AnyOp)) /\ Cardinality(Places(net, AnyOp)) = 0
    BY <2>2, <2>4
  <2>6. IsFiniteSet(Places(net, LoadOp)) /\ Cardinality(Places(net, LoadOp)) = 0
    BY <2>2, <2>4
  <2>7. QED
    BY <2>3, <2>5, <2>6, LinkAssumption DEF CreditInv
<1>4. QED
  BY <1>1, <1>2, <1>3 DEF LinkInv

\* Steps of the host that leave its call and its buffer alone.
LEMMA CallKept ==
  ASSUME LinkInv, UNCHANGED <<call, calls, data>>,
         \/ UpdateRequests \/ HaveCapacity \/ EnterFence \/ FenceTest \/ FencePoll \/ EndRequests
         \/ EndResponses \/ Store \/ Refuse \/ RequestLoad
  PROVE  CallInv'
<1>1. Words' = Words /\ Words \in Nat
  BY DEF Words, LinkInv, CallInv
<1>2. pc' = "store" => call.kind \in {"write_mem", "write"} /\ sent' < Words
  BY DEF LinkInv, CallInv, UpdateRequests, HaveCapacity, EnterFence, FenceTest, FencePoll, local,
         FenceReads, EndRequests, EndResponses, Store, Refuse, RequestLoad, Return
<1>3. pc' \in {"fence", "vacancy", "credits"} => call.kind = "write_mem" /\ sent' = Words
  BY DEF LinkInv, CallInv, UpdateRequests, HaveCapacity, EnterFence, FenceTest, FencePoll, local,
         FenceReads, EndRequests, EndResponses, Store, Refuse, RequestLoad, Return
<1>4. /\ pc' = "update" => call.kind = "write_mem"
      /\ pc' \in {"request", "response"} => call.kind \in {"read_mem", "read"}
      /\ pc' # "idle" => pc # "idle"
  BY DEF LinkInv, CallInv, UpdateRequests, HaveCapacity, EnterFence, FenceTest, FencePoll, local,
         FenceReads, EndRequests, EndResponses, Store, Refuse, RequestLoad, Return, Reading
<1>5. QED
  BY <1>1, <1>2, <1>3, <1>4 DEF LinkInv, CallInv, Reading, Value

LEMMA LinkInvStep == LinkInv /\ [Next]_vars => LinkInv'
<1> SUFFICES ASSUME LinkInv, [Next]_vars PROVE LinkInv'
  OBVIOUS
<1>1. CreditInv'
  BY CreditStep
<1>2. HostTypes /\ LinkTypes
  BY TypeParts DEF LinkInv
<1> SUFFICES HostTypes' /\ LinkTypes' /\ CallInv'
  BY <1>1 DEF LinkInv, TypeOK, HostTypes, LinkTypes
<1>3. ASSUME NEW c \in Calls, Call(c) PROVE HostTypes' /\ LinkTypes' /\ CallInv'
  BY <1>2, <1>3, CallTypes, LinkTypesKept DEF Call
<1>4. CASE UpdateRequests \/ HaveCapacity \/ EnterFence \/ FenceTest \/ FencePoll
           \/ EndRequests \/ EndResponses
  <2>1. UNCHANGED <<link, written, call, calls, data>>
    BY <1>4 DEF UpdateRequests, HaveCapacity, EnterFence, FenceTest, FencePoll, EndRequests,
                EndResponses, local
  <2>2. QED
    BY <1>2, <1>4, <2>1, LoopTypes, LinkTypesKept, CallKept
<1>5. CASE Store
  BY <1>5, StoreTypes, CallKept DEF Store
<1>6. CASE Refuse
  BY <1>2, <1>6, RefuseTypes, LinkTypesKept, CallKept DEF Refuse
<1>7. CASE RequestLoad
  BY <1>7, RequestTypes, CallKept DEF RequestLoad
<1>8. CASE ReceiveResponse
  BY <1>8, ReceiveTypes
<1>9. CASE LinkStep
  BY <1>1, <1>9, HardwareTypes
<1>10. CASE UNCHANGED vars
  <2>1. Words' = Words
    BY <1>10 DEF vars, local, Words
  <2>2. QED
    BY <1>2, <1>10, <2>1 DEF vars, local, link, HostTypes, LinkTypes, CallInv, LinkInv, Reading, Value
<1>11. QED
  BY <1>3, <1>4, <1>5, <1>6, <1>7, <1>8, <1>9, <1>10 DEF Next, HostStep

LEMMA LinkInvariant == Spec => []LinkInv
<1>1. QED
  BY InitLink, LinkInvStep, PTL DEF Spec

\* Type correctness: however the calls, the requests and the responses interleave, the FIFOs, the
\* credits and the counts of the host stay within their limits.
THEOREM TypeCorrect == Spec => []TypeOK
<1>1. LinkInv => TypeOK
  BY DEF LinkInv
<1>2. QED
  BY <1>1, LinkInvariant, PTL

-----------------------------------------------------------------------------
(***************************************************************************)
(* Stores reach the memory in the order they were made.                    *)
(***************************************************************************)

LEMMA LastAppend ==
  ASSUME NEW s \in Seq(Request), NEW r \in Request, NEW a, NEW x
  PROVE  /\ StoreTo(r, a) => ~NoneTo(Append(s, r), a)
         /\ StoreTo(r, a) /\ r.arg = x => LastTo(Append(s, r), a, x)
         /\ ~StoreTo(r, a) /\ NoneTo(Append(s, r), a) => NoneTo(s, a)
         /\ ~StoreTo(r, a) /\ LastTo(s, a, x) => LastTo(Append(s, r), a, x)
<1> DEFINE t == Append(s, r)
<1>1. /\ Len(s) \in Nat /\ Len(t) = Len(s) + 1 /\ t[Len(s) + 1] = r
      /\ \A k \in 1 .. Len(s) : t[k] = s[k]
  BY Appended
<1> HIDE DEF t
<1>2. StoreTo(r, a) => ~NoneTo(t, a)
  BY <1>1 DEF NoneTo
<1>3. ASSUME StoreTo(r, a), r.arg = x PROVE LastTo(t, a, x)
  <2>1. \A k \in 1 .. Len(t) : k = Len(t) \/ Len(t) \in k + 1 .. Len(t)
    BY <1>1
  <2>2. QED
    BY <1>1, <1>3, <2>1 DEF LastTo
<1>4. ~StoreTo(r, a) /\ NoneTo(t, a) => NoneTo(s, a)
  BY <1>1 DEF NoneTo
<1>5. ASSUME ~StoreTo(r, a), LastTo(s, a, x) PROVE LastTo(t, a, x)
  <2>1. SUFFICES ASSUME NEW k \in 1 .. Len(t), StoreTo(t[k], a), t[k].arg # x
                 PROVE  \E j \in k + 1 .. Len(t) : StoreTo(t[j], a)
    BY DEF LastTo
  <2>2. k \in 1 .. Len(s) /\ t[k] = s[k]
    BY <1>1, <1>5, <2>1
  <2>3. PICK j \in k + 1 .. Len(s) : StoreTo(s[j], a)
    BY <1>5, <2>1, <2>2 DEF LastTo
  <2>4. j \in k + 1 .. Len(t) /\ t[j] = s[j]
    BY <1>1, <2>2
  <2>5. QED
    BY <2>3, <2>4
<1>6. QED
  BY <1>2, <1>3, <1>4, <1>5 DEF t

LEMMA LastTail ==
  ASSUME NEW s \in Seq(Request), s # <<>>, NEW a, NEW x
  PROVE  /\ LastTo(s, a, x) => LastTo(Tail(s), a, x)
         /\ ~StoreTo(Head(s), a) /\ NoneTo(Tail(s), a) => NoneTo(s, a)
         /\ StoreTo(Head(s), a) /\ NoneTo(Tail(s), a) /\ LastTo(s, a, x) => Head(s).arg = x
<1> DEFINE t == Tail(s)
<1>1. /\ Len(s) \in Nat \ {0} /\ Len(t) = Len(s) - 1 /\ Head(s) = s[1]
      /\ \A k \in 1 .. Len(s) - 1 : t[k] = s[k + 1]
  BY Shifted
<1> HIDE DEF t
<1>2. \A k \in 2 .. Len(s) : k - 1 \in 1 .. Len(t) /\ t[k - 1] = s[k]
  BY <1>1
<1>3. ASSUME LastTo(s, a, x) PROVE LastTo(t, a, x)
  <2>1. SUFFICES ASSUME NEW k \in 1 .. Len(t), StoreTo(t[k], a), t[k].arg # x
                 PROVE  \E j \in k + 1 .. Len(t) : StoreTo(t[j], a)
    BY DEF LastTo
  <2>2. k + 1 \in 1 .. Len(s) /\ t[k] = s[k + 1]
    BY <1>1
  <2>3. PICK j \in (k + 1) + 1 .. Len(s) : StoreTo(s[j], a)
    BY <1>3, <2>1, <2>2 DEF LastTo
  <2>4. j - 1 \in k + 1 .. Len(t) /\ t[j - 1] = s[j]
    BY <1>1, <1>2
  <2>5. QED
    BY <2>3, <2>4
<1>4. ASSUME ~StoreTo(Head(s), a), NoneTo(t, a) PROVE NoneTo(s, a)
  <2>1. SUFFICES ASSUME NEW k \in 1 .. Len(s) PROVE ~StoreTo(s[k], a)
    BY DEF NoneTo
  <2>2. CASE k = 1
    BY <1>1, <1>4, <2>2
  <2>3. CASE k # 1
    <3>1. k \in 2 .. Len(s)
      BY <2>3
    <3>2. QED
      BY <1>2, <1>4, <3>1 DEF NoneTo
  <2>4. QED
    BY <2>2, <2>3
<1>5. ASSUME StoreTo(Head(s), a), NoneTo(t, a), LastTo(s, a, x) PROVE Head(s).arg = x
  <2>1. 1 \in 1 .. Len(s)
    BY <1>1
  <2>2. \A j \in 1 + 1 .. Len(s) : ~StoreTo(s[j], a)
    BY <1>2, <1>5 DEF NoneTo
  <2>3. QED
    BY <1>1, <1>5, <2>1, <2>2 DEF LastTo
<1>6. QED
  BY <1>3, <1>4, <1>5 DEF t

LEMMA InitStores == Init => StoresInv
<1> SUFFICES ASSUME Init PROVE StoresInv
  OBVIOUS
<1>1. txq = <<>> /\ (\A d \in Dest : net[d] = <<>>) /\ mem = written
  BY DEF Init
<1>2. \A d \in Dest : Len(net[d]) = 0
  BY <1>1
<1>3. HomeInv
  BY <1>2 DEF HomeInv
<1>4. \A a \in Addr : Home[a] \in Dest
  BY DEF Dest
<1>5. ASSUME NEW a \in Addr PROVE LastInv(a)
  <2>1. Len(txq) = 0 /\ Len(net[Home[a]]) = 0
    BY <1>1, <1>2, <1>4
  <2>2. QED
    BY <1>1, <2>1 DEF LastInv, LastTo, NoneTo
<1>6. QED
  BY <1>3, <1>5 DEF StoresInv

LEMMA StoresOfStore == LinkInv /\ StoresInv /\ Store => StoresInv'
<1> SUFFICES ASSUME LinkInv, StoresInv, Store PROVE StoresInv'
  OBVIOUS
<1> DEFINE r == [op |-> "store", addr |-> NextWord, arg |-> calls]
<1>1. /\ NextWord \in Addr /\ txq' = Append(txq, r)
      /\ written' = [written EXCEPT ![NextWord] = calls] /\ UNCHANGED <<net, mem>>
  BY DEF Store, Transmit
<1>2. r \in Request /\ txq \in Seq(Request) /\ written \in [Addr -> Value]
  BY <1>1 DEF LinkInv, TypeOK, Request, Value
<1>3. HomeInv'
  BY <1>1 DEF StoresInv, HomeInv
<1>4. ASSUME NEW a \in Addr PROVE LastInv(a)'
  <2>1. LastInv(a)
    BY DEF StoresInv
  <2>2. StoreTo(r, a) <=> a = NextWord
    BY DEF StoreTo
  <2>3. CASE a = NextWord
    <3>1. r.arg = written'[a]
      BY <1>1, <1>2, <2>3
    <3>2. LastTo(txq', a, written'[a]) /\ ~NoneTo(txq', a)
      BY <1>1, <1>2, <2>2, <2>3, <3>1, LastAppend
    <3>3. QED
      BY <3>2 DEF LastInv
  <2>4. CASE a # NextWord
    <3>1. written'[a] = written[a]
      BY <1>1, <1>2, <2>4
    <3>2. LastTo(txq', a, written[a]) /\ (NoneTo(txq', a) => NoneTo(txq, a))
      BY <1>1, <1>2, <2>1, <2>2, <2>4, LastAppend DEF LastInv
    <3>3. QED
      BY <1>1, <2>1, <3>1, <3>2 DEF LastInv
  <2>5. QED
    BY <2>3, <2>4
<1>5. QED
  BY <1>3, <1>4 DEF StoresInv

LEMMA StoresOfLoad == LinkInv /\ StoresInv /\ RequestLoad => StoresInv'
<1> SUFFICES ASSUME LinkInv, StoresInv, RequestLoad PROVE StoresInv'
  OBVIOUS
<1> DEFINE r == [op |-> "load", addr |-> NextWord, arg |-> Head(ids)]
<1>1. NextWord \in Addr /\ ids # <<>> /\ txq' = Append(txq, r) /\ UNCHANGED <<net, mem, written>>
  BY DEF RequestLoad, Transmit
<1>2. Head(ids) \in Id /\ txq \in Seq(Request)
  BY <1>1, Shifted DEF LinkInv, TypeOK
<1>3. r \in Request
  BY <1>1, <1>2 DEF Request
<1>4. HomeInv'
  BY <1>1 DEF StoresInv, HomeInv
<1>5. ASSUME NEW a \in Addr PROVE LastInv(a)'
  <2>1. LastInv(a) /\ ~StoreTo(r, a)
    BY DEF StoresInv, StoreTo
  <2>2. LastTo(txq', a, written[a]) /\ (NoneTo(txq', a) => NoneTo(txq, a))
    BY <1>1, <1>2, <1>3, <2>1, LastAppend DEF LastInv
  <2>3. QED
    BY <1>1, <2>1, <2>2 DEF LastInv
<1>6. QED
  BY <1>4, <1>5 DEF StoresInv

LEMMA StoresOfDepart == LinkInv /\ StoresInv /\ Depart => StoresInv'
<1> SUFFICES ASSUME LinkInv, StoresInv, Depart PROVE StoresInv'
  OBVIOUS
<1> DEFINE r == Head(txq)
           d == Home[r.addr]
<1>1. /\ r \in Request /\ d \in Dest /\ txq # <<>> /\ txq' = Tail(txq)
      /\ net' = [net EXCEPT ![d] = Append(@, r)] /\ UNCHANGED <<mem, written>>
  BY DepartEffect
<1>2. txq \in Seq(Request) /\ net \in [Dest -> Seq(Request)]
  BY DEF LinkInv, TypeOK
<1>3. HomeInv'
  <2>1. SUFFICES ASSUME NEW e \in Dest, NEW k \in 1 .. Len(net'[e]) PROVE Home[net'[e][k].addr] = e
    BY DEF HomeInv
  <2>2. CASE e # d
    BY <1>1, <1>2, <2>2 DEF StoresInv, HomeInv
  <2>3. CASE e = d
    <3>1. net'[d] = Append(net[d], r) /\ net[d] \in Seq(Request)
      BY <1>1, <1>2
    <3>2. /\ Len(net'[d]) = Len(net[d]) + 1 /\ net'[d][Len(net[d]) + 1] = r
          /\ \A i \in 1 .. Len(net[d]) : net'[d][i] = net[d][i]
      BY <1>1, <3>1, Appended
    <3>3. Len(net[d]) \in Nat
      BY <3>1
    <3>4. QED
      BY <2>3, <3>2, <3>3, <1>1 DEF StoresInv, HomeInv
  <2>4. QED
    BY <2>2, <2>3
<1> HIDE DEF r
<1>4. ASSUME NEW a \in Addr PROVE LastInv(a)'
  <2>1. LastInv(a) /\ Home[a] \in Dest
    BY DEF StoresInv, Dest
  <2>2. LastTo(txq', a, written[a]) /\ (~StoreTo(r, a) /\ NoneTo(txq', a) => NoneTo(txq, a))
    BY <1>1, <1>2, <2>1, LastTail DEF LastInv, r
  <2>3. net[Home[a]] \in Seq(Request)
    BY <1>2, <2>1
  <2>4. CASE StoreTo(r, a)
    <3>1. net'[Home[a]] = Append(net[Home[a]], r)
      BY <1>1, <1>2, <2>1, <2>4 DEF StoreTo
    <3>2. NoneTo(txq', a) => r.arg = written[a]
      BY <1>1, <1>2, <2>1, <2>4, LastTail DEF LastInv, r
    <3>3. ~NoneTo(net'[Home[a]], a)
      BY <1>1, <2>3, <2>4, <3>1, LastAppend
    <3>4. NoneTo(txq', a) => LastTo(net'[Home[a]], a, written[a])
      BY <1>1, <2>3, <2>4, <3>1, <3>2, LastAppend
    <3>5. QED
      BY <1>1, <2>2, <3>3, <3>4 DEF LastInv
  <2>5. CASE ~StoreTo(r, a)
    <3>1. net'[Home[a]] = net[Home[a]] \/ net'[Home[a]] = Append(net[Home[a]], r)
      BY <1>1, <1>2, <2>1
    <3>2. /\ LastTo(net[Home[a]], a, written[a]) => LastTo(net'[Home[a]], a, written[a])
          /\ NoneTo(net'[Home[a]], a) => NoneTo(net[Home[a]], a)
      BY <1>1, <2>3, <2>5, <3>1, LastAppend
    <3>3. QED
      BY <1>1, <2>1, <2>2, <2>5, <3>2 DEF LastInv
  <2>6. QED
    BY <2>4, <2>5
<1>5. QED
  BY <1>3, <1>4 DEF StoresInv

LEMMA StoresOfServe ==
  ASSUME LinkInv, StoresInv, NEW d \in Dest, Serve(d)
  PROVE  StoresInv'
<1> DEFINE r == Head(net[d])
<1>1. /\ r \in Request /\ net[d] # <<>> /\ net' = [net EXCEPT ![d] = Tail(@)]
      /\ r.op = "store" => mem' = [mem EXCEPT ![r.addr] = r.arg]
      /\ r.op = "load" => mem' = mem
      /\ UNCHANGED <<txq, written>>
  BY ServeEffect
<1>2. /\ net \in [Dest -> Seq(Request)] /\ mem \in [Addr -> Value]
      /\ r.op \in AnyOp /\ r.addr \in Addr
  BY <1>1, RequestOps DEF LinkInv, TypeOK
<1>3. /\ Len(net[d]) \in Nat \ {0} /\ r = net[d][1]
      /\ net'[d] = Tail(net[d]) /\ Len(net'[d]) = Len(net[d]) - 1
      /\ \A k \in 1 .. Len(net[d]) - 1 : net'[d][k] = net[d][k + 1]
  BY <1>1, <1>2, Shifted
<1>4. Home[r.addr] = d
  BY <1>3 DEF StoresInv, HomeInv
<1>5. HomeInv'
  <2>1. SUFFICES ASSUME NEW e \in Dest, NEW k \in 1 .. Len(net'[e]) PROVE Home[net'[e][k].addr] = e
    BY DEF HomeInv
  <2>2. CASE e # d
    BY <1>1, <1>2, <2>2 DEF StoresInv, HomeInv
  <2>3. CASE e = d
    <3>1. k \in 1 .. Len(net[d]) - 1 /\ net'[e][k] = net'[d][k]
      BY <1>3, <2>3
    <3>2. k + 1 \in 1 .. Len(net[d]) /\ net'[d][k] = net[d][k + 1]
      BY <1>3, <3>1
    <3>3. QED
      BY <2>3, <3>1, <3>2 DEF StoresInv, HomeInv
  <2>4. QED
    BY <2>2, <2>3
<1>6. ASSUME NEW a \in Addr PROVE LastInv(a)'
  <2>1. LastInv(a) /\ Home[a] \in Dest
    BY DEF StoresInv, Dest
  <2>2. CASE StoreTo(r, a)
    <3>1. Home[a] = d /\ r.addr = a /\ mem'[a] = r.arg
      BY <1>1, <1>2, <1>4, <2>2 DEF StoreTo
    <3>2. LastTo(net[d], a, written[a]) => LastTo(net'[d], a, written[a])
      BY <1>1, <1>2, <1>3, LastTail
    <3>3. NoneTo(net'[d], a) /\ LastTo(net[d], a, written[a]) => r.arg = written[a]
      BY <1>1, <1>2, <1>3, <2>2, LastTail
    <3>4. QED
      BY <1>1, <2>1, <3>1, <3>2, <3>3 DEF LastInv
  <2>3. CASE ~StoreTo(r, a)
    <3>1. mem'[a] = mem[a]
      BY <1>1, <1>2, <2>3 DEF StoreTo, AnyOp
    <3>2. CASE Home[a] = d
      <4>1. LastTo(net[d], a, written[a]) => LastTo(net'[d], a, written[a])
        BY <1>1, <1>2, <1>3, LastTail
      <4>2. NoneTo(net'[d], a) => NoneTo(net[d], a)
        BY <1>1, <1>2, <1>3, <2>3, LastTail
      <4>3. QED
        BY <1>1, <2>1, <3>1, <3>2, <4>1, <4>2 DEF LastInv
    <3>3. CASE Home[a] # d
      <4>1. net'[Home[a]] = net[Home[a]]
        BY <1>1, <1>2, <2>1, <3>3
      <4>2. QED
        BY <1>1, <2>1, <3>1, <4>1 DEF LastInv
    <3>4. QED
      BY <3>2, <3>3
  <2>4. QED
    BY <2>2, <2>3
<1>7. QED
  BY <1>5, <1>6 DEF StoresInv

LEMMA StoresStep == LinkInv /\ StoresInv /\ [Next]_vars => StoresInv'
<1> SUFFICES ASSUME LinkInv, StoresInv, [Next]_vars PROVE StoresInv'
  OBVIOUS
<1>1. CASE UNCHANGED <<txq, net, mem, written>>
  BY <1>1 DEF StoresInv, HomeInv, LastInv
<1>2. Store \/ RequestLoad \/ Depart \/ (\E d \in Dest : Serve(d)) \/ UNCHANGED <<txq, net, mem, written>>
  BY DEF Next, Call, HostStep, LinkStep, UpdateRequests, HaveCapacity, Refuse, EnterFence, FenceTest,
         FencePoll, EndRequests, ReceiveResponse, EndResponses, Serialize, link, local, vars
<1>3. QED
  BY <1>1, <1>2, StoresOfStore, StoresOfLoad, StoresOfDepart, StoresOfServe

-----------------------------------------------------------------------------
(***************************************************************************)
(* The fence.                                                              *)
(***************************************************************************)

\* The endpoint has all its credits only when nothing is on the network.
LEMMA AllCreditsBack ==
  ASSUME LinkInv, out_credits = MaxOutCredits
  PROVE  \A d \in Dest : net[d] = <<>>
<1>1. Cardinality(Places(net, AnyOp)) = 0
  BY FS_CardinalityType, LinkAssumption DEF LinkInv, CreditInv
<1>2. Places(net, AnyOp) = {}
  BY <1>1, FS_EmptySet DEF LinkInv, CreditInv
<1>3. SUFFICES ASSUME NEW d \in Dest, net[d] # <<>> PROVE FALSE
  OBVIOUS
<1>4. net[d] \in Seq(Request) /\ d \in DOMAIN net
  BY DEF LinkInv, TypeOK
<1>5. Len(net[d]) \in Nat \ {0} /\ net[d][1] \in Request
  BY <1>3, <1>4, Shifted
<1>6. 1 \in 1 .. Len(net[d]) /\ net[d][1].op \in AnyOp
  BY <1>5, RequestOps
<1>7. <<d, 1>> \in Places(net, AnyOp)
  BY <1>4, <1>6, PlaceOf
<1>8. QED
  BY <1>2, <1>7

\* The fence's locals never hold, by chance, what it waits for.
CleanLocals == <<HostCredits, MaxOutCredits>> \notin FenceLocals

LEMMA QuietStays ==
  ASSUME LinkInv, [Next]_vars, pc \notin {"store", "request"}
  PROVE  (txq = <<>> => txq' = <<>>) /\ (Quiet => Quiet')
<1>1. CASE UNCHANGED <<txq, net>>
  BY <1>1 DEF Quiet
<1>2. CASE Depart
  BY <1>2 DEF Depart, Quiet
<1>3. CASE \E d \in Dest : Serve(d)
  BY <1>3 DEF Serve, Quiet
<1>4. Depart \/ (\E d \in Dest : Serve(d)) \/ UNCHANGED <<txq, net>>
  BY DEF Next, Call, HostStep, LinkStep, UpdateRequests, HaveCapacity, Store, Refuse, EnterFence,
         FenceTest, FencePoll, RequestLoad, EndRequests, ReceiveResponse, EndResponses, Serialize,
         link, local, vars
<1>5. QED
  BY <1>1, <1>2, <1>3, <1>4

\* Steps that do not move the fence.
LEMMA FenceKept ==
  ASSUME LinkInv, FenceInv, [Next]_vars, UNCHANGED <<pc, call, vacancy, ep_out_credits, result>>
  PROVE  FenceInv'
<1>1. pc \in {"store", "request"} => FenceInv'
  BY DEF FenceInv, Succeeded
<1>2. pc \notin {"store", "request"} => FenceInv'
  BY QuietStays DEF FenceInv, Succeeded
<1>3. QED
  BY <1>1, <1>2

LEMMA FenceStep == CleanLocals /\ LinkInv /\ FenceInv /\ [Next]_vars => FenceInv'
<1> SUFFICES ASSUME CleanLocals, LinkInv, FenceInv, [Next]_vars PROVE FenceInv'
  OBVIOUS
<1>1. ASSUME pc' \notin {"idle", "fence", "credits"} PROVE FenceInv'
  BY <1>1 DEF FenceInv, Succeeded
<1>2. ASSUME NEW c \in Calls, Call(c) PROVE FenceInv'
  BY <1>2, CallsAssumption, <1>1 DEF Call, Kinds
<1>3. CASE LinkStep \/ UNCHANGED vars
  BY <1>3, FenceKept DEF LinkStep, Depart, Serve, Serialize, vars, local
<1>4. CASE UpdateRequests \/ HaveCapacity \/ EndRequests
  BY <1>1, <1>4 DEF UpdateRequests, HaveCapacity, EndRequests
<1>5. CASE Store
  <2>1. pc' = "update" \/ (pc' = "idle" /\ call.kind # "write_mem" /\ UNCHANGED call)
    BY <1>5 DEF Store, Return
  <2>2. QED
    BY <2>1 DEF FenceInv, Succeeded
<1>6. CASE Refuse
  BY <1>6 DEF Refuse, Return, FenceInv, Succeeded
<1>7. CASE EnterFence
  <2>1. PICK l \in FenceLocals : vacancy' = l[1] /\ ep_out_credits' = l[2]
    BY <1>7 DEF EnterFence
  <2>2. ~(l[1] = HostCredits /\ l[2] = MaxOutCredits)
    BY LinkAssumption DEF CleanLocals
  <2>3. QED
    BY <1>7, <2>1, <2>2 DEF EnterFence, FenceInv, Succeeded
<1>8. CASE FenceTest
  <2>1. UNCHANGED <<txq, net>> /\ pc = "fence"
    BY <1>8 DEF FenceTest, link
  <2>2. pc' = "vacancy" \/ (pc' = "idle" /\ vacancy = HostCredits /\ ep_out_credits = MaxOutCredits)
    BY <1>8 DEF FenceTest, Return
  <2>3. QED
    BY <2>1, <2>2 DEF FenceInv, Quiet, Succeeded
<1>9. CASE FencePoll
  <2>1. UNCHANGED <<txq, net, call>>
    BY <1>9 DEF FencePoll, link
  <2>2. CASE pc = "vacancy" /\ vacancy' = HostCredits - Len(txq) /\ pc' = "credits"
    <3>1. Len(txq) = 0 => txq = <<>>
      BY EmptySeq DEF LinkInv, TypeOK
    <3>2. Len(txq) \in Nat /\ HostCredits \in Nat
      BY LinkAssumption DEF LinkInv, TypeOK
    <3>3. vacancy' = HostCredits => Len(txq) = 0
      BY <2>2, <3>2
    <3>4. QED
      BY <2>1, <2>2, <3>1, <3>3 DEF FenceInv, Succeeded
  <2>3. CASE pc = "credits" /\ ep_out_credits' = out_credits /\ pc' = "fence" /\ UNCHANGED vacancy
    BY <2>1, <2>3, AllCreditsBack DEF FenceInv, Quiet, Succeeded
  <2>4. QED
    BY <1>9, <2>2, <2>3 DEF FencePoll, FenceReads
<1>10. CASE RequestLoad
  BY <1>1, <1>10 DEF RequestLoad
<1>11. CASE ReceiveResponse \/ EndResponses
  <2>1. call.kind # "write_mem" /\ UNCHANGED call
    BY <1>11 DEF ReceiveResponse, EndResponses, local, LinkInv, CallInv, Reading
  <2>2. pc' \notin {"fence", "credits"}
    BY <1>11 DEF ReceiveResponse, EndResponses, Return
  <2>3. QED
    BY <2>1, <2>2 DEF FenceInv, Succeeded
<1>12. QED
  BY <1>2, <1>3, <1>4, <1>5, <1>6, <1>7, <1>8, <1>9, <1>10, <1>11 DEF Next, HostStep

\* When write_mem or memset returns, nothing it or an earlier call has stored is still under way,
\* though the fence reads its two counters one after the other while requests move: this needs
\* only that its uninitialized locals do not hold the awaited pair from the start.
THEOREM FencedStores == CleanLocals => (Spec => []FencedStoresPerformed)
<1> SUFFICES ASSUME CleanLocals PROVE Spec => []FencedStoresPerformed
  OBVIOUS
<1> DEFINE Inv == StoresInv /\ FenceInv
<1>1. Init => Inv
  BY InitStores DEF Init, FenceInv, Succeeded
<1>2. LinkInv /\ Inv /\ [Next]_vars => Inv'
  BY StoresStep, FenceStep
<1>3. LinkInv /\ Inv => FencedStoresPerformed
  <2> SUFFICES ASSUME LinkInv, Inv, Succeeded({"write_mem"}) PROVE mem = written
    BY DEF FencedStoresPerformed
  <2>1. Quiet
    BY DEF FenceInv
  <2>2. ASSUME NEW a \in Addr PROVE mem[a] = written[a]
    <3>1. Len(txq) = 0 /\ Len(net[Home[a]]) = 0
      BY <2>1 DEF Quiet, Dest
    <3>2. NoneTo(txq, a) /\ NoneTo(net[Home[a]], a)
      BY <3>1 DEF NoneTo
    <3>3. QED
      BY <3>2 DEF StoresInv, LastInv
  <2>3. mem \in [Addr -> Value] /\ written \in [Addr -> Value]
    BY DEF LinkInv, TypeOK
  <2>4. QED
    BY <2>2, <2>3
<1>4. QED
  BY <1>1, <1>2, <1>3, LinkInvariant, PTL DEF Spec

-----------------------------------------------------------------------------
(***************************************************************************)
(* The loads of a read.                                                    *)
(***************************************************************************)

\* A request enters the FIFO, and leaves it.
LEMMA FifoJoined ==
  ASSUME LinkInv, IsFiniteSet(Places(Fifo, LoadOp)), NEW r \in Request, txq' = Append(txq, r)
  PROVE  /\ IsFiniteSet(Places(Fifo', LoadOp))
         /\ r.op = "load" =>
              Cardinality(Places(Fifo', LoadOp)) = Cardinality(Places(Fifo, LoadOp)) + 1
         /\ r.op # "load" =>
              Cardinality(Places(Fifo', LoadOp)) = Cardinality(Places(Fifo, LoadOp))
<1> DEFINE t == Joined(Fifo, "txq", r)
<1>1. "txq" \in DOMAIN Fifo /\ Fifo["txq"] \in Seq(Request)
  BY DEF Fifo, LinkInv, TypeOK
<1>2. Fifo' = t
  BY DEF Fifo, Joined
<1>3. r.op \in LoadOp <=> r.op = "load"
  BY DEF LoadOp
<1> HIDE DEF t
<1>4. IsFiniteSet(Places(t, LoadOp))
  BY <1>1, PlacesAppend DEF t
<1>5. r.op \in LoadOp => Cardinality(Places(t, LoadOp)) = Cardinality(Places(Fifo, LoadOp)) + 1
  BY <1>1, PlacesAppend DEF t
<1>6. r.op \notin LoadOp => Cardinality(Places(t, LoadOp)) = Cardinality(Places(Fifo, LoadOp))
  BY <1>1, PlacesAppend DEF t
<1>7. QED
  BY <1>2, <1>3, <1>4, <1>5, <1>6

LEMMA FifoLeft ==
  ASSUME LinkInv, IsFiniteSet(Places(Fifo, LoadOp)), txq # <<>>, txq' = Tail(txq),
         NEW r, r = Head(txq)
  PROVE  /\ IsFiniteSet(Places(Fifo', LoadOp))
         /\ r.op = "load" =>
              Cardinality(Places(Fifo', LoadOp)) = Cardinality(Places(Fifo, LoadOp)) - 1
         /\ r.op # "load" =>
              Cardinality(Places(Fifo', LoadOp)) = Cardinality(Places(Fifo, LoadOp))
<1> DEFINE t == Left(Fifo, "txq")
<1>1. "txq" \in DOMAIN Fifo /\ Fifo["txq"] \in Seq(Request) /\ Fifo["txq"] = txq
  BY DEF Fifo, LinkInv, TypeOK
<1>2. Fifo' = t
  BY DEF Fifo, Left
<1>3. r.op \in LoadOp <=> r.op = "load"
  BY DEF LoadOp
<1> HIDE DEF t
<1>4. IsFiniteSet(Places(t, LoadOp))
  BY <1>1, PlacesTail DEF t
<1>5. r.op \in LoadOp => Cardinality(Places(t, LoadOp)) = Cardinality(Places(Fifo, LoadOp)) - 1
  BY <1>1, PlacesTail DEF t
<1>6. r.op \notin LoadOp => Cardinality(Places(t, LoadOp)) = Cardinality(Places(Fifo, LoadOp))
  BY <1>1, PlacesTail DEF t
<1>7. QED
  BY <1>2, <1>3, <1>4, <1>5, <1>6

InFifo == Cardinality(Places(Fifo, LoadOp))
InNet  == Cardinality(Places(net, LoadOp))
Queued   == Len(txq)
Answered == Len(rsp)
Held     == Len(piso)

\* The numbers of these, named: the provers do arithmetic better on names than on lengths.
LEMMA Counts ==
  ASSUME LinkInv, LoadsInv
  PROVE  /\ InFifo \in Nat /\ InNet \in Nat /\ Answered \in Nat /\ Held \in Nat
         /\ Queued \in Nat /\ sent \in Nat /\ got \in Nat /\ htod \in Nat
         /\ Outstanding = InFifo + InNet + Answered + Held
         /\ Reading => InFifo + InNet + Answered + Held = sent - got
         /\ ~Reading => InFifo = 0 /\ InNet = 0 /\ Answered = 0 /\ Held = 0
         /\ htod >= Queued + InNet + Answered + Held
<1>1. InFifo \in Nat /\ InNet \in Nat
  BY FS_CardinalityType DEF LinkInv, LoadsInv, CreditInv, InFifo, InNet
<1>2. /\ Answered \in Nat /\ Held \in Nat /\ Queued \in Nat
      /\ sent \in Nat /\ got \in Nat /\ htod \in Nat
  BY DEF LinkInv, TypeOK, CallInv, Queued, Answered, Held
<1>3. Outstanding = InFifo + InNet + Answered + Held
  BY DEF Outstanding, InFifo, InNet, Queued, Answered, Held
<1>4. htod >= Queued + InNet + Answered + Held
  BY DEF LoadsInv, InNet, Queued, Answered, Held
<1>5. (Reading => Outstanding = sent - got) /\ (~Reading => Outstanding = 0)
  BY DEF LoadsInv
<1>6. QED
  BY <1>1, <1>2, <1>3, <1>4, <1>5

\* What has to be shown of a step, number by number.
LEMMA LoadsShown ==
  ASSUME IsFiniteSet(Places(Fifo, LoadOp))', result' # "FAIL",
         Reading' => \A k \in 2 .. Words' : call'.addrs[k] \in Addr,
         Reading' => InFifo' + InNet' + Answered' + Held' = sent' - got',
         ~Reading' => InFifo' + InNet' + Answered' + Held' = 0,
         htod' >= Queued' + InNet' + Answered' + Held'
  PROVE  LoadsInv'
BY DEF LoadsInv, Outstanding, InFifo, InNet, Queued, Answered, Held

\* Steps that leave the hardware alone.
LEMMA LoadsKept ==
  ASSUME LinkInv, LoadsInv, UNCHANGED link, result' # "FAIL", htod' = htod,
         Reading' => \A k \in 2 .. Words' : call'.addrs[k] \in Addr,
         Reading' => Outstanding = sent' - got',
         ~Reading' => Outstanding = 0
  PROVE  LoadsInv'
<1>1. InFifo' = InFifo /\ InNet' = InNet /\ UNCHANGED <<rsp, piso, txq, net>> /\ Fifo' = Fifo
      /\ Queued' = Queued /\ Answered' = Answered /\ Held' = Held
  BY DEF link, InFifo, InNet, Fifo, Queued, Answered, Held
<1>2. IsFiniteSet(Places(Fifo', LoadOp))
  BY <1>1 DEF LoadsInv
<1>3. QED
  BY <1>1, <1>2, Counts, LoadsShown

LEMMA LoadsOfHost ==
  ASSUME LinkInv, LoadsInv,
         HaveCapacity \/ Refuse \/ EnterFence \/ FenceTest \/ FencePoll \/ EndRequests \/ EndResponses
  PROVE  LoadsInv'
<1>1. /\ UNCHANGED <<link, htod, call, sent, got>> /\ Words' = Words
      /\ result' # "FAIL"
  BY DEF HaveCapacity, Refuse, EnterFence, FenceTest, FencePoll, EndRequests, EndResponses, local,
         Return, Words, LoadsInv
<1>2. CASE Reading' <=> Reading
  BY <1>1, <1>2, LoadsKept DEF LoadsInv
<1>3. CASE ~(Reading' <=> Reading)
  <2>1. Reading /\ ~Reading' /\ (Refuse \/ EndResponses)
    BY <1>3 DEF Reading, HaveCapacity, Refuse, EnterFence, FenceTest, FencePoll, FenceReads,
                EndRequests, EndResponses, Return
  <2>2. sent \in Nat /\ got \in 0 .. sent /\ Words \in Nat
    BY DEF LinkInv, TypeOK, CallInv
  <2>3. sent = got
    <3>1. CASE EndResponses
      BY <3>1 DEF EndResponses
    <3>2. CASE Refuse
      <4>1. sent < Words /\ call.addrs[sent + 1] \notin Addr
        BY <3>2 DEF Refuse, NextWord
      <4>2. sent + 1 \notin 2 .. Words
        BY <2>1, <4>1 DEF LoadsInv
      <4>3. sent = 0
        BY <2>2, <4>1, <4>2
      <4>4. QED
        BY <2>2, <4>3
    <3>3. QED
      BY <2>1, <3>1, <3>2
  <2>4. Outstanding = 0
    BY <2>1, <2>2, <2>3 DEF LoadsInv
  <2>5. QED
    BY <1>1, <2>1, <2>4, LoadsKept
<1>4. QED
  BY <1>2, <1>3

LEMMA LoadsOfCall ==
  ASSUME WholeReads, LinkInv, LoadsInv, NEW c \in Calls, Call(c)
  PROVE  LoadsInv'
<1>1. /\ pc = "idle" /\ call' = c /\ result' = "none" /\ sent' = 0 /\ got' = 0
      /\ UNCHANGED <<link, htod>> /\ Words' = Len(c.addrs)
  BY DEF Call, Words
<1>2. Outstanding = 0 /\ 0 = 0 - 0
  BY <1>1 DEF LoadsInv, Reading
<1>3. c.kind \in Kinds /\ (c.kind = "read" => Len(c.addrs) = 1)
  BY CallsAssumption
<1>4. Reading' => c.kind \in {"read_mem", "read"}
  BY <1>3 DEF Reading, Call, Kinds
<1>5. Reading' => \A k \in 2 .. Words' : call'.addrs[k] \in Addr
  BY <1>1, <1>3, <1>4 DEF WholeReads
<1>6. QED
  BY <1>1, <1>2, <1>5, LoadsKept

LEMMA LoadsOfPoll ==
  ASSUME LinkInv, LoadsInv, UpdateRequests
  PROVE  LoadsInv'
<1>1. /\ ~Reading /\ ~Reading' /\ htod' = Queued /\ UNCHANGED <<link, result>>
  BY DEF UpdateRequests, Poll, Reading, Queued
<1>2. InFifo' = InFifo /\ InNet' = InNet /\ UNCHANGED <<rsp, piso, txq, net>> /\ Fifo' = Fifo
      /\ Queued' = Queued /\ Answered' = Answered /\ Held' = Held
  BY <1>1 DEF link, InFifo, InNet, Fifo, Queued, Answered, Held
<1>3. IsFiniteSet(Places(Fifo', LoadOp)) /\ result' # "FAIL"
  BY <1>1, <1>2 DEF LoadsInv
<1>4. QED
  BY <1>1, <1>2, <1>3, Counts, LoadsShown

LEMMA LoadsOfStore ==
  ASSUME LinkInv, LoadsInv, Store
  PROVE  LoadsInv'
<1> DEFINE r == [op |-> "store", addr |-> NextWord, arg |-> calls]
<1>1. /\ pc = "store" /\ pc' \in {"update", "idle"} /\ result' \in {result, "SUCCESS"}
      /\ NextWord \in Addr /\ txq' = Append(txq, r) /\ UNCHANGED <<net, rsp, piso>>
  BY DEF Store, Transmit, Return
<1>2. htod' >= htod + 1
  BY DEF Store, CountStore, LinkInv, TypeOK
<1>3. r \in Request /\ r.op # "load"
  BY <1>1 DEF LinkInv, TypeOK, Request, Value
<1>4. IsFiniteSet(Places(Fifo', LoadOp)) /\ InFifo' = InFifo /\ InNet' = InNet
  BY <1>1, <1>3, FifoJoined DEF LoadsInv, InFifo, InNet
<1>5. Queued' = Queued + 1 /\ Answered' = Answered /\ Held' = Held
  BY <1>1, <1>3, Appended DEF LinkInv, TypeOK, Queued, Answered, Held
<1>6. result' # "FAIL" /\ ~Reading /\ ~Reading'
  BY <1>1 DEF LoadsInv, Reading
<1>7. InFifo' + InNet' + Answered' + Held' = 0
  BY <1>4, <1>5, <1>6, Counts
<1>8. htod' >= Queued' + InNet' + Answered' + Held'
  <2>1. htod' \in Int
    BY DEF Store, CountStore, LinkInv, TypeOK
  <2>2. QED
    BY <2>1, <1>2, <1>4, <1>5, Counts
<1>9. QED
  BY <1>4, <1>6, <1>7, <1>8, LoadsShown

LEMMA RequestLoadEffect ==
  ASSUME LinkInv, RequestLoad, NEW r, r = [op |-> "load", addr |-> NextWord, arg |-> Head(ids)]
  PROVE  /\ pc = "request" /\ NextWord \in Addr /\ sent < Words /\ sent' = sent + 1 /\ htod' = htod + 1
         /\ ids # <<>> /\ Head(ids) \in Id /\ ids' = Tail(ids) /\ ids \in Seq(Id)
         /\ slot' = [slot EXCEPT ![Head(ids)] = sent + 1]
         /\ r \in Request /\ txq \in Seq(Request) /\ txq' = Append(txq, r)
         /\ UNCHANGED <<pc, call, calls, got, data, result, net, rsp, piso, mem, written>>
         /\ Words' = Words
<1>1. Words' = Words /\ ids \in Seq(Id) /\ txq \in Seq(Request)
  BY DEF RequestLoad, Words, LinkInv, TypeOK
<1>2. ids # <<>> /\ Head(ids) \in Id /\ NextWord \in Addr
  BY <1>1, Shifted DEF RequestLoad
<1>3. r \in Request
  BY <1>2 DEF Request
<1>4. QED
  BY <1>1, <1>2, <1>3 DEF RequestLoad, Transmit, TakeId, CountLoad

LEMMA LoadsOfLoad ==
  ASSUME LinkInv, LoadsInv, RequestLoad
  PROVE  LoadsInv'
<1> DEFINE r == [op |-> "load", addr |-> NextWord, arg |-> Head(ids)]
<1>1. /\ Reading /\ Reading' /\ sent' = sent + 1 /\ htod' = htod + 1
      /\ r \in Request /\ txq \in Seq(Request) /\ txq' = Append(txq, r)
      /\ UNCHANGED <<call, got, result, net, rsp, piso>> /\ Words' = Words
  BY RequestLoadEffect DEF Reading
<1>2. r.op = "load"
  OBVIOUS
<1>3. IsFiniteSet(Places(Fifo', LoadOp)) /\ InFifo' = InFifo + 1 /\ InNet' = InNet
  BY <1>1, <1>2, FifoJoined DEF LoadsInv, InFifo, InNet
<1>4. Queued' = Queued + 1
  BY <1>1, Appended DEF Queued, Answered, Held
<1> HIDE DEF r
<1>5. result' # "FAIL" /\ \A k \in 2 .. Words' : call'.addrs[k] \in Addr
  BY <1>1 DEF LoadsInv
<1>6. Answered' = Answered /\ Held' = Held /\ sent' = sent + 1 /\ got' = got /\ htod' = htod + 1
  BY <1>1 DEF Queued, Answered, Held
<1>7. InFifo + InNet + Answered + Held = sent - got
  BY <1>1, Counts
<1>8. InFifo' = InFifo + 1 /\ InNet' = InNet
  BY <1>3
<1>9. InFifo' + InNet' + Answered' + Held' = sent' - got'
  BY <1>6, <1>7, <1>8, Counts
<1>10. htod' >= Queued' + InNet' + Answered' + Held'
  BY <1>4, <1>6, <1>8, Counts
<1>11. QED
  BY <1>1, <1>3, <1>5, <1>9, <1>10, LoadsShown

LEMMA OneAnswer ==
  ASSUME LinkInv, piso # <<>>
  PROVE  Len(piso) = 1
<1>1. piso \in Seq(Response) /\ Len(piso) <= 1
  BY DEF LinkInv, TypeOK
<1>2. Held \in Nat \ {0}
  BY <1>1, Shifted DEF Queued, Answered, Held
<1>3. Held <= 1
  BY <1>1 DEF Queued, Answered, Held
<1>4. Held = 1
  BY <1>2, <1>3
<1>5. QED
  BY <1>4 DEF Held

\* decr_host_requests never finds a count of zero.
LEMMA ReceiveEffect ==
  ASSUME LinkInv, LoadsInv, ReceiveResponse, NEW r, r = Head(piso)
  PROVE  /\ r \in Response /\ piso # <<>> /\ Len(piso) = 1 /\ r = piso[1]
         /\ piso' = <<>> /\ got < sent /\ pc = "response"
         /\ htod # 0 /\ htod' = htod - 1 /\ got' = got + 1 /\ ids' = <<r.id>> \o ids
         /\ Deliver(r)
         /\ UNCHANGED <<pc, call, calls, sent, slot, result, txq, net, rsp, mem, written>>
         /\ Words' = Words
<1>1. piso # <<>> /\ piso \in Seq(Response) /\ Len(piso) <= 1
  BY DEF ReceiveResponse, LinkInv, TypeOK
<1>2. r \in Response /\ r = piso[1]
  BY <1>1, Shifted
<1>3. Len(piso) = 1
  BY <1>1, OneAnswer
<1>4. htod # 0
  BY <1>3, Counts DEF Queued, Answered, Held
<1>5. QED
  BY <1>1, <1>2, <1>3, <1>4 DEF ReceiveResponse, Words

LEMMA LoadsOfReceive ==
  ASSUME LinkInv, LoadsInv, ReceiveResponse
  PROVE  LoadsInv'
<1>1. /\ Reading /\ Reading' /\ Len(piso) = 1 /\ Len(piso') = 0
      /\ htod' = htod - 1 /\ got' = got + 1
      /\ UNCHANGED <<call, sent, result, txq, net, rsp>> /\ Words' = Words
  <2>1. PICK r : r = Head(piso)
    OBVIOUS
  <2>2. /\ pc = "response" /\ Len(piso) = 1 /\ piso' = <<>> /\ htod' = htod - 1 /\ got' = got + 1
        /\ UNCHANGED <<pc, call, sent, result, txq, net, rsp>> /\ Words' = Words
    BY <2>1, ReceiveEffect
  <2>3. QED
    BY <2>2 DEF Reading
<1>2. InFifo' = InFifo /\ InNet' = InNet /\ Fifo' = Fifo
  BY <1>1 DEF InFifo, InNet, Fifo
<1>3. /\ IsFiniteSet(Places(Fifo', LoadOp)) /\ result' # "FAIL"
      /\ \A k \in 2 .. Words' : call'.addrs[k] \in Addr
  BY <1>1, <1>2 DEF LoadsInv
<1>4. /\ Answered' = Answered /\ Queued' = Queued /\ Held = 1 /\ Held' = 0
      /\ sent' = sent /\ got' = got + 1 /\ htod' = htod - 1
  BY <1>1 DEF Queued, Answered, Held
<1>5. InFifo + InNet + Answered + Held = sent - got
  BY <1>1, Counts
<1>6. InFifo' + InNet' + Answered' + Held' = sent' - got'
  BY <1>2, <1>4, <1>5, Counts
<1>7. htod' >= Queued' + InNet' + Answered' + Held'
  BY <1>2, <1>4, Counts
<1>8. QED
  BY <1>1, <1>3, <1>6, <1>7, LoadsShown

LEMMA LoadsOfLink ==
  ASSUME LinkInv, LoadsInv, LinkStep
  PROVE  LoadsInv'
<1>1. UNCHANGED <<htod, call, sent, got, result>> /\ Words' = Words /\ (Reading' <=> Reading)
  BY DEF LinkStep, Depart, Serve, Serialize, local, Words, Reading
<1>2. result' # "FAIL" /\ (Reading' => \A k \in 2 .. Words' : call'.addrs[k] \in Addr)
  BY <1>1 DEF LoadsInv
<1>3. SUFFICES /\ IsFiniteSet(Places(Fifo', LoadOp))
               /\ InFifo' + InNet' + Answered' + Held' = InFifo + InNet + Answered + Held
               /\ Queued' + InNet' + Answered' + Held'
                    <= Queued + InNet + Answered + Held
  <2>1. Queued' \in Int /\ InNet' \in Int /\ Answered' \in Int /\ Held' \in Int
    <3>1. LinkInv'
      BY LinkInvStep DEF Next
    <3>2. InNet' \in Nat
      BY <3>1, FS_CardinalityType DEF LinkInv, CreditInv, InNet
    <3>3. QED
      BY <3>1, <3>2 DEF LinkInv, TypeOK, Queued, Answered, Held
  <2>2. htod' = htod /\ sent' = sent /\ got' = got
    BY <1>1
  <2>3. Queued' + InNet' + Answered' + Held' <= Queued + InNet + Answered + Held
    BY <1>3
  <2>4. htod' >= Queued' + InNet' + Answered' + Held'
    BY <2>1, <2>2, <2>3, Counts
  <2>5. QED
    BY <1>1, <1>2, <1>3, <2>2, <2>4, Counts, LoadsShown
<1>4. CASE Depart
  <2> DEFINE r == Head(txq)
  <2>1. /\ r \in Request /\ Home[r.addr] \in Dest /\ txq # <<>> /\ txq' = Tail(txq)
        /\ net' = [net EXCEPT ![Home[r.addr]] = Append(@, r)] /\ UNCHANGED <<rsp, piso>>
    BY <1>4, DepartEffect
  <2>2. Queued' = Queued - 1
    BY <2>1, Shifted DEF LinkInv, TypeOK, Queued, Answered, Held
  <2>3. /\ IsFiniteSet(Places(Fifo', LoadOp))
        /\ r.op = "load" => InFifo' = InFifo - 1
        /\ r.op # "load" => InFifo' = InFifo
    BY <2>1, FifoLeft DEF LoadsInv, InFifo
  <2> HIDE DEF r
  <2>4. /\ r.op = "load" => InNet' = InNet + 1
        /\ r.op # "load" => InNet' = InNet
    BY <2>1, NetJoined DEF InNet
  <2>5. Answered' = Answered /\ Held' = Held
    BY <2>1 DEF Queued, Answered, Held
  <2>6. /\ r.op = "load" => InFifo' = InFifo - 1
        /\ r.op # "load" => InFifo' = InFifo
    BY <2>3
  <2>7. /\ InFifo' + InNet' = InFifo + InNet
        /\ InNet' <= InNet + 1 /\ InNet' \in Int /\ InFifo' \in Int
    BY <2>4, <2>6, Counts
  <2>8. IsFiniteSet(Places(Fifo', LoadOp))
    BY <2>3
  <2>9. /\ InFifo' + InNet' + Answered' + Held' = InFifo + InNet + Answered + Held
        /\ Queued' + InNet' + Answered' + Held' <= Queued + InNet + Answered + Held
    BY <2>2, <2>5, <2>7, Counts
  <2>10. QED
    BY <2>8, <2>9
<1>5. ASSUME NEW d \in Dest, Serve(d)
      PROVE  /\ IsFiniteSet(Places(Fifo', LoadOp))
             /\ InFifo' + InNet' + Answered' + Held' = InFifo + InNet + Answered + Held
             /\ Queued' + InNet' + Answered' + Held'
                  <= Queued + InNet + Answered + Held
  <2> DEFINE r == Head(net[d])
             answer == [id |-> r.arg, data |-> mem[r.addr]]
  <2>1. /\ r \in Request /\ net[d] # <<>> /\ net' = [net EXCEPT ![d] = Tail(@)]
        /\ r.op = "store" => rsp' = rsp
        /\ r.op = "load" => rsp' = Append(rsp, answer)
        /\ UNCHANGED <<txq, piso>>
    BY <1>5, ServeEffect
  <2>2. r.op \in AnyOp /\ (r.op = "load" => answer \in Response)
    BY <2>1, RequestOps DEF Response, LinkInv, TypeOK
  <2>3. /\ r.op = "load" => InNet' = InNet - 1
        /\ r.op # "load" => InNet' = InNet
    BY <2>1, NetLeft DEF InNet
  <2>4. r.op = "load" => Answered' = Answered + 1
    BY <2>1, <2>2, Appended DEF LinkInv, TypeOK, Queued, Answered, Held
  <2>5. Fifo' = Fifo /\ InFifo' = InFifo /\ IsFiniteSet(Places(Fifo', LoadOp))
    BY <2>1 DEF Fifo, InFifo, LoadsInv
  <2> HIDE DEF r, answer
  <2>6. Queued' = Queued /\ Held' = Held /\ (r.op = "store" => Answered' = Answered)
    BY <2>1 DEF Queued, Answered, Held
  <2>7. r.op = "load" \/ (r.op = "store" /\ r.op # "load")
    BY <2>2 DEF AnyOp
  <2>8. InNet' + Answered' = InNet + Answered /\ InNet' \in Int /\ Answered' \in Int
    BY <2>3, <2>4, <2>6, <2>7, Counts
  <2>9. InFifo' = InFifo
    BY <2>5
  <2>10. /\ InFifo' + InNet' + Answered' + Held' = InFifo + InNet + Answered + Held
         /\ Queued' + InNet' + Answered' + Held' <= Queued + InNet + Answered + Held
    BY <2>6, <2>8, <2>9, Counts
  <2>11. QED
    BY <2>5, <2>10
<1>6. CASE Serialize
  <2>1. /\ piso = <<>> /\ rsp # <<>> /\ piso' = <<Head(rsp)>> /\ rsp' = Tail(rsp)
        /\ UNCHANGED <<txq, net>>
    BY <1>6 DEF Serialize
  <2>2. Held = 0 /\ Held' = 1 /\ Answered' = Answered - 1
    BY <2>1, Shifted DEF LinkInv, TypeOK, Queued, Answered, Held
  <2>3. Fifo' = Fifo /\ InFifo' = InFifo /\ InNet' = InNet /\ IsFiniteSet(Places(Fifo', LoadOp))
    BY <2>1 DEF Fifo, InFifo, InNet, LoadsInv
  <2>4. Queued' = Queued
    BY <2>1 DEF Queued, Answered, Held
  <2>5. QED
    BY <2>2, <2>3, <2>4, Counts
<1>7. QED
  BY <1>4, <1>5, <1>6 DEF LinkStep

LEMMA LoadsStep == WholeReads /\ LinkInv /\ LoadsInv /\ [Next]_vars => LoadsInv'
<1> SUFFICES ASSUME WholeReads, LinkInv, LoadsInv, [Next]_vars PROVE LoadsInv'
  OBVIOUS
<1>1. CASE UNCHANGED vars
  <2>1. UNCHANGED <<link, htod, result, call, sent, got, pc>> /\ Words' = Words
    BY <1>1 DEF vars, local, Words
  <2>2. QED
    BY <2>1, LoadsKept DEF LoadsInv, Reading
<1>2. QED
  BY <1>1, LoadsOfCall, LoadsOfPoll, LoadsOfHost, LoadsOfStore, LoadsOfLoad, LoadsOfReceive,
     LoadsOfLink DEF Next, HostStep

LEMMA InitLoads == Init => LoadsInv
<1> SUFFICES ASSUME Init PROVE LoadsInv
  OBVIOUS
<1>1. /\ txq = <<>> /\ (\A d \in Dest : net[d] = <<>>) /\ DOMAIN net = Dest
      /\ rsp = <<>> /\ piso = <<>> /\ htod = 0 /\ pc = "idle" /\ result = "none"
  BY DEF Init
<1>2. \A d \in Dest : Len(net[d]) = 0
  BY <1>1
<1>3. Places(net, LoadOp) = {} /\ Places(Fifo, LoadOp) = {}
  BY <1>1, <1>2 DEF Places, Fifo
<1>4. /\ InFifo = 0 /\ InNet = 0 /\ Queued = 0 /\ Answered = 0 /\ Held = 0
      /\ IsFiniteSet(Places(Fifo, LoadOp))
  BY <1>1, <1>3, FS_EmptySet DEF InFifo, InNet, Queued, Answered, Held
<1>5. InFifo + InNet + Answered + Held = 0 /\ htod >= Queued + InNet + Answered + Held
  BY <1>1, <1>4
<1>6. Outstanding = InFifo + InNet + Answered + Held
  BY DEF Outstanding, InFifo, InNet, Answered, Held
<1>7. htod >= Len(txq) + Cardinality(Places(net, LoadOp)) + Len(rsp) + Len(piso)
  BY <1>5 DEF InNet, Queued, Answered, Held
<1>8. QED
  BY <1>1, <1>4, <1>5, <1>6, <1>7 DEF LoadsInv, Reading

LEMMA LoadsInvariant == WholeReads => (Spec => []LoadsInv)
<1> SUFFICES ASSUME WholeReads PROVE Spec => []LoadsInv
  OBVIOUS
<1>1. LinkInv /\ LoadsInv /\ [Next]_vars => LoadsInv'
  BY LoadsStep
<1>2. QED
  BY <1>1, InitLoads, LinkInvariant, PTL DEF Spec

\* No read ends because its count of outstanding requests is zero when a response arrives: the
\* count covers the FIFO and every load under way, though update_requests replaces it by the
\* FIFO's length alone.
THEOREM NoUnderflow == WholeReads => (Spec => []NeverUnderflows)
<1> SUFFICES ASSUME WholeReads PROVE Spec => []NeverUnderflows
  OBVIOUS
<1>1. LoadsInv => NeverUnderflows
  BY DEF LoadsInv, NeverUnderflows
<1>2. QED
  BY <1>1, LoadsInvariant, PTL

\* The room seen in the cached count is still there at the store.
RoomInv == pc = "store" /\ call.kind = "write_mem" => htod < HostCredits

LEMMA RoomStep == LinkInv /\ RoomInv /\ [Next]_vars => RoomInv'
<1> SUFFICES ASSUME LinkInv, RoomInv, [Next]_vars, pc' = "store", call'.kind = "write_mem"
             PROVE  htod' < HostCredits
  BY DEF RoomInv
<1>1. CASE HaveCapacity
  BY <1>1 DEF HaveCapacity
<1>2. CASE LinkStep \/ UNCHANGED vars
  BY <1>2 DEF LinkStep, Depart, Serve, Serialize, RoomInv, vars, local
<1>3. ASSUME NEW c \in Calls, Call(c) PROVE FALSE
  BY <1>3, CallsAssumption DEF Call, Kinds
<1>4. ~(UpdateRequests \/ Store \/ Refuse \/ EnterFence \/ FenceTest \/ FencePoll
        \/ RequestLoad \/ EndRequests \/ ReceiveResponse \/ EndResponses)
  BY DEF UpdateRequests, Store, Refuse, EnterFence, FenceTest, FencePoll, FenceReads, RequestLoad,
         EndRequests, ReceiveResponse, EndResponses, Return
<1>5. QED
  BY <1>1, <1>2, <1>3, <1>4 DEF Next, HostStep

\* write_mem and memset never stall the bus, whatever loads and stores earlier calls have left in
\* the FIFO: the stale count they test is never below the FIFO's length.
THEOREM StoresFindRoom == WholeReads => (Spec => []StoreHasRoom)
<1> SUFFICES ASSUME WholeReads PROVE Spec => []StoreHasRoom
  OBVIOUS
<1>1. Init => RoomInv
  BY DEF Init, RoomInv
<1>2. LinkInv /\ RoomInv /\ [Next]_vars => RoomInv'
  BY RoomStep
<1>3. LinkInv /\ LoadsInv /\ RoomInv => StoreHasRoom
  <2> SUFFICES ASSUME LinkInv, LoadsInv, RoomInv, pc = "store", call.kind = "write_mem"
               PROVE  Len(txq) < HostCredits
    BY DEF StoreHasRoom
  <2>1. htod < HostCredits /\ HostCredits \in Nat
    BY LinkAssumption DEF RoomInv
  <2>2. Queued < HostCredits
    BY <2>1, Counts
  <2>3. QED
    BY <2>2 DEF Queued
<1>4. QED
  BY <1>1, <1>2, <1>3, LinkInvariant, LoadsInvariant, PTL DEF Spec

-----------------------------------------------------------------------------
(***************************************************************************)
(* The ids under way, queue by queue.                                      *)
(***************************************************************************)

LoadIn(q, id)   == \E k \in 1 .. Len(q) : q[k].op = "load" /\ q[k].arg = id
AnswerIn(q, id) == \E k \in 1 .. Len(q) : q[k].id = id

LEMMA FlightParts ==
  ASSUME NEW id
  PROVE  InFlight(id) <=> \/ LoadIn(txq, id) \/ (\E d \in Dest : LoadIn(net[d], id))
                          \/ AnswerIn(rsp, id) \/ AnswerIn(piso, id)
BY DEF InFlight, LoadIn, AnswerIn

LEMMA LoadInAppend ==
  ASSUME NEW s \in Seq(Request), NEW r \in Request, NEW id
  PROVE  LoadIn(Append(s, r), id) <=> LoadIn(s, id) \/ (r.op = "load" /\ r.arg = id)
<1>1. /\ Len(s) \in Nat /\ Len(Append(s, r)) = Len(s) + 1
      /\ \A k \in 1 .. Len(s) : Append(s, r)[k] = s[k]
      /\ Append(s, r)[Len(s) + 1] = r
  BY Appended
<1> DEFINE n == Len(s)
           t == Append(s, r)
<1>2. /\ n \in Nat /\ Len(t) = n + 1
      /\ \A k \in 1 .. n : t[k] = s[k]
      /\ t[n + 1] = r
  BY <1>1
<1>3. (LoadIn(s, id) <=> \E k \in 1 .. n : s[k].op = "load" /\ s[k].arg = id)
      /\ (LoadIn(t, id) <=> \E k \in 1 .. n + 1 : t[k].op = "load" /\ t[k].arg = id)
  BY <1>2 DEF LoadIn
<1> HIDE DEF n, t
<1>4. 1 .. n + 1 = (1 .. n) \cup {n + 1}
  BY <1>2
<1>5. QED
  BY <1>2, <1>3, <1>4 DEF t

LEMMA LoadInTail ==
  ASSUME NEW s \in Seq(Request), s # <<>>, NEW id
  PROVE  LoadIn(s, id) <=> LoadIn(Tail(s), id) \/ (Head(s).op = "load" /\ Head(s).arg = id)
<1> DEFINE n == Len(s)
           t == Tail(s)
<1>1. /\ n \in Nat \ {0} /\ Len(t) = n - 1 /\ Head(s) = s[1]
      /\ \A k \in 1 .. n - 1 : t[k] = s[k + 1]
  BY Shifted
<1>2. (LoadIn(s, id) <=> \E k \in 1 .. n : s[k].op = "load" /\ s[k].arg = id)
      /\ (LoadIn(t, id) <=> \E k \in 1 .. n - 1 : t[k].op = "load" /\ t[k].arg = id)
  BY <1>1 DEF LoadIn
<1> HIDE DEF n, t
<1>3. \A k \in 1 .. n : k = 1 \/ (k - 1 \in 1 .. n - 1 /\ t[k - 1] = s[k])
  BY <1>1
<1>4. 1 \in 1 .. n /\ \A k \in 1 .. n - 1 : k + 1 \in 1 .. n /\ t[k] = s[k + 1]
  BY <1>1
<1>5. ASSUME LoadIn(s, id) PROVE LoadIn(t, id) \/ (s[1].op = "load" /\ s[1].arg = id)
  BY <1>2, <1>3, <1>5
<1>6. ASSUME LoadIn(t, id) \/ (s[1].op = "load" /\ s[1].arg = id) PROVE LoadIn(s, id)
  BY <1>2, <1>4, <1>6
<1>7. QED
  BY <1>1, <1>5, <1>6 DEF t

LEMMA AnswerInAppend ==
  ASSUME NEW s \in Seq(Response), NEW r \in Response, NEW id
  PROVE  AnswerIn(Append(s, r), id) <=> AnswerIn(s, id) \/ r.id = id
<1> DEFINE n == Len(s)
           t == Append(s, r)
<1>1. /\ n \in Nat /\ Len(t) = n + 1
      /\ \A k \in 1 .. n : t[k] = s[k]
      /\ t[n + 1] = r
  BY Appended
<1>2. (AnswerIn(s, id) <=> \E k \in 1 .. n : s[k].id = id)
      /\ (AnswerIn(t, id) <=> \E k \in 1 .. n + 1 : t[k].id = id)
  BY <1>1 DEF AnswerIn
<1> HIDE DEF n, t
<1>3. 1 .. n + 1 = (1 .. n) \cup {n + 1}
  BY <1>1
<1>4. QED
  BY <1>1, <1>2, <1>3 DEF t

LEMMA AnswerInTail ==
  ASSUME NEW s \in Seq(Response), s # <<>>, NEW id
  PROVE  AnswerIn(s, id) <=> AnswerIn(Tail(s), id) \/ Head(s).id = id
<1> DEFINE n == Len(s)
           t == Tail(s)
<1>1. /\ n \in Nat \ {0} /\ Len(t) = n - 1 /\ Head(s) = s[1]
      /\ \A k \in 1 .. n - 1 : t[k] = s[k + 1]
  BY Shifted
<1>2. (AnswerIn(s, id) <=> \E k \in 1 .. n : s[k].id = id)
      /\ (AnswerIn(t, id) <=> \E k \in 1 .. n - 1 : t[k].id = id)
  BY <1>1 DEF AnswerIn
<1> HIDE DEF n, t
<1>3. \A k \in 1 .. n : k = 1 \/ (k - 1 \in 1 .. n - 1 /\ t[k - 1] = s[k])
  BY <1>1
<1>4. 1 \in 1 .. n /\ \A k \in 1 .. n - 1 : k + 1 \in 1 .. n /\ t[k] = s[k + 1]
  BY <1>1
<1>5. ASSUME AnswerIn(s, id) PROVE AnswerIn(t, id) \/ s[1].id = id
  BY <1>2, <1>3, <1>5
<1>6. ASSUME AnswerIn(t, id) \/ s[1].id = id PROVE AnswerIn(s, id)
  BY <1>2, <1>4, <1>6
<1>7. QED
  BY <1>1, <1>5, <1>6 DEF t

LEMMA FlightKept ==
  ASSUME UNCHANGED link, NEW id
  PROVE  InFlight(id)' <=> InFlight(id)
BY DEF InFlight, link

LEMMA FlightOfLoad ==
  ASSUME LinkInv, RequestLoad, NEW id
  PROVE  InFlight(id)' <=> InFlight(id) \/ id = Head(ids)
<1> DEFINE r == [op |-> "load", addr |-> NextWord, arg |-> Head(ids)]
<1>1. /\ r \in Request /\ txq \in Seq(Request) /\ txq' = Append(txq, r)
      /\ UNCHANGED <<net, rsp, piso>>
  BY RequestLoadEffect
<1>2. r.op = "load" /\ r.arg = Head(ids)
  OBVIOUS
<1> HIDE DEF r
<1>3. LoadIn(txq', id) <=> LoadIn(txq, id) \/ id = Head(ids)
  BY <1>1, <1>2, LoadInAppend
<1>4. QED
  BY <1>1, <1>3 DEF InFlight, LoadIn

\* On its way through the hardware a load keeps its id.
LEMMA FlightOfLink ==
  ASSUME LinkInv, LinkStep, NEW id
  PROVE  InFlight(id)' <=> InFlight(id)
<1>1. CASE Depart
  <2> DEFINE r == Head(txq)
             e == Home[r.addr]
  <2>1. /\ r \in Request /\ e \in Dest /\ txq # <<>> /\ txq' = Tail(txq)
        /\ net' = [net EXCEPT ![e] = Append(@, r)] /\ UNCHANGED <<rsp, piso>>
    BY <1>1, DepartEffect
  <2>2. txq \in Seq(Request) /\ net \in [Dest -> Seq(Request)]
    BY DEF LinkInv, TypeOK
  <2>3. LoadIn(txq, id) <=> LoadIn(txq', id) \/ (r.op = "load" /\ r.arg = id)
    BY <2>1, <2>2, LoadInTail
  <2> HIDE DEF r, e
  <2>4. LoadIn(net'[e], id) <=> LoadIn(net[e], id) \/ (r.op = "load" /\ r.arg = id)
    <3>1. net'[e] = Append(net[e], r) /\ net[e] \in Seq(Request)
      BY <2>1, <2>2
    <3>2. QED
      BY <2>1, <3>1, LoadInAppend
  <2>5. \A d \in Dest : d # e => net'[d] = net[d]
    BY <2>1, <2>2
  <2>6. /\ (\E d \in Dest : LoadIn(net'[d], id)) <=>
             LoadIn(net'[e], id) \/ \E d \in Dest : d # e /\ LoadIn(net[d], id)
        /\ (\E d \in Dest : LoadIn(net[d], id)) <=>
             LoadIn(net[e], id) \/ \E d \in Dest : d # e /\ LoadIn(net[d], id)
    BY <2>1, <2>5
  <2>7. QED
    BY <2>1, <2>3, <2>4, <2>6, FlightParts DEF InFlight, LoadIn, AnswerIn
<1>2. ASSUME NEW e \in Dest, Serve(e) PROVE InFlight(id)' <=> InFlight(id)
  <2> DEFINE r == Head(net[e])
             answer == [id |-> r.arg, data |-> mem[r.addr]]
  <2>1. /\ r \in Request /\ net[e] # <<>> /\ net' = [net EXCEPT ![e] = Tail(@)]
        /\ r.op = "store" => rsp' = rsp
        /\ r.op = "load" => rsp' = Append(rsp, answer)
        /\ UNCHANGED <<txq, piso>>
    BY <1>2, ServeEffect
  <2>2. /\ net \in [Dest -> Seq(Request)] /\ rsp \in Seq(Response)
        /\ r.op \in AnyOp /\ (r.op = "load" => answer \in Response)
    BY <2>1, RequestOps DEF Response, LinkInv, TypeOK
  <2>3. LoadIn(net[e], id) <=> LoadIn(net'[e], id) \/ (r.op = "load" /\ r.arg = id)
    <3>1. net'[e] = Tail(net[e]) /\ net[e] \in Seq(Request)
      BY <2>1, <2>2
    <3>2. QED
      BY <2>1, <3>1, LoadInTail
  <2>4. answer.id = r.arg
    OBVIOUS
  <2> HIDE DEF r, answer
  <2>5. AnswerIn(rsp', id) <=> AnswerIn(rsp, id) \/ (r.op = "load" /\ r.arg = id)
    <3>1. CASE r.op = "load"
      BY <2>1, <2>2, <2>4, <3>1, AnswerInAppend, ZenonT(30)
    <3>2. CASE r.op = "store"
      BY <2>1, <3>2
    <3>3. QED
      BY <2>2, <3>1, <3>2 DEF AnyOp
  <2>6. \A d \in Dest : d # e => net'[d] = net[d]
    BY <2>1, <2>2
  <2>7. /\ (\E d \in Dest : LoadIn(net'[d], id)) <=>
             LoadIn(net'[e], id) \/ \E d \in Dest : d # e /\ LoadIn(net[d], id)
        /\ (\E d \in Dest : LoadIn(net[d], id)) <=>
             LoadIn(net[e], id) \/ \E d \in Dest : d # e /\ LoadIn(net[d], id)
    BY <2>1, <2>6
  <2>8. QED
    BY <2>1, <2>3, <2>5, <2>7, FlightParts DEF InFlight, LoadIn, AnswerIn
<1>3. CASE Serialize
  <2>1. /\ piso = <<>> /\ rsp # <<>> /\ piso' = <<Head(rsp)>> /\ rsp' = Tail(rsp)
        /\ UNCHANGED <<txq, net>> /\ rsp \in Seq(Response)
    BY <1>3 DEF Serialize, LinkInv, TypeOK
  <2>2. AnswerIn(rsp, id) <=> AnswerIn(rsp', id) \/ Head(rsp).id = id
    BY <2>1, AnswerInTail
  <2>3. AnswerIn(piso', id) <=> Head(rsp).id = id
    BY <2>1 DEF AnswerIn
  <2>4. ~AnswerIn(piso, id)
    BY <2>1 DEF AnswerIn
  <2>5. QED
    BY <2>1, <2>2, <2>3, <2>4, FlightParts DEF InFlight, LoadIn, AnswerIn
<1>4. QED
  BY <1>1, <1>2, <1>3 DEF LinkStep

LEMMA FlightOfReceive ==
  ASSUME LinkInv, LoadsInv, ReceiveResponse, NEW r, r = Head(piso), NEW id
  PROVE  /\ InFlight(r.id)
         /\ InFlight(id) <=> InFlight(id)' \/ id = r.id
<1>1. /\ piso' = <<>> /\ Len(piso) = 1 /\ r = piso[1] /\ UNCHANGED <<txq, net, rsp>>
  BY ReceiveEffect
<1>2. (AnswerIn(piso, id) <=> id = r.id) /\ AnswerIn(piso, r.id) /\ ~AnswerIn(piso', id)
  BY <1>1 DEF AnswerIn
<1>3. QED
  BY <1>1, <1>2, FlightParts DEF InFlight, LoadIn, AnswerIn

-----------------------------------------------------------------------------
(***************************************************************************)
(* Every id has one place.                                                 *)
(***************************************************************************)

\* The ids a call may use.
Ids == IF call.kind = "read" THEN 1 ELSE LoadCap

Free(id) == \E k \in 1 .. Len(ids) : ids[k] = id

\* There are as many places for ids as ids, and every id has one.
IdsInv ==
  Reading => /\ Len(ids) + Outstanding = Ids
             /\ \A id \in 0 .. Ids - 1 : Free(id) \/ InFlight(id)

\* No more ids are under way than there are loads to carry them.
LEMMA LoadIdsBound ==
  ASSUME NEW q, IsFiniteSet(Places(q, LoadOp)), \A d \in DOMAIN q : q[d] \in Seq(Request)
  PROVE  LET F == {id \in Id : \E d \in DOMAIN q : LoadIn(q[d], id)}
         IN  IsFiniteSet(F) /\ Cardinality(F) <= Cardinality(Places(q, LoadOp))
<1> DEFINE P == Places(q, LoadOp)
           F == {id \in Id : \E d \in DOMAIN q : LoadIn(q[d], id)}
           g == [p \in P |-> q[p[1]][p[2]].arg]
<1>1. ASSUME NEW p \in P PROVE g[p] \in F
  <2>1. PICK d \in DOMAIN q : \E k \in 1 .. Len(q[d]) : p = <<d, k>> /\ q[d][k].op \in LoadOp
    BY InPlaces
  <2>2. PICK k \in 1 .. Len(q[d]) : p = <<d, k>> /\ q[d][k].op \in LoadOp
    BY <2>1
  <2>3. q[d][k] \in Request /\ q[d][k].op = "load"
    BY <2>2, ElementOfSeq DEF LoadOp
  <2>4. q[d][k].arg \in Id /\ LoadIn(q[d], q[d][k].arg)
    BY <2>3, RequestOps DEF LoadIn
  <2>5. g[p] = q[d][k].arg
    BY <2>2
  <2>6. QED
    BY <2>4, <2>5
<1>2. ASSUME NEW id \in F PROVE \E p \in P : g[p] = id
  <2>1. PICK d \in DOMAIN q : LoadIn(q[d], id)
    OBVIOUS
  <2>2. PICK k \in 1 .. Len(q[d]) : q[d][k].op = "load" /\ q[d][k].arg = id
    BY <2>1 DEF LoadIn
  <2>3. <<d, k>> \in P
    BY <2>2, PlaceOf DEF LoadOp
  <2>4. g[<<d, k>>] = id
    BY <2>2, <2>3
  <2>5. QED
    BY <2>3, <2>4
<1>3. g \in Surjection(P, F)
  <2>1. g \in [P -> F]
    BY <1>1
  <2>2. QED
    BY <1>2, <2>1 DEF Surjection
<1> HIDE DEF P, F, g
<1>4. IsFiniteSet(F) /\ Cardinality(F) <= Cardinality(P)
  BY <1>3, FS_Surjection DEF P
<1>5. QED
  BY <1>4 DEF P, F

LEMMA AnswerIdsBound ==
  ASSUME NEW s \in Seq(Response)
  PROVE  LET F == {id \in Id : AnswerIn(s, id)}
         IN  IsFiniteSet(F) /\ Cardinality(F) <= Len(s)
<1> DEFINE F == {id \in Id : AnswerIn(s, id)}
           n == Len(s)
           P == 1 .. n
           g == [k \in P |-> s[k].id]
<1>1. n \in Nat
  OBVIOUS
<1>2. g \in [P -> F]
  <2>1. SUFFICES ASSUME NEW k \in P PROVE s[k].id \in F
    OBVIOUS
  <2>2. s[k] \in Response
    BY ElementOfSeq
  <2>3. QED
    BY <2>2 DEF Response, AnswerIn
<1>3. \A id \in F : \E k \in P : g[k] = id
  BY DEF AnswerIn
<1>4. g \in Surjection(P, F)
  BY <1>2, <1>3 DEF Surjection
<1>5. IsFiniteSet(P) /\ Cardinality(P) = n
  <2> HIDE DEF n
  <2>1. QED
    BY <1>1, FS_Interval
<1> HIDE DEF F, P, g
<1>6. IsFiniteSet(F) /\ Cardinality(F) <= Cardinality(P)
  BY <1>4, <1>5, FS_Surjection
<1>7. QED
  BY <1>5, <1>6 DEF F

LEMMA UnionBound ==
  ASSUME NEW S, IsFiniteSet(S), NEW T, IsFiniteSet(T), NEW s \in Nat, NEW t \in Nat,
         Cardinality(S) <= s, Cardinality(T) <= t
  PROVE  IsFiniteSet(S \cup T) /\ Cardinality(S \cup T) <= s + t
<1>1. IsFiniteSet(S \cup T) /\ IsFiniteSet(S \cap T)
  BY FS_Union, FS_Intersection
<1>2. Cardinality(S \cup T) = Cardinality(S) + Cardinality(T) - Cardinality(S \cap T)
  BY FS_Union
<1>3. Cardinality(S) \in Nat /\ Cardinality(T) \in Nat /\ Cardinality(S \cap T) \in Nat
  BY <1>1, FS_CardinalityType
<1>4. QED
  BY <1>1, <1>2, <1>3

Flying == {id \in Id : InFlight(id)}

LEMMA FlyingBound ==
  ASSUME LinkInv, LoadsInv
  PROVE  IsFiniteSet(Flying) /\ Cardinality(Flying) <= Outstanding
<1> DEFINE F1 == {id \in Id : \E x \in DOMAIN Fifo : LoadIn(Fifo[x], id)}
           F2 == {id \in Id : \E d \in DOMAIN net : LoadIn(net[d], id)}
           F3 == {id \in Id : AnswerIn(rsp, id)}
           F4 == {id \in Id : AnswerIn(piso, id)}
<1>1. IsFiniteSet(F1) /\ Cardinality(F1) <= InFifo
  <2>1. \A x \in DOMAIN Fifo : Fifo[x] \in Seq(Request)
    BY DEF Fifo, LinkInv, TypeOK
  <2>2. IsFiniteSet(Places(Fifo, LoadOp))
    BY DEF LoadsInv
  <2>3. QED
    BY <2>1, <2>2, LoadIdsBound DEF InFifo
<1>2. IsFiniteSet(F2) /\ Cardinality(F2) <= InNet
  <2>1. \A d \in DOMAIN net : net[d] \in Seq(Request)
    BY DEF LinkInv, TypeOK
  <2>2. IsFiniteSet(Places(net, LoadOp))
    BY DEF LinkInv, CreditInv
  <2>3. QED
    BY <2>1, <2>2, LoadIdsBound DEF InNet
<1>3. /\ IsFiniteSet(F3) /\ Cardinality(F3) <= Answered
      /\ IsFiniteSet(F4) /\ Cardinality(F4) <= Held
  BY AnswerIdsBound DEF LinkInv, TypeOK, Answered, Held
<1>4. Flying = (F1 \cup F2) \cup (F3 \cup F4)
  BY FlightParts DEF Flying, Fifo, LinkInv, TypeOK
<1> HIDE DEF F1, F2, F3, F4
<1>5. InFifo \in Nat /\ InNet \in Nat /\ Answered \in Nat /\ Held \in Nat
  BY Counts
<1>6. IsFiniteSet(F1 \cup F2) /\ Cardinality(F1 \cup F2) <= InFifo + InNet
  BY <1>1, <1>2, <1>5, UnionBound
<1>7. IsFiniteSet(F3 \cup F4) /\ Cardinality(F3 \cup F4) <= Answered + Held
  BY <1>3, <1>5, UnionBound
<1>8. InFifo + InNet \in Nat /\ Answered + Held \in Nat
  BY <1>5
<1>9. IsFiniteSet(Flying) /\ Cardinality(Flying) <= (InFifo + InNet) + (Answered + Held)
  BY <1>4, <1>6, <1>7, <1>8, UnionBound
<1>10. Outstanding = (InFifo + InNet) + (Answered + Held)
  BY <1>5, Counts
<1>11. QED
  BY <1>9, <1>10

\* Since no id lacks a place, none has two.
LEMMA EachIdOnce ==
  ASSUME LinkInv, LoadsInv, IdsInv, Reading
  PROVE  /\ \A j, k \in 1 .. Len(ids) : ids[j] = ids[k] => j = k
         /\ \A k \in 1 .. Len(ids) : ~InFlight(ids[k])
<1> DEFINE n == Len(ids)
           K == 1 .. n
           A == {ids[k] : k \in K}
           All == 0 .. Ids - 1
           a == Cardinality(A)
           f == Cardinality(Flying)
           both == Cardinality(A \cap Flying)
<1>1. n \in Nat /\ ids \in [K -> Id] /\ Ids \in Nat
  BY LinkAssumption DEF LinkInv, TypeOK, Ids
<1>2. n + Outstanding = Ids /\ All \subseteq A \cup Flying
  <2>1. \A id \in All : id \in Id
    BY LinkAssumption DEF Ids, Id
  <2>2. n + Outstanding = Ids
    BY DEF IdsInv
  <2>3. \A id \in All : id \in A \/ InFlight(id)
    BY DEF IdsInv, Free
  <2>4. QED
    BY <2>1, <2>2, <2>3 DEF Flying
<1>3. ids \in Surjection(K, A)
  <2>1. ids \in [K -> A]
    BY <1>1
  <2>2. QED
    BY <2>1 DEF Surjection
<1> HIDE DEF n, K
<1>4. IsFiniteSet(K) /\ Cardinality(K) = n
  BY <1>1, FS_Interval DEF K
<1> HIDE DEF A
<1>5. IsFiniteSet(A) /\ a <= n /\ (a = n <=> ids \in Injection(K, A))
  BY <1>3, <1>4, FS_Surjection
<1>6. IsFiniteSet(All) /\ Cardinality(All) = Ids
  BY <1>1, FS_Interval
<1> HIDE DEF All
<1>7. IsFiniteSet(Flying) /\ f <= Outstanding
  BY FlyingBound
<1>8. /\ IsFiniteSet(A \cup Flying) /\ IsFiniteSet(A \cap Flying)
      /\ Cardinality(A \cup Flying) = a + f - both
  BY <1>5, <1>7, FS_Union, FS_Intersection
<1>9. a \in Nat /\ f \in Nat /\ both \in Nat
  BY <1>5, <1>7, <1>8, FS_CardinalityType
<1>10. Ids <= a + f - both
  BY <1>2, <1>6, <1>8, FS_Subset
<1>11. Outstanding \in Nat
  BY Counts
<1> HIDE DEF a, f, both
<1>12. a = n /\ both = 0
  <2>1. n + Outstanding = Ids /\ a <= n /\ f <= Outstanding
    BY <1>2, <1>5, <1>7
  <2>2. QED
    BY <1>1, <1>9, <1>10, <1>11, <2>1
<1>13. A \cap Flying = {}
  BY <1>8, <1>12, FS_EmptySet DEF both
<1>14. ids \in Injection(K, A)
  BY <1>5, <1>12
<1>15. \A j, k \in K : ids[j] = ids[k] => j = k
  BY <1>14 DEF Injection, IsInjective
<1>16. \A k \in K : ids[k] \in A /\ ids[k] \in Id
  BY <1>1 DEF A
<1>17. \A k \in K : ~InFlight(ids[k])
  BY <1>13, <1>16 DEF Flying
<1>18. QED
  BY <1>15, <1>17 DEF K, n

LEMMA IdsOfCall ==
  ASSUME LinkInv, LoadsInv, NEW c \in Calls, Call(c)
  PROVE  IdsInv'
<1> SUFFICES ASSUME Reading'
             PROVE  /\ Len(ids') + Outstanding' = Ids'
                    /\ \A id \in 0 .. Ids' - 1 : Free(id)'
  BY DEF IdsInv
<1>1. /\ pc = "idle" /\ call' = c /\ UNCHANGED link
      /\ c.kind \in {"read_mem", "read"}
  BY CallsAssumption DEF Call, Kinds, Reading
<1>2. Outstanding' = 0
  BY <1>1 DEF LoadsInv, Reading, Outstanding, Fifo, link
<1>3. CASE c.kind = "read"
  <2>1. ids' = <<0>> /\ Ids' = 1
    BY <1>1, <1>3 DEF Call, Ids
  <2>2. Len(ids') = 1 /\ ids'[1] = 0
    BY <2>1
  <2>3. \A id \in 0 .. Ids' - 1 : id = 0
    BY <2>1
  <2>4. QED
    BY <1>2, <2>1, <2>2, <2>3 DEF Free
<1>4. CASE c.kind = "read_mem"
  <2>1. ids' = [k \in 1 .. LoadCap |-> k - 1] /\ Ids' = LoadCap
    BY <1>1, <1>4 DEF Call, Ids
  <2>2. Len(ids') = LoadCap
    BY <2>1, LinkAssumption
  <2>3. ASSUME NEW id \in 0 .. Ids' - 1 PROVE \E k \in 1 .. Len(ids') : ids'[k] = id
    <3>1. id + 1 \in 1 .. LoadCap /\ ids'[id + 1] = (id + 1) - 1
      BY <2>1, LinkAssumption
    <3>2. QED
      BY <2>2, <3>1
  <2>4. QED
    BY <1>2, <2>1, <2>2, <2>3, LinkAssumption DEF Free
<1>5. QED
  BY <1>1, <1>3, <1>4

\* An id leaves the stack and is under way.
LEMMA IdsOfLoad ==
  ASSUME LinkInv, LoadsInv, LoadsInv', IdsInv, RequestLoad
  PROVE  IdsInv'
<1> DEFINE n == Len(ids)
<1>1. /\ Reading /\ Reading' /\ ids # <<>> /\ ids \in Seq(Id) /\ ids' = Tail(ids)
      /\ sent' = sent + 1 /\ got' = got /\ Ids' = Ids
  BY RequestLoadEffect DEF Reading, Ids
<1>2. /\ n \in Nat \ {0} /\ Len(ids') = n - 1 /\ Head(ids) = ids[1]
      /\ \A k \in 1 .. n - 1 : ids'[k] = ids[k + 1]
  BY <1>1, Shifted
<1> HIDE DEF n
<1>3. Outstanding = sent - got /\ Outstanding' = sent' - got'
  BY <1>1 DEF LoadsInv
<1>4. n + Outstanding = Ids
  BY <1>1 DEF IdsInv, n
<1>5. sent \in Nat /\ got \in Nat
  BY Counts
<1>6. (n - 1) + Outstanding' = Ids
  <2>1. Outstanding = sent - got /\ Outstanding' = sent' - got' /\ sent' = sent + 1 /\ got' = got
        /\ n \in Nat
    BY <1>1, <1>2, <1>3
  <2>2. QED
    BY <2>1, <1>4, <1>5
<1>7. ASSUME NEW id \in 0 .. Ids - 1 PROVE Free(id)' \/ InFlight(id)'
  <2>1. CASE InFlight(id)
    BY <2>1, FlightOfLoad
  <2>2. CASE Free(id)
    <3>1. PICK k \in 1 .. n : ids[k] = id
      BY <2>2 DEF Free, n
    <3>2. CASE k = 1
      BY <1>2, <3>1, <3>2, FlightOfLoad
    <3>3. CASE k # 1
      <4>1. k - 1 \in 1 .. n - 1 /\ ids'[k - 1] = id
        BY <1>2, <3>1, <3>3
      <4>2. QED
        BY <1>2, <4>1 DEF Free
    <3>4. QED
      BY <3>2, <3>3
  <2>3. QED
    BY <1>1, <2>1, <2>2 DEF IdsInv
<1>8. QED
  BY <1>1, <1>2, <1>6, <1>7 DEF IdsInv

\* It comes back with its response.
LEMMA IdsOfReceive ==
  ASSUME LinkInv, LoadsInv, LoadsInv', IdsInv, ReceiveResponse
  PROVE  IdsInv'
<1> DEFINE r == Head(piso)
           n == Len(ids)
<1>1. /\ r \in Response /\ pc = "response" /\ pc' = pc /\ ids' = <<r.id>> \o ids
      /\ sent' = sent /\ got' = got + 1 /\ call' = call
  BY ReceiveEffect
<1>2. ids \in Seq(Id) /\ r.id \in Id /\ Reading /\ Reading' /\ Ids' = Ids
  BY <1>1 DEF LinkInv, TypeOK, Response, Reading, Ids
<1> HIDE DEF r
<1>3. /\ n \in Nat /\ Len(ids') = n + 1 /\ ids'[1] = r.id
      /\ \A k \in 1 .. n : ids'[k + 1] = ids[k]
  BY <1>1, <1>2
<1> HIDE DEF n
<1>4. Outstanding = sent - got /\ Outstanding' = sent' - got'
  BY <1>2 DEF LoadsInv
<1>5. n + Outstanding = Ids
  BY <1>2 DEF IdsInv, n
<1>6. sent \in Nat /\ got \in Nat
  BY Counts
<1>7. (n + 1) + Outstanding' = Ids
  <2>1. Outstanding = sent - got /\ Outstanding' = sent' - got' /\ sent' = sent /\ got' = got + 1
        /\ n \in Nat
    BY <1>1, <1>3, <1>4
  <2>2. QED
    BY <2>1, <1>5, <1>6
<1>8. ASSUME NEW id \in 0 .. Ids - 1 PROVE Free(id)' \/ InFlight(id)'
  <2>1. CASE InFlight(id)
    <3>1. InFlight(id)' \/ id = r.id
      BY <2>1, FlightOfReceive DEF r
    <3>2. 1 \in 1 .. Len(ids')
      BY <1>3
    <3>3. QED
      BY <1>3, <3>1, <3>2 DEF Free
  <2>2. CASE Free(id)
    <3>1. PICK k \in 1 .. n : ids[k] = id
      BY <2>2 DEF Free, n
    <3>2. k + 1 \in 1 .. Len(ids') /\ ids'[k + 1] = id
      BY <1>3, <3>1
    <3>3. QED
      BY <3>2 DEF Free
  <2>3. QED
    BY <1>2, <2>1, <2>2 DEF IdsInv
<1>9. QED
  BY <1>2, <1>3, <1>7, <1>8 DEF IdsInv

\* Steps of a read that neither send nor receive, and those of the hardware.
LEMMA IdsKept ==
  ASSUME LoadsInv, LoadsInv', IdsInv, UNCHANGED <<call, ids, sent, got>>, Reading' => Reading,
         \A id \in Id : InFlight(id)' <=> InFlight(id)
  PROVE  IdsInv'
<1> SUFFICES ASSUME Reading, Reading' PROVE IdsInv'
  BY DEF IdsInv
<1>1. Outstanding' = Outstanding
  BY DEF LoadsInv
<1>2. Ids' = Ids /\ Ids \in 1 .. LoadCap
  BY LinkAssumption DEF Ids
<1>3. \A id \in 0 .. Ids - 1 : id \in Id
  BY <1>2, LinkAssumption DEF Id
<1>4. QED
  BY <1>1, <1>2, <1>3 DEF IdsInv, Free

\* The other steps of the host never enter the loops of a read.
LEMMA OtherStep ==
  ASSUME [Next]_vars, ~RequestLoad, ~ReceiveResponse, ~(\E c \in Calls : Call(c)), ~LinkStep
  PROVE  /\ Reading' => Reading /\ UNCHANGED <<call, ids, sent, got, slot, data, link, written>>
         /\ UNCHANGED call
         /\ UNCHANGED link \/ Store
BY DEF Next, HostStep, UpdateRequests, HaveCapacity, Store, Refuse, EnterFence, FenceTest, FencePoll,
       FenceReads, EndRequests, EndResponses, Return, Reading, vars, local, Transmit

LEMMA IdsStep == LinkInv /\ LoadsInv /\ LoadsInv' /\ IdsInv /\ [Next]_vars => IdsInv'
<1> SUFFICES ASSUME LinkInv, LoadsInv, LoadsInv', IdsInv, [Next]_vars PROVE IdsInv'
  OBVIOUS
<1>1. CASE LinkStep
  <2>1. UNCHANGED <<call, ids, sent, got, pc>>
    BY <1>1 DEF LinkStep, Depart, Serve, Serialize, local
  <2>2. QED
    BY <1>1, <2>1, FlightOfLink, IdsKept DEF Reading
<1>2. CASE ~RequestLoad /\ ~ReceiveResponse /\ ~(\E c \in Calls : Call(c)) /\ ~LinkStep
  <2>1. Reading' => Reading /\ UNCHANGED <<call, ids, sent, got, link>>
    BY <1>2, OtherStep
  <2>2. CASE Reading'
    BY <2>1, <2>2, FlightKept, IdsKept
  <2>3. CASE ~Reading'
    BY <2>3 DEF IdsInv
  <2>4. QED
    BY <2>2, <2>3
<1>3. QED
  BY <1>1, <1>2, IdsOfCall, IdsOfLoad, IdsOfReceive

LEMMA IdsInvariant == WholeReads => (Spec => []IdsInv)
<1> SUFFICES ASSUME WholeReads PROVE Spec => []IdsInv
  OBVIOUS
<1>1. Init => IdsInv
  BY DEF Init, IdsInv, Reading
<1>2. LinkInv /\ LoadsInv /\ LoadsInv' /\ IdsInv /\ [Next]_vars => IdsInv'
  BY IdsStep
<1>3. QED
  BY <1>1, <1>2, LinkInvariant, LoadsInvariant, PTL DEF Spec

\* No two loads under way share an entry of id_to_rsp_i, and an id is free or under way and never
\* both, however the responses of a read overtake one another and its ids are reused.
THEOREM NoIdTwice == WholeReads => (Spec => []IdsFreeOrInFlight)
<1> SUFFICES ASSUME WholeReads PROVE Spec => []IdsFreeOrInFlight
  OBVIOUS
<1>1. LinkInv /\ LoadsInv /\ IdsInv => IdsFreeOrInFlight
  BY EachIdOnce DEF IdsFreeOrInFlight, Reading
<1>2. QED
  BY <1>1, LinkInvariant, LoadsInvariant, IdsInvariant, PTL

-----------------------------------------------------------------------------
(***************************************************************************)
(* No store follows a load.                                                *)
(***************************************************************************)

OnlyLoads(q) == \A k \in 1 .. Len(q) : q[k].op = "load"
LoadsLast(q) == \A j, k \in 1 .. Len(q) : j < k /\ q[j].op = "load" => q[k].op = "load"

\* A program waits for its loads before it stores again, so in a queue the loads come last, and
\* behind a load on the network the FIFO holds no store.
OrderInv ==
  /\ LoadsLast(txq)
  /\ \A d \in Dest : LoadsLast(net[d])
  /\ (\E d \in Dest : \E id \in Id : LoadIn(net[d], id)) => OnlyLoads(txq)

LEMMA OrderAppend ==
  ASSUME NEW s \in Seq(Request), NEW r \in Request
  PROVE  /\ r.op = "load" /\ LoadsLast(s) => LoadsLast(Append(s, r))
         /\ (\A id \in Id : ~LoadIn(s, id)) => LoadsLast(Append(s, r))
         /\ OnlyLoads(s) /\ r.op = "load" => OnlyLoads(Append(s, r))
<1> DEFINE n == Len(s)
           t == Append(s, r)
<1>1. /\ n \in Nat /\ Len(t) = n + 1
      /\ \A k \in 1 .. n : t[k] = s[k] /\ s[k] \in Request
      /\ t[n + 1] = r
  BY Appended, ElementOfSeq
<1>2. (\A id \in Id : ~LoadIn(s, id)) => \A k \in 1 .. n : s[k].op # "load"
  BY <1>1, RequestOps DEF LoadIn
<1>3. LoadsLast(s) <=> \A j, k \in 1 .. n : j < k /\ s[j].op = "load" => s[k].op = "load"
  BY DEF LoadsLast
<1>4. OnlyLoads(s) <=> \A k \in 1 .. n : s[k].op = "load"
  BY DEF OnlyLoads
<1>5. LoadsLast(t) <=> \A j, k \in 1 .. n + 1 : j < k /\ t[j].op = "load" => t[k].op = "load"
  BY <1>1 DEF LoadsLast
<1>6. OnlyLoads(t) <=> \A k \in 1 .. n + 1 : t[k].op = "load"
  BY <1>1 DEF OnlyLoads
<1> HIDE DEF n, t
<1>7. \A k \in 1 .. n + 1 : k \in 1 .. n \/ k = n + 1
  BY <1>1
<1>8. \A j, k \in 1 .. n + 1 : j < k => j \in 1 .. n
  BY <1>1
<1>9. ASSUME r.op = "load", LoadsLast(s) PROVE LoadsLast(t)
  BY <1>1, <1>3, <1>5, <1>7, <1>8, <1>9
<1>10. ASSUME \A k \in 1 .. n : s[k].op # "load" PROVE LoadsLast(t)
  BY <1>1, <1>5, <1>8, <1>10
<1>11. ASSUME OnlyLoads(s), r.op = "load" PROVE OnlyLoads(t)
  BY <1>1, <1>4, <1>6, <1>7, <1>11
<1>12. QED
  BY <1>2, <1>9, <1>10, <1>11 DEF t

LEMMA OrderTail ==
  ASSUME NEW s \in Seq(Request), s # <<>>
  PROVE  /\ LoadsLast(s) => LoadsLast(Tail(s))
         /\ OnlyLoads(s) => OnlyLoads(Tail(s))
         /\ LoadsLast(s) /\ Head(s).op = "load" => OnlyLoads(s)
         /\ OnlyLoads(s) => Head(s).op = "load"
<1> DEFINE n == Len(s)
           t == Tail(s)
<1>1. /\ n \in Nat \ {0} /\ Len(t) = n - 1 /\ Head(s) = s[1]
      /\ \A k \in 1 .. n - 1 : t[k] = s[k + 1]
  BY Shifted
<1>2. LoadsLast(s) <=> \A j, k \in 1 .. n : j < k /\ s[j].op = "load" => s[k].op = "load"
  BY DEF LoadsLast
<1>3. OnlyLoads(s) <=> \A k \in 1 .. n : s[k].op = "load"
  BY DEF OnlyLoads
<1>4. LoadsLast(t) <=> \A j, k \in 1 .. n - 1 : j < k /\ t[j].op = "load" => t[k].op = "load"
  BY <1>1 DEF LoadsLast
<1>5. OnlyLoads(t) <=> \A k \in 1 .. n - 1 : t[k].op = "load"
  BY <1>1 DEF OnlyLoads
<1> HIDE DEF n, t
<1>6. \A k \in 1 .. n - 1 : k + 1 \in 1 .. n
  BY <1>1
<1>7. \A j, k \in 1 .. n - 1 : j < k => j + 1 < k + 1
  BY <1>1
<1>8. 1 \in 1 .. n /\ \A k \in 1 .. n : k = 1 \/ 1 < k
  BY <1>1
<1>9. ASSUME LoadsLast(s) PROVE LoadsLast(t)
  BY <1>1, <1>2, <1>4, <1>6, <1>7, <1>9
<1>10. ASSUME OnlyLoads(s) PROVE OnlyLoads(t) /\ s[1].op = "load"
  BY <1>1, <1>3, <1>5, <1>6, <1>8, <1>10
<1>11. ASSUME LoadsLast(s), s[1].op = "load" PROVE OnlyLoads(s)
  BY <1>2, <1>3, <1>8, <1>11
<1>12. QED
  BY <1>1, <1>9, <1>10, <1>11 DEF t

\* Outside the loops of a read nothing is under way.
LEMMA NothingFlies ==
  ASSUME LinkInv, LoadsInv, Outstanding = 0, NEW id \in Id
  PROVE  ~InFlight(id)
<1>1. IsFiniteSet(Flying) /\ Cardinality(Flying) <= 0
  BY FlyingBound
<1>2. Cardinality(Flying) = 0
  BY <1>1, FS_CardinalityType
<1>3. Flying = {}
  BY <1>1, <1>2, FS_EmptySet
<1>4. QED
  BY <1>3 DEF Flying

LEMMA OrderOfStore ==
  ASSUME LinkInv, LoadsInv, OrderInv, Store
  PROVE  OrderInv'
<1> DEFINE r == [op |-> "store", addr |-> NextWord, arg |-> calls]
<1>1. pc = "store" /\ NextWord \in Addr /\ txq' = Append(txq, r) /\ UNCHANGED net
  BY DEF Store, Transmit
<1>2. r \in Request /\ txq \in Seq(Request)
  BY <1>1 DEF LinkInv, TypeOK, Request, Value
<1>3. Outstanding = 0
  BY <1>1 DEF LoadsInv, Reading
<1>4. \A id \in Id : ~LoadIn(txq, id) /\ \A d \in Dest : ~LoadIn(net[d], id)
  BY <1>3, NothingFlies, FlightParts
<1> HIDE DEF r
<1>5. LoadsLast(txq')
  BY <1>1, <1>2, <1>4, OrderAppend
<1>6. QED
  BY <1>1, <1>4, <1>5 DEF OrderInv

LEMMA OrderOfLoad ==
  ASSUME LinkInv, OrderInv, RequestLoad
  PROVE  OrderInv'
<1> DEFINE r == [op |-> "load", addr |-> NextWord, arg |-> Head(ids)]
<1>1. r \in Request /\ txq \in Seq(Request) /\ txq' = Append(txq, r) /\ net' = net
  BY RequestLoadEffect
<1>2. r.op = "load"
  OBVIOUS
<1> HIDE DEF r
<1>3. LoadsLast(txq') /\ (OnlyLoads(txq) => OnlyLoads(txq'))
  BY <1>1, <1>2, OrderAppend DEF OrderInv
<1>4. QED
  BY <1>1, <1>3 DEF OrderInv

LEMMA OrderOfDepart ==
  ASSUME LinkInv, OrderInv, Depart
  PROVE  OrderInv'
<1> DEFINE r == Head(txq)
           e == Home[r.addr]
<1>1. /\ r \in Request /\ e \in Dest /\ txq # <<>> /\ txq' = Tail(txq)
      /\ net' = [net EXCEPT ![e] = Append(@, r)]
  BY DepartEffect
<1>2. txq \in Seq(Request) /\ net \in [Dest -> Seq(Request)]
  BY DEF LinkInv, TypeOK
<1>3. /\ LoadsLast(txq')
      /\ OnlyLoads(txq) => OnlyLoads(txq') /\ r.op = "load"
      /\ r.op = "load" => OnlyLoads(txq)
  BY <1>1, <1>2, OrderTail DEF OrderInv
<1> HIDE DEF r, e
<1>4. net'[e] = Append(net[e], r) /\ net[e] \in Seq(Request)
      /\ \A d \in Dest : d # e => net'[d] = net[d]
  BY <1>1, <1>2
<1>5. r.op # "load" => \A d \in Dest : \A id \in Id : ~LoadIn(net[d], id)
  BY <1>3 DEF OrderInv
<1>6. LoadsLast(net'[e])
  BY <1>1, <1>4, <1>5, OrderAppend DEF OrderInv
<1>7. ASSUME NEW d \in Dest, NEW id \in Id, LoadIn(net'[d], id) PROVE OnlyLoads(txq')
  <2>1. LoadIn(net[d], id) \/ r.op = "load"
    BY <1>1, <1>4, <1>7, LoadInAppend
  <2>2. QED
    BY <1>3, <2>1 DEF OrderInv
<1>8. QED
  BY <1>3, <1>4, <1>6, <1>7 DEF OrderInv

LEMMA OrderOfServe ==
  ASSUME LinkInv, OrderInv, NEW e \in Dest, Serve(e)
  PROVE  OrderInv'
<1>1. net[e] # <<>> /\ net' = [net EXCEPT ![e] = Tail(@)] /\ txq' = txq
  BY ServeEffect
<1>2. net \in [Dest -> Seq(Request)]
  BY DEF LinkInv, TypeOK
<1>3. net'[e] = Tail(net[e]) /\ net[e] \in Seq(Request)
      /\ \A d \in Dest : d # e => net'[d] = net[d]
  BY <1>1, <1>2
<1>4. LoadsLast(net'[e])
  BY <1>1, <1>3, OrderTail DEF OrderInv
<1>5. ASSUME NEW d \in Dest, NEW id \in Id, LoadIn(net'[d], id) PROVE LoadIn(net[d], id)
  BY <1>1, <1>3, <1>5, LoadInTail
<1>6. QED
  BY <1>1, <1>3, <1>4, <1>5 DEF OrderInv

LEMMA OrderStep == LinkInv /\ LoadsInv /\ OrderInv /\ [Next]_vars => OrderInv'
<1> SUFFICES ASSUME LinkInv, LoadsInv, OrderInv, [Next]_vars PROVE OrderInv'
  OBVIOUS
<1>1. CASE UNCHANGED <<txq, net>>
  BY <1>1 DEF OrderInv
<1>2. Store \/ RequestLoad \/ Depart \/ (\E d \in Dest : Serve(d)) \/ UNCHANGED <<txq, net>>
  BY DEF Next, Call, HostStep, LinkStep, UpdateRequests, HaveCapacity, Refuse, EnterFence, FenceTest,
         FencePoll, EndRequests, ReceiveResponse, EndResponses, Serialize, link, local, vars
<1>3. QED
  BY <1>1, <1>2, OrderOfStore, OrderOfLoad, OrderOfDepart, OrderOfServe

-----------------------------------------------------------------------------
(***************************************************************************)
(* A response brings the word its id was taken for.                        *)
(***************************************************************************)

\* The loads in q ask for, and the responses in q bring, the words of the list as at the indices
\* s holds for their ids; w is what the program last wrote.
Asks(q, s, as)      == \A k \in 1 .. Len(q) : q[k].op = "load" => q[k].addr = as[s[q[k].arg]]
Brings(q, s, as, w) == \A k \in 1 .. Len(q) : q[k].data = w[as[s[q[k].id]]]

\* While a call reads, a load under way has an index of the buffer, asks for the word with that
\* index, and is answered with what was last written there.
AnswersInv ==
  Reading =>
    /\ \A id \in Id : InFlight(id) => slot[id] \in 1 .. sent
    /\ Asks(txq, slot, call.addrs)
    /\ \A d \in Dest : Asks(net[d], slot, call.addrs)
    /\ Brings(rsp, slot, call.addrs, written)
    /\ Brings(piso, slot, call.addrs, written)

LEMMA AsksAppend ==
  ASSUME NEW q \in Seq(Request), NEW r \in Request, NEW s, NEW as, Asks(q, s, as),
         r.op = "load" => r.addr = as[s[r.arg]]
  PROVE  Asks(Append(q, r), s, as)
<1> DEFINE n == Len(q)
           t == Append(q, r)
<1>1. /\ n \in Nat /\ Len(t) = n + 1
      /\ \A k \in 1 .. n : t[k] = q[k]
      /\ t[n + 1] = r
  BY Appended
<1>2. \A k \in 1 .. n : q[k].op = "load" => q[k].addr = as[s[q[k].arg]]
  BY DEF Asks
<1> HIDE DEF n, t
<1>3. \A k \in 1 .. n + 1 : k \in 1 .. n \/ k = n + 1
  BY <1>1
<1>4. ASSUME NEW k \in 1 .. Len(t), t[k].op = "load" PROVE t[k].addr = as[s[t[k].arg]]
  BY <1>1, <1>2, <1>3, <1>4
<1>5. QED
  BY <1>4 DEF Asks, t

LEMMA AsksTail ==
  ASSUME NEW q \in Seq(Request), q # <<>>, NEW s, NEW as, Asks(q, s, as)
  PROVE  /\ Asks(Tail(q), s, as)
         /\ Head(q).op = "load" => Head(q).addr = as[s[Head(q).arg]]
<1> DEFINE n == Len(q)
           t == Tail(q)
<1>1. /\ n \in Nat \ {0} /\ Len(t) = n - 1 /\ Head(q) = q[1]
      /\ \A k \in 1 .. n - 1 : t[k] = q[k + 1]
  BY Shifted
<1>2. \A k \in 1 .. n : q[k].op = "load" => q[k].addr = as[s[q[k].arg]]
  BY DEF Asks
<1> HIDE DEF n, t
<1>3. 1 \in 1 .. n /\ \A k \in 1 .. n - 1 : k + 1 \in 1 .. n
  BY <1>1
<1>4. Asks(t, s, as)
  <2>1. SUFFICES ASSUME NEW k \in 1 .. n - 1, t[k].op = "load" PROVE t[k].addr = as[s[t[k].arg]]
    BY <1>1 DEF Asks
  <2>2. k + 1 \in 1 .. n /\ t[k] = q[k + 1]
    BY <1>1, <1>3
  <2>3. QED
    BY <1>2, <2>1, <2>2
<1>5. QED
  BY <1>1, <1>2, <1>3, <1>4 DEF t

\* A new entry of id_to_rsp_i does not disturb the loads under way with other ids.
LEMMA AsksOther ==
  ASSUME NEW q \in Seq(Request), NEW s, NEW t, NEW as, Asks(q, s, as),
         \A id \in Id : LoadIn(q, id) => t[id] = s[id]
  PROVE  Asks(q, t, as)
<1>1. SUFFICES ASSUME NEW k \in 1 .. Len(q), q[k].op = "load" PROVE q[k].addr = as[t[q[k].arg]]
  BY DEF Asks
<1>2. q[k].arg \in Id
  BY <1>1, RequestOps, ElementOfSeq
<1>3. LoadIn(q, q[k].arg)
  BY <1>1 DEF LoadIn
<1>4. t[q[k].arg] = s[q[k].arg]
  BY <1>2, <1>3
<1>5. q[k].addr = as[s[q[k].arg]]
  BY <1>1 DEF Asks
<1>6. QED
  BY <1>4, <1>5

LEMMA BringsOther ==
  ASSUME NEW q \in Seq(Response), NEW s, NEW t, NEW as, NEW w, Brings(q, s, as, w),
         \A id \in Id : AnswerIn(q, id) => t[id] = s[id]
  PROVE  Brings(q, t, as, w)
<1>1. SUFFICES ASSUME NEW k \in 1 .. Len(q) PROVE q[k].data = w[as[t[q[k].id]]]
  BY DEF Brings
<1>2. q[k] \in Response
  BY <1>1, ElementOfSeq
<1>3. q[k].id \in Id /\ AnswerIn(q, q[k].id)
  BY <1>1, <1>2 DEF Response, AnswerIn
<1>4. t[q[k].id] = s[q[k].id]
  BY <1>3
<1>5. q[k].data = w[as[s[q[k].id]]]
  BY <1>1 DEF Brings
<1>6. QED
  BY <1>4, <1>5

LEMMA BringsAppend ==
  ASSUME NEW q \in Seq(Response), NEW r \in Response, NEW s, NEW as, NEW w, Brings(q, s, as, w),
         r.data = w[as[s[r.id]]]
  PROVE  Brings(Append(q, r), s, as, w)
<1> DEFINE n == Len(q)
           t == Append(q, r)
<1>1. /\ n \in Nat /\ Len(t) = n + 1
      /\ \A k \in 1 .. n : t[k] = q[k]
      /\ t[n + 1] = r
  BY Appended
<1>2. \A k \in 1 .. n : q[k].data = w[as[s[q[k].id]]]
  BY DEF Brings
<1> HIDE DEF n, t
<1>3. \A k \in 1 .. n + 1 : k \in 1 .. n \/ k = n + 1
  BY <1>1
<1>4. ASSUME NEW k \in 1 .. Len(t) PROVE t[k].data = w[as[s[t[k].id]]]
  BY <1>1, <1>2, <1>3, <1>4
<1>5. QED
  BY <1>4 DEF Brings, t

LEMMA BringsTail ==
  ASSUME NEW q \in Seq(Response), q # <<>>, NEW s, NEW as, NEW w, Brings(q, s, as, w)
  PROVE  /\ Brings(Tail(q), s, as, w)
         /\ Head(q).data = w[as[s[Head(q).id]]]
<1> DEFINE n == Len(q)
           t == Tail(q)
<1>1. /\ n \in Nat \ {0} /\ Len(t) = n - 1 /\ Head(q) = q[1]
      /\ \A k \in 1 .. n - 1 : t[k] = q[k + 1]
  BY Shifted
<1>2. \A k \in 1 .. n : q[k].data = w[as[s[q[k].id]]]
  BY DEF Brings
<1> HIDE DEF n, t
<1>3. 1 \in 1 .. n /\ \A k \in 1 .. n - 1 : k + 1 \in 1 .. n
  BY <1>1
<1>4. Brings(t, s, as, w)
  <2>1. SUFFICES ASSUME NEW k \in 1 .. n - 1 PROVE t[k].data = w[as[s[t[k].id]]]
    BY <1>1 DEF Brings
  <2>2. k + 1 \in 1 .. n /\ t[k] = q[k + 1]
    BY <1>1, <1>3
  <2>3. QED
    BY <1>2, <2>2
<1>5. QED
  BY <1>1, <1>2, <1>3, <1>4 DEF t

\* What the steps of the hardware have in common.
LEMMA AnswersLink ==
  ASSUME LinkInv, AnswersInv, LinkStep,
         Reading => /\ Asks(txq', slot, call.addrs)
                    /\ \A d \in Dest : Asks(net'[d], slot, call.addrs)
                    /\ Brings(rsp', slot, call.addrs, written)
                    /\ Brings(piso', slot, call.addrs, written)
  PROVE  AnswersInv'
<1>1. UNCHANGED <<pc, call, sent, slot, written>>
  BY DEF LinkStep, Depart, Serve, Serialize, local
<1>2. \A id \in Id : InFlight(id)' <=> InFlight(id)
  BY FlightOfLink
<1>3. QED
  BY <1>1, <1>2 DEF AnswersInv, Reading

LEMMA AnswersOfDepart ==
  ASSUME LinkInv, AnswersInv, Depart
  PROVE  AnswersInv'
<1> DEFINE r == Head(txq)
           e == Home[r.addr]
<1>1. /\ r \in Request /\ e \in Dest /\ txq # <<>> /\ txq' = Tail(txq)
      /\ net' = [net EXCEPT ![e] = Append(@, r)] /\ UNCHANGED <<rsp, piso>>
  BY DepartEffect
<1>2. txq \in Seq(Request) /\ net \in [Dest -> Seq(Request)]
  BY DEF LinkInv, TypeOK
<1>3. ASSUME Reading
      PROVE  /\ Asks(txq', slot, call.addrs)
             /\ r.op = "load" => r.addr = call.addrs[slot[r.arg]]
  BY <1>1, <1>2, <1>3, AsksTail DEF AnswersInv
<1> HIDE DEF r, e
<1>4. net'[e] = Append(net[e], r) /\ net[e] \in Seq(Request)
      /\ \A d \in Dest : d # e => net'[d] = net[d]
  BY <1>1, <1>2
<1>5. ASSUME Reading PROVE \A d \in Dest : Asks(net'[d], slot, call.addrs)
  <2>1. Asks(net'[e], slot, call.addrs)
    BY <1>1, <1>3, <1>4, <1>5, AsksAppend DEF AnswersInv
  <2>2. QED
    BY <1>4, <1>5, <2>1 DEF AnswersInv
<1>6. Reading => Brings(rsp', slot, call.addrs, written) /\ Brings(piso', slot, call.addrs, written)
  BY <1>1 DEF AnswersInv
<1>7. LinkStep
  BY DEF LinkStep
<1>8. QED
  BY <1>3, <1>5, <1>6, <1>7, AnswersLink

\* A load finds in memory what the program last wrote: no store to the word is under way.
LEMMA LoadFindsLast ==
  ASSUME LinkInv, StoresInv, OrderInv, NEW e \in Dest, net[e] # <<>>, NEW r, r = Head(net[e]),
         r.op = "load"
  PROVE  mem[r.addr] = written[r.addr]
<1>1. net[e] \in Seq(Request) /\ txq \in Seq(Request)
  BY DEF LinkInv, TypeOK
<1>2. r \in Request /\ r = net[e][1] /\ Len(net[e]) \in Nat \ {0}
  BY <1>1, Shifted
<1>3. r.addr \in Addr /\ r.arg \in Id /\ 1 \in 1 .. Len(net[e])
  BY <1>2, RequestOps
<1>4. Home[r.addr] = e
  BY <1>2, <1>3 DEF StoresInv, HomeInv
<1>5. LoadIn(net[e], r.arg)
  BY <1>2, <1>3 DEF LoadIn
<1>6. OnlyLoads(net[e]) /\ OnlyLoads(txq)
  BY <1>1, <1>3, <1>5, OrderTail DEF OrderInv
<1>7. NoneTo(txq, r.addr) /\ NoneTo(net[e], r.addr)
  BY <1>6 DEF NoneTo, OnlyLoads, StoreTo
<1>8. QED
  BY <1>3, <1>4, <1>7 DEF StoresInv, LastInv

LEMMA AnswersOfServe ==
  ASSUME LinkInv, StoresInv, OrderInv, AnswersInv, NEW e \in Dest, Serve(e)
  PROVE  AnswersInv'
<1> DEFINE r == Head(net[e])
           answer == [id |-> r.arg, data |-> mem[r.addr]]
<1>1. /\ r \in Request /\ net[e] # <<>> /\ net' = [net EXCEPT ![e] = Tail(@)]
      /\ r.op = "store" => rsp' = rsp
      /\ r.op = "load" => rsp' = Append(rsp, answer)
      /\ UNCHANGED <<txq, piso>>
  BY ServeEffect
<1>2. /\ net \in [Dest -> Seq(Request)] /\ rsp \in Seq(Response)
      /\ r.op \in AnyOp /\ (r.op = "load" => answer \in Response)
  BY <1>1, RequestOps DEF Response, LinkInv, TypeOK
<1>3. net'[e] = Tail(net[e]) /\ net[e] \in Seq(Request)
      /\ \A d \in Dest : d # e => net'[d] = net[d]
  BY <1>1, <1>2
<1>4. ASSUME Reading
      PROVE  /\ Asks(net'[e], slot, call.addrs)
             /\ r.op = "load" => r.addr = call.addrs[slot[r.arg]]
  BY <1>1, <1>3, <1>4, AsksTail DEF AnswersInv
<1>5. r.op = "load" => mem[r.addr] = written[r.addr]
  BY <1>1, LoadFindsLast
<1>6. answer.id = r.arg /\ answer.data = mem[r.addr]
  OBVIOUS
<1> HIDE DEF r, answer
<1>7. ASSUME Reading PROVE Brings(rsp', slot, call.addrs, written)
  <2>1. Brings(rsp, slot, call.addrs, written)
    BY <1>7 DEF AnswersInv
  <2>2. CASE r.op = "load"
    <3>1. answer.data = written[call.addrs[slot[answer.id]]]
      BY <1>4, <1>5, <1>6, <1>7, <2>2
    <3>2. QED
      BY <1>1, <1>2, <2>1, <2>2, <3>1, BringsAppend
  <2>3. CASE r.op = "store"
    BY <1>1, <2>1, <2>3
  <2>4. QED
    BY <1>2, <2>2, <2>3 DEF AnyOp
<1>8. LinkStep
  BY DEF LinkStep
<1>9. Reading => /\ Asks(txq', slot, call.addrs) /\ Brings(piso', slot, call.addrs, written)
                 /\ \A d \in Dest : Asks(net'[d], slot, call.addrs)
  BY <1>1, <1>3, <1>4 DEF AnswersInv
<1>10. QED
  BY <1>7, <1>8, <1>9, AnswersLink

LEMMA AnswersOfSerialize ==
  ASSUME LinkInv, AnswersInv, Serialize
  PROVE  AnswersInv'
<1>1. /\ rsp # <<>> /\ piso' = <<Head(rsp)>> /\ rsp' = Tail(rsp)
      /\ UNCHANGED <<txq, net>> /\ rsp \in Seq(Response)
  BY DEF Serialize, LinkInv, TypeOK
<1>2. ASSUME Reading
      PROVE  /\ Brings(rsp', slot, call.addrs, written)
             /\ Head(rsp).data = written[call.addrs[slot[Head(rsp).id]]]
  BY <1>1, <1>2, BringsTail DEF AnswersInv
<1>3. Len(piso') = 1 /\ piso'[1] = Head(rsp)
  BY <1>1
<1>4. ASSUME Reading PROVE Brings(piso', slot, call.addrs, written)
  <2>1. ASSUME NEW k \in 1 .. Len(piso') PROVE k = 1
    BY <1>3
  <2>2. QED
    BY <1>2, <1>3, <1>4, <2>1 DEF Brings
<1>5. Reading => Asks(txq', slot, call.addrs) /\ \A d \in Dest : Asks(net'[d], slot, call.addrs)
  BY <1>1 DEF AnswersInv
<1>6. LinkStep
  BY DEF LinkStep
<1>7. QED
  BY <1>2, <1>4, <1>5, <1>6, AnswersLink

LEMMA AnswersOfLoad ==
  ASSUME LinkInv, LoadsInv, IdsInv, AnswersInv, RequestLoad
  PROVE  AnswersInv'
<1> DEFINE r == [op |-> "load", addr |-> NextWord, arg |-> Head(ids)]
           i == Head(ids)
           as == call.addrs
<1>1. /\ Reading /\ ids # <<>> /\ ids \in Seq(Id) /\ i \in Id /\ call' = call
      /\ slot' = [slot EXCEPT ![i] = sent + 1] /\ sent' = sent + 1
      /\ r \in Request /\ txq \in Seq(Request) /\ txq' = Append(txq, r)
      /\ UNCHANGED <<net, rsp, piso, written>>
  BY RequestLoadEffect DEF Reading
<1>2. r.op = "load" /\ r.addr = as[sent + 1] /\ r.arg = i
  BY DEF NextWord
<1>3. ~InFlight(i)
  <2>1. Len(ids) \in Nat \ {0} /\ i = ids[1]
    BY <1>1, Shifted
  <2>2. 1 \in 1 .. Len(ids)
    BY <2>1
  <2>3. QED
    BY <1>1, <2>1, <2>2, EachIdOnce
<1> HIDE DEF r, i
<1>4. /\ slot \in [Id -> 0 .. Words] /\ sent \in Nat /\ net \in [Dest -> Seq(Request)]
      /\ rsp \in Seq(Response) /\ piso \in Seq(Response)
  BY DEF LinkInv, TypeOK, CallInv
<1>5. slot'[i] = sent + 1 /\ \A id \in Id : id # i => slot'[id] = slot[id]
  BY <1>1, <1>4
<1>6. \A id \in Id : InFlight(id) => slot'[id] = slot[id]
  BY <1>3, <1>5
<1> HIDE DEF as
<1>7. /\ Asks(txq, slot, as) /\ \A d \in Dest : Asks(net[d], slot, as)
      /\ Brings(rsp, slot, as, written) /\ Brings(piso, slot, as, written)
  BY <1>1 DEF AnswersInv, as
<1>8. Asks(txq', slot', as)
  <2>1. Asks(txq, slot', as)
    BY <1>1, <1>6, <1>7, AsksOther, FlightParts
  <2>2. r.addr = as[slot'[r.arg]]
    BY <1>2, <1>5
  <2>3. QED
    BY <1>1, <2>1, <2>2, AsksAppend
<1>9. \A d \in Dest : Asks(net[d], slot', as)
  BY <1>4, <1>6, <1>7, AsksOther, FlightParts
<1>10. Brings(rsp, slot', as, written) /\ Brings(piso, slot', as, written)
  BY <1>4, <1>6, <1>7, BringsOther, FlightParts
<1>11. \A id \in Id : InFlight(id)' => slot'[id] \in 1 .. sent'
  <2>1. SUFFICES ASSUME NEW id \in Id, InFlight(id)' PROVE slot'[id] \in 1 .. sent'
    OBVIOUS
  <2>2. CASE id = i
    BY <1>1, <1>4, <1>5, <2>2
  <2>3. CASE id # i
    <3>1. InFlight(id)
      BY <2>1, <2>3, FlightOfLoad DEF i
    <3>2. slot[id] \in 1 .. sent
      BY <1>1, <3>1 DEF AnswersInv
    <3>3. QED
      BY <1>1, <1>4, <1>5, <2>3, <3>2
  <2>4. QED
    BY <2>2, <2>3
<1>12. as = call'.addrs
  BY <1>1 DEF as
<1>13. QED
  BY <1>1, <1>8, <1>9, <1>10, <1>11, <1>12 DEF AnswersInv

LEMMA AnswersOfReceive ==
  ASSUME LinkInv, LoadsInv, AnswersInv, ReceiveResponse
  PROVE  AnswersInv'
<1> DEFINE r == Head(piso)
<1>1. /\ pc = "response" /\ piso' = <<>> /\ UNCHANGED <<pc, call, sent, slot, txq, net, rsp, written>>
  BY ReceiveEffect
<1>2. \A id \in Id : InFlight(id)' => InFlight(id)
  BY FlightOfReceive
<1>3. Brings(piso', slot, call.addrs, written)
  BY <1>1 DEF Brings
<1>4. QED
  BY <1>1, <1>2, <1>3 DEF AnswersInv, Reading

\* At a call nothing is under way.
LEMMA AnswersOfCall ==
  ASSUME LinkInv, LoadsInv, NEW c \in Calls, Call(c)
  PROVE  AnswersInv'
<1>1. pc = "idle" /\ UNCHANGED link
  BY DEF Call
<1>2. Outstanding = 0
  BY <1>1 DEF LoadsInv, Reading
<1>3. \A id \in Id : ~InFlight(id)
  BY <1>2, NothingFlies
<1>4. \A id \in Id : ~InFlight(id)'
  BY <1>1, <1>3, FlightKept
<1>5. /\ txq \in Seq(Request) /\ net \in [Dest -> Seq(Request)]
      /\ rsp \in Seq(Response) /\ piso \in Seq(Response)
  BY DEF LinkInv, TypeOK
<1>6. ASSUME NEW q \in Seq(Request), \A id \in Id : ~LoadIn(q, id)
      PROVE  \A k \in 1 .. Len(q) : q[k].op # "load"
  <2>1. SUFFICES ASSUME NEW k \in 1 .. Len(q), q[k].op = "load" PROVE FALSE
    OBVIOUS
  <2>2. q[k] \in Request
    BY ElementOfSeq
  <2>3. q[k].arg \in Id /\ LoadIn(q, q[k].arg)
    BY <2>1, <2>2, RequestOps DEF LoadIn
  <2>4. QED
    BY <1>6, <2>3
<1>7. /\ \A k \in 1 .. Len(txq) : txq[k].op # "load"
      /\ \A d \in Dest : \A k \in 1 .. Len(net[d]) : net[d][k].op # "load"
  BY <1>3, <1>5, <1>6, FlightParts
<1>8. Len(rsp) = 0 /\ Len(piso) = 0
  <2>1. Answered = 0 /\ Held = 0
    BY <1>1, Counts DEF Reading
  <2>2. QED
    BY <2>1 DEF Answered, Held
<1>9. UNCHANGED <<txq, net, rsp, piso>>
  BY <1>1 DEF link
<1>10. /\ Asks(txq', slot', call'.addrs) /\ \A d \in Dest : Asks(net'[d], slot', call'.addrs)
  BY <1>7, <1>9 DEF Asks
<1>11. Brings(rsp', slot', call'.addrs, written') /\ Brings(piso', slot', call'.addrs, written')
  BY <1>8, <1>9 DEF Brings
<1>12. QED
  BY <1>4, <1>10, <1>11 DEF AnswersInv

LEMMA AnswersStep ==
  LinkInv /\ StoresInv /\ LoadsInv /\ IdsInv /\ OrderInv /\ AnswersInv /\ [Next]_vars => AnswersInv'
<1> SUFFICES ASSUME LinkInv, StoresInv, LoadsInv, IdsInv, OrderInv, AnswersInv, [Next]_vars
             PROVE  AnswersInv'
  OBVIOUS
<1>1. CASE LinkStep
  BY <1>1, AnswersOfDepart, AnswersOfServe, AnswersOfSerialize DEF LinkStep
<1>2. CASE ~RequestLoad /\ ~ReceiveResponse /\ ~(\E c \in Calls : Call(c)) /\ ~LinkStep
  <2>1. CASE Reading'
    <3>1. Reading /\ UNCHANGED <<call, sent, slot, link, written>>
      BY <1>2, <2>1, OtherStep
    <3>2. \A id \in Id : InFlight(id)' <=> InFlight(id)
      BY <3>1, FlightKept
    <3>3. UNCHANGED <<txq, net, rsp, piso>>
      BY <3>1 DEF link
    <3>4. QED
      BY <3>1, <3>2, <3>3 DEF AnswersInv
  <2>2. CASE ~Reading'
    BY <2>2 DEF AnswersInv
  <2>3. QED
    BY <2>1, <2>2
<1>3. QED
  BY <1>1, <1>2, AnswersOfLoad, AnswersOfReceive, AnswersOfCall

-----------------------------------------------------------------------------
(***************************************************************************)
(* The caller's buffer.                                                    *)
(***************************************************************************)

\* A word of the buffer holds what was last written there, or its load is under way.
BufferInv ==
  Reading => \A k \in 1 .. sent : \/ data[k] = written[call.addrs[k]]
                                  \/ \E id \in Id : InFlight(id) /\ slot[id] = k

LEMMA BufferOfLoad ==
  ASSUME LinkInv, LoadsInv, IdsInv, BufferInv, RequestLoad
  PROVE  BufferInv'
<1> DEFINE i == Head(ids)
<1>1. /\ Reading /\ ids # <<>> /\ ids \in Seq(Id) /\ i \in Id
      /\ slot' = [slot EXCEPT ![i] = sent + 1] /\ sent' = sent + 1
      /\ UNCHANGED <<call, data, written>>
  BY RequestLoadEffect DEF Reading
<1>2. ~InFlight(i)
  <2>1. Len(ids) \in Nat \ {0} /\ i = ids[1]
    BY <1>1, Shifted
  <2>2. 1 \in 1 .. Len(ids)
    BY <2>1
  <2>3. QED
    BY <1>1, <2>1, <2>2, EachIdOnce
<1>3. slot \in [Id -> 0 .. Words] /\ sent \in Nat
  BY DEF LinkInv, TypeOK, CallInv
<1>4. \A id \in Id : InFlight(id)' <=> InFlight(id) \/ id = i
  BY FlightOfLoad
<1> HIDE DEF i
<1>5. slot'[i] = sent + 1 /\ \A id \in Id : id # i => slot'[id] = slot[id]
  BY <1>1, <1>3
<1>6. SUFFICES ASSUME NEW k \in 1 .. sent'
               PROVE  \/ data[k] = written[call.addrs[k]]
                      \/ \E id \in Id : InFlight(id)' /\ slot'[id] = k
  BY <1>1 DEF BufferInv
<1>7. CASE k = sent + 1
  BY <1>1, <1>4, <1>5, <1>7
<1>8. CASE k # sent + 1
  <2>1. k \in 1 .. sent
    BY <1>1, <1>3, <1>8
  <2>2. data[k] = written[call.addrs[k]] \/ \E id \in Id : InFlight(id) /\ slot[id] = k
    BY <1>1, <2>1 DEF BufferInv
  <2>3. QED
    BY <1>2, <1>4, <1>5, <2>2
<1>9. QED
  BY <1>7, <1>8

\* The response goes to the word its id was taken for.
LEMMA BufferOfReceive ==
  ASSUME LinkInv, LoadsInv, AnswersInv, BufferInv, ReceiveResponse
  PROVE  BufferInv'
<1> DEFINE r == Head(piso)
           i == r.id
           j == slot[i]
<1>1. /\ r \in Response /\ Len(piso) = 1 /\ r = piso[1] /\ pc = "response" /\ Deliver(r)
      /\ UNCHANGED <<call, sent, slot, written>>
  BY ReceiveEffect
<1>2. Reading /\ i \in Id
  BY <1>1 DEF Reading, Response
<1>3. InFlight(i) /\ \A id \in Id : InFlight(id) => InFlight(id)' \/ id = i
  BY FlightOfReceive
<1>4. j \in 1 .. sent
  BY <1>2, <1>3 DEF AnswersInv
<1>5. /\ Words \in Nat /\ sent \in 0 .. Words /\ data \in [1 .. Words -> Value]
      /\ call.kind = "read" => Words = 1
  BY <1>1 DEF LinkInv, TypeOK, CallInv
<1>6. j # 0 /\ j \in 1 .. Words /\ (call.kind = "read" => j = 1)
  <2> HIDE DEF j
  <2>1. QED
    BY <1>4, <1>5
<1>7. data' = [data EXCEPT ![j] = r.data]
  BY <1>1, <1>6 DEF Deliver
<1>8. r.data = written[call.addrs[j]]
  <2>1. 1 \in 1 .. Len(piso)
    BY <1>1
  <2>2. Brings(piso, slot, call.addrs, written)
    BY <1>2 DEF AnswersInv
  <2>3. piso[1].data = written[call.addrs[slot[piso[1].id]]]
    BY <2>1, <2>2 DEF Brings
  <2>4. QED
    BY <1>1, <2>3
<1> HIDE DEF r
<1>9. SUFFICES ASSUME NEW k \in 1 .. sent
               PROVE  \/ data'[k] = written[call.addrs[k]]
                      \/ \E id \in Id : InFlight(id)' /\ slot[id] = k
  BY <1>1 DEF BufferInv
<1>10. CASE k = j
  <2> HIDE DEF j
  <2>1. data'[j] = r.data
    BY <1>5, <1>6, <1>7
  <2>2. QED
    BY <1>8, <1>10, <2>1
<1>11. CASE k # j
  <2>1. data[k] = written[call.addrs[k]] \/ \E id \in Id : InFlight(id) /\ slot[id] = k
    BY <1>2 DEF BufferInv
  <2>2. \A id \in Id : slot[id] = k => id # i
    BY <1>11
  <2> HIDE DEF i, j
  <2>3. data'[k] = data[k]
    BY <1>5, <1>7, <1>11
  <2>4. QED
    BY <1>3, <2>1, <2>2, <2>3
<1>12. QED
  BY <1>10, <1>11

LEMMA BufferStep ==
  LinkInv /\ LoadsInv /\ IdsInv /\ AnswersInv /\ BufferInv /\ [Next]_vars => BufferInv'
<1> SUFFICES ASSUME LinkInv, LoadsInv, IdsInv, AnswersInv, BufferInv, [Next]_vars PROVE BufferInv'
  OBVIOUS
<1>1. CASE LinkStep
  <2>1. UNCHANGED <<pc, call, sent, slot, data, written>>
    BY <1>1 DEF LinkStep, Depart, Serve, Serialize, local
  <2>2. \A id \in Id : InFlight(id)' <=> InFlight(id)
    BY <1>1, FlightOfLink
  <2>3. QED
    BY <2>1, <2>2 DEF BufferInv, Reading
<1>2. CASE ~RequestLoad /\ ~ReceiveResponse /\ ~(\E c \in Calls : Call(c)) /\ ~LinkStep
  <2>1. CASE Reading'
    <3>1. Reading /\ UNCHANGED <<call, sent, slot, data, link, written>>
      BY <1>2, <2>1, OtherStep
    <3>2. \A id \in Id : InFlight(id)' <=> InFlight(id)
      BY <3>1, FlightKept
    <3>3. QED
      BY <3>1, <3>2 DEF BufferInv
  <2>2. CASE ~Reading'
    BY <2>2 DEF BufferInv
  <2>3. QED
    BY <2>1, <2>2
<1>3. ASSUME NEW c \in Calls, Call(c) PROVE BufferInv'
  <2>1. sent' = 0
    BY <1>3 DEF Call
  <2>2. 1 .. sent' = {}
    BY <2>1
  <2>3. QED
    BY <2>2 DEF BufferInv
<1>4. QED
  BY <1>1, <1>2, <1>3, BufferOfLoad, BufferOfReceive

LEMMA ReturnStep ==
  LinkInv /\ LoadsInv /\ BufferInv /\ ReadsReturnMemory /\ [Next]_vars => ReadsReturnMemory'
<1> SUFFICES ASSUME LinkInv, LoadsInv, BufferInv, ReadsReturnMemory, [Next]_vars,
                    Succeeded({"read", "read_mem"})'
             PROVE  \A k \in 1 .. Words' : data'[k] = written'[call'.addrs[k]]
  BY DEF ReadsReturnMemory
<1>1. pc' = "idle" /\ result' = "SUCCESS" /\ call'.kind \in {"read", "read_mem"}
  BY DEF Succeeded
<1>2. CASE UNCHANGED <<pc, result, call, data, written>>
  BY <1>1, <1>2 DEF ReadsReturnMemory, Succeeded, Words
<1>3. CASE EndResponses
  <2>1. /\ pc = "response" /\ got = sent /\ sent = Words /\ Words' = Words
        /\ UNCHANGED <<call, data, written>>
    BY <1>1, <1>3 DEF EndResponses, Return, local, Words
  <2>2. Reading /\ Outstanding = sent - got
    BY <2>1 DEF Reading, LoadsInv
  <2>3. Outstanding = 0
    BY <2>1, <2>2, Counts
  <2>4. \A id \in Id : ~InFlight(id)
    BY <2>3, NothingFlies
  <2>5. QED
    BY <2>1, <2>2, <2>4 DEF BufferInv
<1>4. UNCHANGED <<pc, result, call, data, written>> \/ EndResponses
  <2>1. ~(Store \/ FenceTest)
    BY <1>1 DEF Store, FenceTest, Return, local, LinkInv, CallInv
  <2>2. ~Refuse /\ ~ReceiveResponse /\ ~(\E c \in Calls : Call(c))
    BY <1>1 DEF Refuse, ReceiveResponse, Call, Return
  <2>3. ~(UpdateRequests \/ HaveCapacity \/ EnterFence \/ FencePoll \/ RequestLoad \/ EndRequests)
    BY <1>1 DEF UpdateRequests, HaveCapacity, EnterFence, FencePoll, FenceReads, RequestLoad, EndRequests
  <2>4. LinkStep \/ UNCHANGED vars => UNCHANGED <<pc, result, call, data, written>>
    BY DEF LinkStep, Depart, Serve, Serialize, local, vars
  <2>5. QED
    BY <2>1, <2>2, <2>3, <2>4 DEF Next, HostStep
<1>5. QED
  BY <1>2, <1>3, <1>4

\* A read that succeeds returns, word for word, what the program last wrote: though requests to
\* different destinations overtake one another, responses arrive in any order, ids are reused, and
\* the writes before the read need not have been fenced.
THEOREM ReadsAreRight == WholeReads => (Spec => []ReadsReturnMemory)
<1> SUFFICES ASSUME WholeReads PROVE Spec => []ReadsReturnMemory
  OBVIOUS
<1> DEFINE Inv == StoresInv /\ OrderInv /\ AnswersInv /\ BufferInv /\ ReadsReturnMemory
<1>1. Init => Inv
  <2> SUFFICES ASSUME Init PROVE Inv
    OBVIOUS
  <2>1. pc = "idle" /\ result = "none" /\ txq = <<>> /\ \A d \in Dest : net[d] = <<>>
    BY DEF Init
  <2>2. OrderInv
    BY <2>1 DEF OrderInv, LoadsLast, OnlyLoads
  <2>3. QED
    BY <2>1, <2>2, InitStores DEF AnswersInv, BufferInv, Reading, ReadsReturnMemory, Succeeded
<1>2. LinkInv /\ LoadsInv /\ IdsInv /\ Inv /\ [Next]_vars => Inv'
  BY StoresStep, OrderStep, AnswersStep, BufferStep, ReturnStep
<1>3. Inv => ReadsReturnMemory
  OBVIOUS
<1>4. QED
  BY <1>1, <1>2, <1>3, LinkInvariant, LoadsInvariant, IdsInvariant, PTL DEF Spec

=============================================================================
