---------------------------- MODULE KnowledgeProofs ----------------------------
(***************************************************************************)
(* What the gateway stores and the worker finds, for any requests,         *)
(* documents, losses of Chroma's data and restarts.  WriterInv says what   *)
(* holds of every request and every stored document: the vectors of a      *)
(* request that got past the embedding are those of its own contents, the  *)
(* ids that anybody holds are ids Chroma gave out, and a write that landed *)
(* in the collection Chroma still has is there.  Everything the gateway    *)
(* does to one request is an instance of OneRequest.                       *)
(***************************************************************************)
EXTENDS AgentWorker, TLAPS

Own(u) == [i \in Indices(u) |-> Content(u, i)]

\* The ids Chroma gave out so far are 1 .. Latest.
Latest == IF chroma = 0 THEN losses ELSE Fresh

RequestOK(u, r) ==
  /\ r.pc \in {"new", "embedding", "locking", "resolving"} => r.write = "none"
  /\ r.pc \in {"locking", "resolving", "writing"} \/ r.write # "none" => r.vectors = Own(u)
  /\ r.pc = "writing" \/ r.write # "none" => r.collection # 0
  /\ r.collection <= Latest
  /\ r.answer = "ok" => r.write = "landed"
  /\ r.write = "landed" /\ r.collection = chroma =>
       \A i \in Indices(u) : stored[Documents[u][i]] # None

DocumentOK(d) ==
  stored[d] # None => /\ stored[d].vector = stored[d].content
                      /\ stored[d].content.doc = d
                      /\ req[stored[d].content.by].write = "landed"

WriterInv ==
  /\ TypeOK
  /\ chroma \in {0, Fresh} /\ collectionID <= Latest
  /\ \A d \in DocIds : DocumentOK(d)
  /\ \A u \in Upserts : RequestOK(u, req[u])

LEMMA DocumentTypes ==
  ASSUME NEW u \in Upserts, NEW i \in Indices(u)
  PROVE  Documents[u][i] \in DocIds /\ Content(u, i) \in Contents
<1>1. Documents[u][i] \in DocIds
  BY WriterAssumption DEF Indices
<1>2. QED
  BY <1>1 DEF Content, Contents

LEMMA OwnType ==
  ASSUME NEW u \in Upserts
  PROVE  Own(u) \in Seq(Contents) /\ Own(u) # << >>
<1>1. Len(Documents[u]) \in Nat /\ Len(Documents[u]) # 0
  BY WriterAssumption
<1>2. Own(u) \in [1 .. Len(Documents[u]) -> Contents]
  BY DocumentTypes DEF Own, Indices
<1>3. Own(u) \in Seq(Contents) /\ Len(Own(u)) = Len(Documents[u])
  BY <1>1, <1>2
<1>4. QED
  BY <1>1, <1>3

(* Embed() returns the vectors of the request's own contents in their      *)
(* places, or nothing, whatever labels the API sent.                       *)
LEMMA EmbedIsOwn ==
  ASSUME NEW u \in Upserts, NEW labels
  PROVE  Embed(u, labels) # << >> => Embed(u, labels) = Own(u)
<1>1. ASSUME \A i \in Indices(u) : \E k \in DOMAIN labels : labels[k] = i
      PROVE  [i \in Indices(u) |-> Content(u, labels[CHOOSE k \in DOMAIN labels : labels[k] = i])]
               = Own(u)
  <2>1. \A i \in Indices(u) : labels[CHOOSE k \in DOMAIN labels : labels[k] = i] = i
    BY <1>1
  <2>2. QED
    BY <2>1 DEF Own
<1>2. QED
  BY <1>1 DEF Embed

LEMMA InitInv == Init => WriterInv
<1>1. SUFFICES ASSUME Init PROVE WriterInv
  OBVIOUS
<1>2. TypeOK
  <2>1. << >> \in Seq(Contents)
    OBVIOUS
  <2>2. req \in [Upserts -> Request]
    BY <1>1, <2>1 DEF Init, Request
  <2>3. QED
    BY <1>1, <2>2, WriterAssumption DEF Init, TypeOK, Ids
<1>3. ASSUME NEW u \in Upserts PROVE RequestOK(u, req[u])
  BY <1>1, WriterAssumption DEF Init, RequestOK, Latest, Fresh
<1>4. QED
  BY <1>1, <1>2, <1>3, WriterAssumption DEF Init, WriterInv, DocumentOK, Latest, Fresh

LEMMA GetOrCreateIds ==
  ASSUME WriterInv, UNCHANGED losses, GetOrCreate \/ UNCHANGED chroma
  PROVE  /\ chroma' \in Ids \cup {0} /\ chroma' \in {0, Fresh'}
         /\ Latest \in Nat /\ Latest' \in Nat /\ Latest <= Latest'
         /\ chroma' # chroma => chroma' > Latest
         /\ chroma' # 0 => chroma' = Latest'
BY WriterAssumption DEF WriterInv, TypeOK, GetOrCreate, Latest, Fresh, Ids

(* A request goes on, and the collection may have been resolved.           *)
LEMMA OneRequest ==
  ASSUME WriterInv, NEW u \in Upserts, NEW r \in Request, Becomes(u, r),
         UNCHANGED <<stored, losses, restarts>>, GetOrCreate \/ UNCHANGED chroma,
         mu' \in Upserts \cup {None}, collectionID' \in Nat, collectionID' <= Latest',
         req[u].write = "landed" => r.write = "landed",
         RequestOK(u, r)'
  PROVE  WriterInv'
<1>1. /\ chroma' \in Ids \cup {0} /\ chroma' \in {0, Fresh'}
      /\ Latest \in Nat /\ Latest' \in Nat /\ Latest <= Latest'
      /\ chroma' # chroma => chroma' > Latest
  BY GetOrCreateIds
<1>2. req' = [req EXCEPT ![u] = r] /\ req \in [Upserts -> Request]
  BY DEF Becomes, WriterInv, TypeOK
<1>3. TypeOK'
  <2>1. Latest' \in Ids \cup {0}
    BY WriterAssumption, <1>1 DEF WriterInv, TypeOK, Latest, Fresh, Ids
  <2>2. collectionID' \in Ids \cup {0}
    BY <2>1, <1>1, WriterAssumption DEF Ids
  <2>3. QED
    BY <1>1, <1>2, <2>2 DEF WriterInv, TypeOK, DocIds, Indices
<1>4. ASSUME NEW d \in DocIds PROVE DocumentOK(d)'
  <2>1. SUFFICES ASSUME stored[d] # None
                 PROVE  /\ stored[d].vector = stored[d].content /\ stored[d].content.doc = d
                        /\ req'[stored[d].content.by].write = "landed"
    BY DEF DocumentOK
  <2>2. stored[d].content.by \in Upserts
    BY <2>1, <1>4 DEF WriterInv, TypeOK, Contents
  <2>3. QED
    BY <2>1, <2>2, <1>2, <1>4 DEF WriterInv, DocumentOK
<1>5. ASSUME NEW v \in Upserts PROVE RequestOK(v, req[v])'
  <2>1. CASE v = u
    BY <2>1, <1>2
  <2>2. CASE v # u
    <3>1. req'[v] = req[v] /\ RequestOK(v, req[v]) /\ req[v].collection \in Nat
      BY <2>2, <1>2, WriterAssumption DEF WriterInv, Request, Ids
    <3>2. req[v].collection = chroma' => chroma' = chroma
      BY <3>1, <1>1, WriterAssumption DEF RequestOK, WriterInv, TypeOK, Ids
    <3>3. QED
      BY <3>1, <3>2, <1>1 DEF RequestOK, Own, Indices, Content
  <2>3. QED
    BY <2>1, <2>2
<1>6. QED
  BY <1>1, <1>3, <1>4, <1>5 DEF WriterInv

-----------------------------------------------------------------------------
(* The steps of the writer.                                                *)

LEMMA RequestFacts ==
  ASSUME WriterInv, NEW u \in Upserts
  PROVE  /\ req[u] \in Request /\ RequestOK(u, req[u])
         /\ mu \in Upserts \cup {None} /\ collectionID \in Nat /\ collectionID <= Latest
BY WriterAssumption DEF WriterInv, TypeOK, Ids

(* The same where Chroma is left alone and the cached id with it.          *)
LEMMA QuietRequest ==
  ASSUME WriterInv, NEW u \in Upserts, NEW r \in Request, Becomes(u, r), RequestOK(u, r),
         UNCHANGED <<collectionID, chroma, stored, losses, restarts>>,
         mu' \in Upserts \cup {None},
         req[u].write = "landed" => r.write = "landed"
  PROVE  WriterInv'
<1>1. Latest' = Latest
  BY DEF Latest, Fresh
<1>2. RequestOK(u, r)'
  BY <1>1 DEF RequestOK, Own, Indices, Content
<1>3. QED
  BY <1>1, <1>2, RequestFacts, OneRequest

LEMMA PostInv ==
  ASSUME WriterInv, NEW u \in Upserts, Post(u)
  PROVE  WriterInv'
<1>1. PICK r : r = [req[u] EXCEPT !.pc = "embedding"]
  OBVIOUS
<1>2. r \in Request /\ RequestOK(u, r) /\ r.write = req[u].write
  BY <1>1, RequestFacts DEF Request, RequestOK, Post
<1>3. QED
  BY <1>1, <1>2, RequestFacts, QuietRequest DEF Post

LEMMA AnsweredError ==
  ASSUME WriterInv, NEW u \in Upserts
  PROVE  /\ Answered(req[u], "error") \in Request /\ RequestOK(u, Answered(req[u], "error"))
         /\ Answered(req[u], "error").write = req[u].write
BY RequestFacts DEF Answered, Request, RequestOK

LEMMA EmbedAnswersInv ==
  ASSUME WriterInv, NEW u \in Upserts, EmbedAnswers(u)
  PROVE  WriterInv'
<1>1. PICK labels \in Responses(u) :
        Becomes(u, IF Embed(u, labels) = << >> THEN Answered(req[u], "error")
                   ELSE [req[u] EXCEPT !.pc = "locking", !.vectors = Embed(u, labels)])
  BY DEF EmbedAnswers
<1>2. PICK r : r = IF Embed(u, labels) = << >> THEN Answered(req[u], "error")
                   ELSE [req[u] EXCEPT !.pc = "locking", !.vectors = Embed(u, labels)]
  OBVIOUS
<1>3. r \in Request /\ RequestOK(u, r) /\ r.write = req[u].write
  <2>1. CASE Embed(u, labels) = << >>
    BY <2>1, <1>2, AnsweredError
  <2>2. CASE Embed(u, labels) # << >>
    <3>1. r = [req[u] EXCEPT !.pc = "locking", !.vectors = Own(u)] /\ Own(u) \in Seq(Contents)
      BY <2>2, <1>2, EmbedIsOwn, OwnType
    <3>2. QED
      BY <3>1, RequestFacts DEF Request, RequestOK, EmbedAnswers
  <2>3. QED
    BY <2>1, <2>2
<1>4. QED
  BY <1>1, <1>2, <1>3, RequestFacts, QuietRequest DEF EmbedAnswers

LEMMA LockInv ==
  ASSUME WriterInv, NEW u \in Upserts, Lock(u)
  PROVE  WriterInv'
<1>1. CASE collectionID # 0
  <2>1. PICK r : r = [req[u] EXCEPT !.pc = "writing", !.collection = collectionID]
    OBVIOUS
  <2>2. r \in Request /\ r.write = req[u].write
    BY <2>1, RequestFacts DEF Request, WriterInv, TypeOK
  <2>3. RequestOK(u, r)
    BY <1>1, <2>1, RequestFacts DEF Request, RequestOK, Lock
  <2>4. QED
    BY <1>1, <2>1, <2>2, <2>3, RequestFacts, QuietRequest DEF Lock
<1>2. CASE collectionID = 0
  <2>1. PICK r : r = [req[u] EXCEPT !.pc = "resolving"]
    OBVIOUS
  <2>2. r \in Request /\ RequestOK(u, r) /\ r.write = req[u].write
    BY <2>1, RequestFacts DEF Request, RequestOK, Lock
  <2>3. QED
    BY <1>2, <2>1, <2>2, RequestFacts, QuietRequest DEF Lock
<1>3. QED
  BY <1>1, <1>2

LEMMA ResolvesInv ==
  ASSUME WriterInv, NEW u \in Upserts, Resolves(u)
  PROVE  WriterInv'
<1>1. PICK r : r = [req[u] EXCEPT !.pc = "writing", !.collection = chroma']
  OBVIOUS
<1>2. /\ chroma' \in Ids /\ chroma' = Latest' /\ Latest' \in Nat
  BY GetOrCreateIds, WriterAssumption DEF Resolves, GetOrCreate, Ids, Fresh, WriterInv, TypeOK
<1>3. r \in Request /\ r.write = req[u].write
  BY <1>1, <1>2, RequestFacts DEF Request
<1>4. RequestOK(u, r)'
  BY <1>1, <1>2, RequestFacts DEF Request, RequestOK, Resolves, Ids, Own, Indices, Content
<1>5. collectionID' \in Nat /\ collectionID' <= Latest' /\ mu' \in Upserts \cup {None}
  BY <1>2 DEF Resolves, Ids
<1>6. req[u].write = "none"
  BY RequestFacts DEF Resolves, RequestOK
<1>7. QED
  BY <1>1, <1>3, <1>4, <1>5, <1>6, OneRequest DEF Resolves

LEMMA ResolveFailsInv ==
  ASSUME WriterInv, NEW u \in Upserts, ResolveFails(u)
  PROVE  WriterInv'
<1>1. PICK r : r = Answered(req[u], "error")
  OBVIOUS
<1>2. r \in Request /\ RequestOK(u, r) /\ r.write = "none" /\ req[u].write = "none"
  BY <1>1, AnsweredError, RequestFacts DEF ResolveFails, RequestOK
<1>3. RequestOK(u, r)' /\ Latest' \in Nat /\ Latest <= Latest'
  <2>1. Latest \in Nat /\ Latest' \in Nat /\ Latest <= Latest'
    BY GetOrCreateIds DEF ResolveFails
  <2>2. QED
    BY <1>2, <2>1, WriterAssumption DEF RequestOK, Own, Indices, Content, Request, Ids
<1>4. QED
  BY <1>1, <1>2, <1>3, RequestFacts, OneRequest, GetOrCreateIds DEF ResolveFails

LEMMA SendWriteInv ==
  ASSUME WriterInv, NEW u \in Upserts, SendWrite(u)
  PROVE  WriterInv'
<1>1. PICK r : r = [req[u] EXCEPT !.write = "sent"]
  OBVIOUS
<1>2. r \in Request /\ RequestOK(u, r)
  BY <1>1, RequestFacts DEF Request, RequestOK, SendWrite
<1>3. QED
  BY <1>1, <1>2, RequestFacts, QuietRequest DEF SendWrite

LEMMA WriteAnsweredInv ==
  ASSUME WriterInv, NEW u \in Upserts, WriteAnswered(u)
  PROVE  WriterInv'
<1>1. PICK r : r = Answered(req[u], "ok")
  OBVIOUS
<1>2. r \in Request /\ RequestOK(u, r) /\ r.write = "landed"
  BY <1>1, RequestFacts DEF Request, RequestOK, WriteAnswered, Answered
<1>3. QED
  BY <1>1, <1>2, RequestFacts, QuietRequest DEF WriteAnswered

LEMMA FailsInv ==
  ASSUME WriterInv, NEW u \in Upserts, Fails(u)
  PROVE  WriterInv'
<1>1. PICK r : r = Answered(req[u], "error")
  OBVIOUS
<1>2. QED
  BY <1>1, AnsweredError, RequestFacts, QuietRequest DEF Fails

(* The write of a request replaces its documents by its own, each with its *)
(* vector.                                                                 *)
LEMMA WriteLandsInv ==
  ASSUME WriterInv, NEW u \in Upserts, WriteLands(u)
  PROVE  WriterInv'
<1>1. PICK r : r = [req[u] EXCEPT !.write = "landed"]
  OBVIOUS
<1>2. /\ r \in Request /\ r.vectors = Own(u) /\ r.collection = req[u].collection
      /\ req[u].vectors = Own(u)
  BY <1>1, RequestFacts DEF Request, RequestOK, WriteLands
<1>3. req' = [req EXCEPT ![u] = r] /\ req \in [Upserts -> Request]
  BY <1>1 DEF WriteLands, Becomes, WriterInv, TypeOK
<1>4. ASSUME NEW d \in DocIds, \E i \in Indices(u) : Documents[u][i] = d
      PROVE  \E i \in Indices(u) :
               /\ Documents[u][i] = d
               /\ stored'[d] = [content |-> Content(u, i), vector |-> Content(u, i)]
  <2> DEFINE i == CHOOSE j \in Indices(u) : Documents[u][j] = d
  <2>1. i \in Indices(u) /\ Documents[u][i] = d
    BY <1>4
  <2>2. stored'[d] = [content |-> Content(u, i), vector |-> req[u].vectors[i]]
    BY <1>4 DEF WriteLands
  <2>3. req[u].vectors[i] = Content(u, i)
    BY <1>2, <2>1 DEF Own
  <2> HIDE DEF i
  <2>4. QED
    BY <2>1, <2>2, <2>3
<1>5. ASSUME NEW d \in DocIds, ~ \E i \in Indices(u) : Documents[u][i] = d
      PROVE  stored'[d] = stored[d]
  BY <1>5 DEF WriteLands
<1>6. Latest' = Latest
  BY DEF WriteLands, Latest, Fresh
<1>7. ASSUME NEW d \in DocIds
      PROVE  stored'[d] \in [content : Contents, vector : Contents] \cup {None}
  <2>1. CASE \E i \in Indices(u) : Documents[u][i] = d
    <3>1. PICK i \in Indices(u) :
            stored'[d] = [content |-> Content(u, i), vector |-> Content(u, i)]
      BY <2>1, <1>4
    <3>2. Content(u, i) \in Contents
      BY DocumentTypes
    <3>3. QED
      BY <3>1, <3>2
  <2>2. CASE ~ \E i \in Indices(u) : Documents[u][i] = d
    BY <2>2, <1>5 DEF WriterInv, TypeOK
  <2>3. QED
    BY <2>1, <2>2
<1>8. TypeOK'
  <2>1. stored' \in [DocIds -> [content : Contents, vector : Contents] \cup {None}]
    BY <1>7 DEF WriteLands
  <2>2. QED
    BY <1>2, <1>3, <2>1 DEF WriteLands, WriterInv, TypeOK, Request, Contents, DocIds, Indices, Ids
<1>9. ASSUME NEW d \in DocIds PROVE DocumentOK(d)'
  <2>1. CASE \E i \in Indices(u) : Documents[u][i] = d
    <3>1. stored'[d].vector = stored'[d].content /\ stored'[d].content.doc = d
          /\ stored'[d].content.by = u
      <4>1. PICK i \in Indices(u) :
              /\ Documents[u][i] = d
              /\ stored'[d] = [content |-> Content(u, i), vector |-> Content(u, i)]
        BY <2>1, <1>4
      <4>2. QED
        BY <4>1 DEF Content
    <3>2. req'[u].write = "landed"
      BY <1>1, <1>3, RequestFacts DEF Request
    <3>3. QED
      BY <3>1, <3>2 DEF DocumentOK
  <2>2. CASE ~ \E i \in Indices(u) : Documents[u][i] = d
    <3>1. stored'[d] = stored[d] /\ DocumentOK(d)
      BY <2>2, <1>5 DEF WriterInv
    <3>2. stored[d] # None => stored[d].content.by \in Upserts
      BY DEF WriterInv, TypeOK, Contents
    <3>3. \A v \in Upserts : req[v].write = "landed" => req'[v].write = "landed"
      BY <1>1, <1>3, RequestFacts DEF Request
    <3>4. QED
      BY <3>1, <3>2, <3>3 DEF DocumentOK
  <2>3. QED
    BY <2>1, <2>2
<1>10. ASSUME NEW v \in Upserts PROVE RequestOK(v, req[v])'
  <2>1. ASSUME NEW i \in Indices(v), stored[Documents[v][i]] # None \/ v = u
        PROVE  stored'[Documents[v][i]] # None
    <3>1. Documents[v][i] \in DocIds
      BY DocumentTypes
    <3>2. CASE \E j \in Indices(u) : Documents[u][j] = Documents[v][i]
      <4>1. PICK j \in Indices(u) :
              stored'[Documents[v][i]] = [content |-> Content(u, j), vector |-> Content(u, j)]
        BY <3>1, <3>2, <1>4
      <4>2. Content(u, j) \in Contents
        BY DocumentTypes
      <4>3. QED
        BY <4>1, <4>2, WriterAssumption
    <3>3. CASE ~ \E j \in Indices(u) : Documents[u][j] = Documents[v][i]
      BY <2>1, <3>1, <3>3, <1>5
    <3>4. QED
      BY <3>2, <3>3
  <2>2. CASE v = u
    <3>1. req'[v] = r /\ RequestOK(v, req[v]) /\ req[u].write = "sent"
      BY <2>2, <1>3, RequestFacts DEF WriteLands
    <3>2. /\ r.pc = req[u].pc /\ r.answer = req[u].answer /\ r.write = "landed"
          /\ r.vectors = Own(u) /\ r.collection = req[u].collection
      BY <1>1, <1>2, RequestFacts DEF Request
    <3>3. \A i \in Indices(v) : stored'[Documents[v][i]] # None
      BY <2>1, <2>2
    <3>4. /\ r.pc \notin {"new", "embedding", "locking", "resolving"} /\ r.collection # 0
          /\ r.collection <= Latest
      BY <2>2, <3>1, <3>2 DEF RequestOK
    <3>5. QED
      BY <1>6, <2>2, <3>1, <3>2, <3>3, <3>4 DEF RequestOK
  <2>3. CASE v # u
    <3>1. req'[v] = req[v] /\ RequestOK(v, req[v])
      BY <2>3, <1>3 DEF WriterInv
    <3>2. QED
      BY <1>6, <2>1, <3>1 DEF RequestOK, Own, Indices, Content, WriteLands
  <2>4. QED
    BY <2>2, <2>3
<1>11. QED
  BY <1>6, <1>8, <1>9, <1>10 DEF WriterInv, WriteLands, Fresh

LEMMA ChromaComesBackEmptyInv ==
  ASSUME WriterInv, ChromaComesBackEmpty
  PROVE  WriterInv'
<1>1. chroma = Fresh /\ chroma' = 0 /\ losses' = Fresh /\ losses' \in 0 .. MaxLosses
  BY WriterAssumption DEF ChromaComesBackEmpty, WriterInv, TypeOK, Fresh
<1>2. Latest' = Latest
  BY <1>1 DEF Latest, ChromaComesBackEmpty
<1>3. TypeOK'
  BY <1>1 DEF ChromaComesBackEmpty, WriterInv, TypeOK
<1>4. \A d \in DocIds : DocumentOK(d)'
  BY DEF ChromaComesBackEmpty, DocumentOK
<1>5. ASSUME NEW u \in Upserts PROVE RequestOK(u, req[u])'
  BY <1>1, <1>2, RequestFacts DEF ChromaComesBackEmpty, RequestOK
<1>6. QED
  BY <1>1, <1>2, <1>3, <1>4, <1>5 DEF WriterInv, ChromaComesBackEmpty

LEMMA GatewayRestartsInv ==
  ASSUME WriterInv, GatewayRestarts
  PROVE  WriterInv'
<1>1. Latest' = Latest /\ Latest \in Nat
  BY GetOrCreateIds DEF GatewayRestarts, Latest, Fresh
<1>2. ASSUME NEW u \in Upserts
      PROVE  /\ req'[u] \in Request /\ req'[u].write = req[u].write
             /\ RequestOK(u, req[u])'
  <2>1. PICK r : r = req'[u]
    OBVIOUS
  <2>2. r \in Request /\ r.write = req[u].write /\ RequestOK(u, r)
    BY <2>1, AnsweredError, RequestFacts DEF GatewayRestarts
  <2>3. QED
    BY <1>1, <2>1, <2>2 DEF RequestOK, GatewayRestarts
<1>3. TypeOK'
  BY <1>2, WriterAssumption DEF GatewayRestarts, WriterInv, TypeOK
<1>4. ASSUME NEW d \in DocIds PROVE DocumentOK(d)'
  BY <1>2 DEF GatewayRestarts, WriterInv, TypeOK, DocumentOK, Contents
<1>5. QED
  BY <1>1, <1>2, <1>3, <1>4 DEF WriterInv, GatewayRestarts, Fresh

(* The worker opens the collection.                                        *)
LEMMA WorkerOpensInv ==
  ASSUME WriterInv, GetOrCreate,
         UNCHANGED <<req, mu, collectionID, stored, losses, restarts>>
  PROVE  WriterInv'
<1>1. /\ chroma' \in Ids \cup {0} /\ chroma' \in {0, Fresh'}
      /\ Latest \in Nat /\ Latest' \in Nat /\ Latest <= Latest'
      /\ chroma' # chroma => chroma' > Latest
  BY GetOrCreateIds
<1>2. TypeOK'
  BY <1>1 DEF WriterInv, TypeOK
<1>3. \A d \in DocIds : DocumentOK(d)'
  BY DEF WriterInv, DocumentOK
<1>4. ASSUME NEW u \in Upserts PROVE RequestOK(u, req[u])'
  <2>1. RequestOK(u, req[u]) /\ req[u].collection \in Nat
    BY RequestFacts DEF Request, Ids
  <2>2. req[u].collection = chroma' => chroma' = chroma
    BY <2>1, <1>1 DEF RequestOK, WriterInv, TypeOK, Ids
  <2>3. QED
    BY <1>1, <2>1, <2>2 DEF RequestOK
<1>5. QED
  BY <1>1, <1>2, <1>3, <1>4, RequestFacts DEF WriterInv, TypeOK, Ids

LEMMA WriterStill ==
  ASSUME WriterInv, UNCHANGED vars
  PROVE  WriterInv'
<1>1. Latest' = Latest /\ Fresh' = Fresh
  BY DEF vars, Latest, Fresh
<1>2. TypeOK' /\ \A d \in DocIds : DocumentOK(d)'
  BY DEF vars, WriterInv, TypeOK, DocumentOK
<1>3. \A u \in Upserts : RequestOK(u, req[u])'
  BY <1>1 DEF vars, WriterInv, RequestOK
<1>4. QED
  BY <1>1, <1>2, <1>3 DEF vars, WriterInv

LEMMA WriterNextInv ==
  ASSUME WriterInv, Next
  PROVE  WriterInv'
<1>1. ASSUME NEW u \in Upserts, Post(u) \/ UpsertStep(u) \/ WriteLands(u)
      PROVE  WriterInv'
  BY <1>1, PostInv, EmbedAnswersInv, LockInv, ResolvesInv, ResolveFailsInv, SendWriteInv,
     WriteAnsweredInv, FailsInv, WriteLandsInv DEF UpsertStep
<1>2. QED
  BY <1>1, ChromaComesBackEmptyInv, GatewayRestartsInv DEF Next

-----------------------------------------------------------------------------
(* What the invariant says of the whole system.                            *)

(* The worker leaves to the writer's state what the writer's actions leave *)
(* it, opening the collection apart.                                       *)
LEMMA WorkerNextInv ==
  ASSUME WriterInv, [WorkerNext]_workerVars
  PROVE  WriterInv'
<1>1. CASE WriterStep
  BY <1>1, WriterNextInv DEF WriterStep
<1>2. ASSUME NEW s \in Deployments, Boots(s)
      PROVE  WriterInv'
  BY <1>2, WriterStill DEF Boots
<1>3. CASE OpensCollection
  BY <1>3, WorkerOpensInv DEF OpensCollection
<1>4. CASE LoadsTools
  BY <1>4, WriterStill DEF LoadsTools
<1>5. CASE Exits
  <2>1. CASE UNCHANGED chroma
    BY <1>5, <2>1, WriterStill DEF Exits, vars
  <2>2. CASE GetOrCreate
    BY <1>5, <2>2, WorkerOpensInv DEF Exits
  <2>3. QED
    BY <1>5, <2>1, <2>2 DEF Exits
<1>6. CASE NodeStep
  BY <1>6, WriterStill
  DEF NodeStep, Classifies, Retrieves, Plans, ExecutesReadTools, Drafts, Goes
<1>7. CASE UNCHANGED workerVars
  BY <1>7, WriterStill DEF workerVars
<1>8. QED
  BY <1>1, <1>2, <1>3, <1>4, <1>5, <1>6, <1>7 DEF WorkerNext, ProcessStep

LEMMA WriterInvariant == WorkerSpec => []WriterInv
<1>1. WorkerInit => WriterInv
  BY InitInv DEF WorkerInit
<1>2. WriterInv /\ [WorkerNext]_workerVars => WriterInv'
  BY WorkerNextInv
<1>3. QED
  BY <1>1, <1>2, PTL DEF WorkerSpec

(* No document is stored with the vector of another, or of another version *)
(* of itself, in whatever order vectors and requests arrive.               *)
THEOREM VectorsBelong == WorkerSpec => []VectorsMatch
<1>1. WriterInv => VectorsMatch
  BY DEF WriterInv, DocumentOK, VectorsMatch
<1>2. QED
  BY <1>1, WriterInvariant, PTL

(* What a caller was told is stored is in the collection, as long as that  *)
(* is the one Chroma has.                                                  *)
THEOREM OkIsStored == WorkerSpec => []OkMeansSearchable
<1>1. WriterInv => OkMeansSearchable
  BY DEF WriterInv, RequestOK, OkMeansSearchable
<1>2. QED
  BY <1>1, WriterInvariant, PTL

-----------------------------------------------------------------------------
(* The worker and its ticket.                                              *)

Tools == {<< >>} \cup {create(mcp) : mcp \in McpOffers \cup {{}}}

WorkerRecord ==
  [pc : {"down", "collection", "tools", "polling"}, settings : Deployments \cup {None},
   collection : Ids \cup {0}, tools : Tools, others : BOOLEAN]

TicketRecord ==
  [pc : {"classify", "retrieve", "plan", "execute_read_tools", "draft", "drafted"},
   message : Messages, faked : BOOLEAN, category : Categories \cup {None},
   documents : SUBSET Contents, plan : PlanActions \cup {None},
   results : SUBSET {"lookup_order"}, draft : Citations \cup {None}]

ProcessInv ==
  /\ worker \in WorkerRecord /\ boots \in 0 .. MaxBoots
  /\ worker.pc \in {"tools", "polling"} => worker.collection # 0
  /\ worker.pc # "down" => worker.settings \in Deployments /\ ~Rejected(worker.settings)
  /\ worker.pc = "polling" => "lookup_order" \in DOMAIN worker.tools

(* As long as only the demo model answered, the plan is the one for the    *)
(* classification, and the shipping policy was cited for a word of the     *)
(* prompt.                                                                 *)
TicketInv ==
  /\ ticket \in TicketRecord
  /\ \A c \in ticket.documents : req[c.by].write = "landed"
  /\ ticket.pc \in {"execute_read_tools", "draft", "drafted"} /\ ticket.faked =>
       ticket.plan = planned(ticket.category)
  /\ ticket.pc \in {"draft", "drafted"} => ticket.results = tool_results(ticket)
  /\ ticket.pc # "drafted" => ticket.draft = None
  /\ ticket.draft = "shipping-policy" /\ ticket.faked =>
       {"shipping", "lookup_order"} \cap Prompt(ticket) # {}

LEMMA ToolsOfCreate ==
  ASSUME NEW mcp PROVE "lookup_order" \in DOMAIN create(mcp)
BY DEF create, Local

LEMMA ProcessInit == WorkerInit => ProcessInv
BY WorkerAssumption DEF WorkerInit, ProcessInv, WorkerRecord, Down, Tools

LEMMA ProcessNext ==
  ASSUME WriterInv, ProcessInv, [WorkerNext]_workerVars
  PROVE  ProcessInv'
<1>1. ASSUME NEW s \in Deployments, Boots(s)
      PROVE  ProcessInv'
  <2>1. boots' \in 0 .. MaxBoots
    BY <1>1, WorkerAssumption DEF Boots, ProcessInv
  <2>2. CASE Rejected(s)
    BY <1>1, <2>1, <2>2 DEF Boots, ProcessInv, WorkerRecord, Down, Tools
  <2>3. CASE ~Rejected(s)
    <3>1. PICK others \in BOOLEAN :
            worker' = [pc |-> "collection", settings |-> s, collection |-> 0, tools |-> << >>,
                       others |-> others]
      BY <1>1, <2>3 DEF Boots, Down
    <3>2. worker' \in WorkerRecord
      BY <3>1 DEF WorkerRecord, Tools
    <3>3. worker'.settings = s /\ worker'.pc = "collection"
      BY <3>1
    <3>4. QED
      BY <2>1, <2>3, <3>2, <3>3 DEF ProcessInv, Rejected
  <2>4. QED
    BY <2>2, <2>3
<1>2. CASE OpensCollection
  <2>1. chroma' \in Ids
    BY WriterAssumption, <1>2
    DEF OpensCollection, GetOrCreate, WriterInv, TypeOK, Ids, Fresh
  <2>2. QED
    <3>1. worker' = [worker EXCEPT !.pc = "tools", !.collection = chroma']
      BY <1>2 DEF OpensCollection
    <3>2. worker' \in WorkerRecord
      BY <2>1, <3>1 DEF ProcessInv, WorkerRecord
    <3>3. worker'.settings = worker.settings /\ worker'.pc = "tools" /\ worker'.collection # 0
      BY <2>1, <3>1 DEF ProcessInv, WorkerRecord, Ids
    <3>4. worker.settings \in Deployments /\ ~Rejected(worker.settings)
      BY <1>2 DEF OpensCollection, ProcessInv
    <3>5. QED
      BY <1>2, <3>2, <3>3, <3>4 DEF OpensCollection, ProcessInv, Rejected
<1>3. CASE LoadsTools
  <2>1. PICK mcp \in McpOffers \cup {{}} :
          worker' = [worker EXCEPT !.pc = "polling", !.tools = create(mcp), !.others = FALSE]
    BY <1>3 DEF LoadsTools
  <2>2. create(mcp) \in Tools /\ "lookup_order" \in DOMAIN create(mcp)
    BY ToolsOfCreate DEF Tools
  <2>3. QED
    BY <1>3, <2>1, <2>2 DEF LoadsTools, ProcessInv, WorkerRecord, Rejected
<1>4. CASE Exits
  BY <1>4 DEF Exits, ProcessInv, WorkerRecord, Down, Tools
<1>5. CASE UNCHANGED <<worker, boots>>
  BY <1>5 DEF ProcessInv
<1>6. QED
  BY <1>1, <1>2, <1>3, <1>4, <1>5
  DEF WorkerNext, ProcessStep, WriterStep, NodeStep, Classifies, Retrieves, Plans,
      ExecutesReadTools, Drafts, Goes, workerVars

(* A write that landed has landed, whatever happens to its request.        *)
LEMMA LandedStays ==
  ASSUME WriterInv, Next, NEW u \in Upserts, req[u].write = "landed"
  PROVE  req'[u].write = "landed"
<1>1. req \in [Upserts -> Request]
  BY DEF WriterInv, TypeOK
<1>2. ASSUME NEW v \in Upserts, Post(v) \/ UpsertStep(v) \/ WriteLands(v)
      PROVE  req'[u].write = "landed"
  <2>1. CASE v # u
    BY <1>1, <1>2, <2>1
    DEF Post, UpsertStep, EmbedAnswers, Lock, Resolves, ResolveFails, SendWrite, WriteAnswered,
        Fails, WriteLands, Becomes
  <2>2. CASE v = u
    <3>1. req[u] \in Request
      BY <1>1
    <3>2. CASE Post(u) \/ Lock(u) \/ Resolves(u)
      BY <1>1, <3>1, <3>2 DEF Post, Lock, Resolves, Becomes, Request
    <3>3. CASE EmbedAnswers(u)
      BY <1>1, <3>1, <3>3 DEF EmbedAnswers, Becomes, Answered, Request
    <3>4. CASE ResolveFails(u) \/ WriteAnswered(u) \/ Fails(u)
      BY <1>1, <3>1, <3>4 DEF ResolveFails, WriteAnswered, Fails, Becomes, Answered, Request
    <3>5. CASE SendWrite(u) \/ WriteLands(u)
      BY <1>1, <3>1, <3>5 DEF SendWrite, WriteLands, Becomes, Request
    <3>6. QED
      BY <1>2, <2>2, <3>2, <3>3, <3>4, <3>5 DEF UpsertStep
  <2>3. QED
    BY <2>1, <2>2
<1>3. CASE GatewayRestarts
  BY <1>1, <1>3 DEF GatewayRestarts, Answered, Request
<1>4. CASE ChromaComesBackEmpty
  BY <1>4 DEF ChromaComesBackEmpty
<1>5. QED
  BY <1>2, <1>3, <1>4 DEF Next

LEMMA TicketInit == WorkerInit => TicketInv
<1>1. SUFFICES ASSUME WorkerInit PROVE TicketInv
  OBVIOUS
<1>2. PICK m \in Messages : ticket = Ticket(m)
  BY <1>1 DEF WorkerInit
<1>3. ticket \in TicketRecord
  BY <1>2 DEF Ticket, TicketRecord
<1>4. ticket.pc = "classify" /\ ticket.documents = {} /\ ticket.draft = None
  BY <1>2 DEF Ticket
<1>5. QED
  BY <1>3, <1>4, WorkerAssumption DEF TicketInv, Citations

(* A node leaves the writer alone, and what it found was stored.           *)
LEMMA NodeStepKeeps ==
  ASSUME WriterInv, TicketInv, NodeStep
  PROVE  TicketInv'
<1>0. ticket \in TicketRecord
  BY DEF TicketInv
<1>1. CASE Classifies
  <2>1. PICK category \in Categories, faked \in BOOLEAN :
          ticket' = [ticket EXCEPT !.pc = "retrieve", !.category = category, !.faked = faked]
    <3>1. \A words : classify(words) \in Categories
      BY DEF classify, Categories
    <3>2. \A r \in Replies : r.category \in Categories
      BY WorkerAssumption
    <3>3. QED
      BY <1>0, <1>1, <3>1, <3>2 DEF Classifies, Goes
  <2>2. req' = req /\ ticket.pc = "classify"
    BY <1>1 DEF Classifies, Goes, vars, Node
  <2>3. ticket' \in TicketRecord
    BY <1>0, <2>1 DEF TicketRecord
  <2>4. ticket'.pc = "retrieve" /\ ticket'.documents = ticket.documents /\ ticket'.draft = None
    BY <1>0, <2>1, <2>2 DEF TicketRecord, TicketInv
  <2>5. QED
    BY <2>2, <2>3, <2>4, WorkerAssumption DEF TicketInv, Citations
<1>2. CASE Retrieves
  <2>1. PICK documents \in SUBSET Found :
          ticket' = [ticket EXCEPT !.pc = "plan", !.documents = documents]
    BY <1>2 DEF Retrieves, Goes, Search
  <2>2. req' = req /\ ticket.pc = "retrieve"
    BY <1>2 DEF Retrieves, Goes, vars, Node
  <2>3. \A c \in Found : c \in Contents /\ req[c.by].write = "landed"
    BY DEF Found, WriterInv, DocumentOK, TypeOK
  <2>4. ticket' \in TicketRecord
    BY <1>0, <2>1, <2>3 DEF TicketRecord
  <2>5. ticket'.pc = "plan" /\ ticket'.documents = documents /\ ticket'.draft = None
    BY <1>0, <2>1, <2>2 DEF TicketRecord, TicketInv
  <2>6. QED
    BY <2>2, <2>3, <2>4, <2>5, WorkerAssumption DEF TicketInv, Citations
<1>3. CASE Plans
  <2>1. PICK plan \in PlanActions, faked \in BOOLEAN :
          /\ ticket' = [ticket EXCEPT !.pc = "execute_read_tools", !.plan = plan, !.faked = faked]
          /\ faked => plan = planned(ticket.category)
    <3>1. planned(ticket.category) \in PlanActions
      BY DEF planned, PlanActions
    <3>2. \A r \in Replies : r.plan \in PlanActions
      BY WorkerAssumption
    <3>3. CASE Fake
      BY <1>0, <1>3, <3>1, <3>3 DEF Plans, Goes
    <3>4. CASE ~Fake
      BY <1>0, <1>3, <3>2, <3>4 DEF Plans, Goes
    <3>5. QED
      BY <3>3, <3>4
  <2>2. req' = req /\ ticket.pc = "plan"
    BY <1>3 DEF Plans, Goes, vars, Node
  <2>3. ticket' \in TicketRecord
    BY <1>0, <2>1 DEF TicketRecord
  <2>4. /\ ticket'.pc = "execute_read_tools" /\ ticket'.documents = ticket.documents
        /\ ticket'.draft = None /\ ticket'.category = ticket.category /\ ticket'.plan = plan
        /\ ticket'.faked = faked
    BY <1>0, <2>1, <2>2 DEF TicketRecord, TicketInv
  <2>5. QED
    BY <2>1, <2>2, <2>3, <2>4, WorkerAssumption DEF TicketInv, Citations
<1>4. CASE ExecutesReadTools
  <2>1. ticket' = [ticket EXCEPT !.pc = "draft", !.results = tool_results(ticket)]
    BY <1>4 DEF ExecutesReadTools, Goes
  <2>2. req' = req /\ ticket.pc = "execute_read_tools"
    BY <1>4 DEF ExecutesReadTools, Goes, vars, Node
  <2>3. ticket' \in TicketRecord
    BY <1>0, <2>1 DEF TicketRecord, tool_results
  <2>4. /\ ticket'.pc = "draft" /\ ticket'.documents = ticket.documents /\ ticket'.draft = None
        /\ ticket'.category = ticket.category /\ ticket'.plan = ticket.plan
        /\ ticket'.faked = ticket.faked /\ ticket'.results = tool_results(ticket')
    BY <1>0, <2>1, <2>2 DEF TicketRecord, TicketInv, tool_results
  <2>5. QED
    BY <2>2, <2>3, <2>4, WorkerAssumption DEF TicketInv, Citations
<1>5. CASE Drafts
  <2>1. PICK draft \in Citations, faked \in BOOLEAN :
          /\ ticket' = [ticket EXCEPT !.pc = "drafted", !.faked = faked, !.draft = draft]
          /\ faked => ticket.faked
          /\ draft = "shipping-policy" => {"shipping", "lookup_order"} \cap Prompt(ticket) # {}
    <3>1. /\ drafted(Prompt(ticket)) \in Citations
          /\ drafted(Prompt(ticket)) = "shipping-policy" =>
               {"shipping", "lookup_order"} \cap Prompt(ticket) # {}
      BY DEF drafted, Citations
    <3>2. CASE Fake
      BY <1>0, <1>5, <3>1, <3>2 DEF Drafts, Goes, TicketRecord
    <3>3. CASE ~Fake
      BY <1>0, <1>5, <3>3 DEF Drafts, Goes, Citations
    <3>4. QED
      BY <3>2, <3>3
  <2>2. req' = req /\ ticket.pc = "draft"
    BY <1>5 DEF Drafts, Goes, vars, Node
  <2>3. ticket' \in TicketRecord
    BY <1>0, <2>1 DEF TicketRecord
  <2>4. /\ ticket'.pc = "drafted" /\ ticket'.documents = ticket.documents
        /\ ticket'.draft = draft /\ ticket'.category = ticket.category
        /\ ticket'.plan = ticket.plan /\ ticket'.faked = faked
        /\ ticket'.results = ticket.results /\ ticket'.message = ticket.message
    BY <1>0, <2>1 DEF TicketRecord
  <2>5. Prompt(ticket') = Prompt(ticket) /\ tool_results(ticket') = tool_results(ticket)
    BY <2>4 DEF Prompt, tool_results
  <2>6. QED
    BY <2>1, <2>2, <2>3, <2>4, <2>5 DEF TicketInv
<1>6. QED
  BY <1>1, <1>2, <1>3, <1>4, <1>5 DEF NodeStep

LEMMA TicketNext ==
  ASSUME WriterInv, TicketInv, [WorkerNext]_workerVars
  PROVE  TicketInv'
<1>1. CASE UNCHANGED ticket /\ (Next \/ UNCHANGED req)
  <2>1. ASSUME NEW c \in ticket.documents PROVE req'[c.by].write = "landed"
    <3>1. c.by \in Upserts /\ req[c.by].write = "landed"
      BY <2>1 DEF TicketInv, TicketRecord, Contents
    <3>2. QED
      BY <1>1, <3>1, LandedStays
  <2>2. QED
    BY <1>1, <2>1 DEF TicketInv
<1>2. CASE NodeStep
  BY <1>2, NodeStepKeeps
<1>3. QED
  BY <1>1, <1>2
  DEF WorkerNext, WriterStep, ProcessStep, Boots, OpensCollection, LoadsTools, Exits, workerVars,
      vars

WorkerInv == WriterInv /\ ProcessInv /\ TicketInv

LEMMA WorkerInvariant == WorkerSpec => []WorkerInv
<1>1. WorkerInit => WorkerInv
  BY InitInv, ProcessInit, TicketInit DEF WorkerInit, WorkerInv
<1>2. WorkerInv /\ [WorkerNext]_workerVars => WorkerInv'
  BY WorkerNextInv, ProcessNext, TicketNext DEF WorkerInv
<1>3. QED
  BY <1>1, <1>2, PTL DEF WorkerSpec

(* The gateway's requests, Chroma, the worker and its ticket keep to their *)
(* types, Chroma's ids among them.                                         *)
THEOREM Typing == WorkerSpec => []WorkerTypeOK
<1>1. WorkerInv => WorkerTypeOK
  BY DEF WorkerInv, WriterInv, ProcessInv, TicketInv, WorkerRecord, TicketRecord, WorkerTypeOK
<1>2. QED
  BY <1>1, WorkerInvariant, PTL

(* A worker that polls has a collection, can look up an order, and does    *)
(* not answer customers with the demo model.                               *)
THEOREM PollingIsComplete == WorkerSpec => []PollingMeansComplete
<1>1. WorkerInv => PollingMeansComplete
  BY DEF WorkerInv, ProcessInv, PollingMeansComplete
<1>2. QED
  BY <1>1, WorkerInvariant, PTL

(* A shipping citation the demo model gives a refund ticket that does not  *)
(* mention shipping proves that a document was read back.                  *)
THEOREM ShippingProvesReadBack == WorkerSpec => []ShippingMeansReadBack
<1>1. WorkerInv => ShippingMeansReadBack
  <2>1. SUFFICES ASSUME WorkerInv, ticket.draft = "shipping-policy", ticket.faked,
                        ticket.category = "refund",
                        ticket.message.words \cap {"shipping", "lookup_order"} = {}
                 PROVE  \E c \in ticket.documents :
                          /\ Mentions[c.doc] \cap {"shipping", "lookup_order"} # {}
                          /\ req[c.by].write = "landed"
    BY DEF ShippingMeansReadBack
  <2>2. ticket.pc = "drafted"
    BY <2>1, WorkerAssumption DEF WorkerInv, TicketInv, Citations
  <2>3. ticket.plan = "refund" /\ ticket.results = {}
    BY <2>1, <2>2 DEF WorkerInv, TicketInv, planned, tool_results
  <2>4. PICK w \in {"shipping", "lookup_order"} : w \in Prompt(ticket)
    BY <2>1 DEF WorkerInv, TicketInv
  <2>5. \E c \in ticket.documents : w \in Mentions[c.doc]
    <3>1. ASSUME NEW x \in Prompt(ticket)
          PROVE  \/ x \in ticket.message.words \/ x \in ticket.results
                 \/ \E c \in ticket.documents : x \in Mentions[c.doc]
                 \/ x = "refund" \/ ticket.plan = "lookup_order"
      BY <3>1, Zenon DEF Prompt
    <3>2. QED
      BY <2>1, <2>3, <2>4, <3>1
  <2>6. QED
    BY <2>1, <2>5 DEF WorkerInv, TicketInv
<1>2. QED
  BY <1>1, WorkerInvariant, PTL

(* A ticket's retrieval does not miss what a caller was told is stored.    *)
THEOREM RetrievalMissesNothing == WorkerSpec => NothingIsMissed
<1> DEFINE Misses ==
      ticket.pc = "retrieve" /\ ticket'.pc = "plan" =>
        \A u \in Upserts : req[u].answer = "ok" /\ req[u].collection = chroma =>
          \/ Cardinality(ticket'.documents) = Limit
          \/ \A i \in Indices(u) : \E c \in ticket'.documents : c.doc = Documents[u][i]
<1>1. WorkerInv /\ [WorkerNext]_workerVars => Misses
  <2>1. SUFFICES ASSUME WorkerInv, [WorkerNext]_workerVars,
                        ticket.pc = "retrieve", ticket'.pc = "plan",
                        NEW u \in Upserts, req[u].answer = "ok", req[u].collection = chroma,
                        Cardinality(ticket'.documents) # Limit,
                        NEW i \in Indices(u)
                 PROVE  \E c \in ticket'.documents : c.doc = Documents[u][i]
    OBVIOUS
  <2>2. ticket \in TicketRecord
    BY <2>1 DEF WorkerInv, TicketInv
  <2>3. Retrieves
    BY <2>1, <2>2
    DEF WorkerNext, WriterStep, ProcessStep, NodeStep, Boots, OpensCollection, LoadsTools, Exits,
        workerVars, Classifies, Plans, ExecutesReadTools, Drafts, Goes, Node
  <2>4. ticket'.documents = Found
    BY <2>1, <2>2, <2>3 DEF Retrieves, Search, Goes, TicketRecord
  <2>5. Documents[u][i] \in DocIds
    BY DocumentTypes
  <2>6. stored[Documents[u][i]] # None
    BY <2>1 DEF WorkerInv, WriterInv, RequestOK
  <2>7. stored[Documents[u][i]].content.doc = Documents[u][i]
    BY <2>1, <2>5, <2>6 DEF WorkerInv, WriterInv, DocumentOK
  <2>8. stored[Documents[u][i]].content \in Found
    BY <2>5, <2>6 DEF Found
  <2>9. QED
    BY <2>4, <2>7, <2>8
<1>2. QED
  BY <1>1, WorkerInvariant, PTL DEF WorkerSpec, NothingIsMissed
=============================================================================
