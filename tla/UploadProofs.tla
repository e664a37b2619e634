---------------------------- MODULE UploadProofs ----------------------------
(***************************************************************************)
(* Theorems about Upload, for every set of programs: what "Done." and an   *)
(* error mean, whose datasets a program deletes and writes, and what       *)
(* racing uploads leave.                                                   *)
(***************************************************************************)
EXTENDS Upload, TLAPS

\* What the server may answer to a request.
AnswersTo(request) ==
    IF request = "check" THEN {"yes", "no", "error"} ELSE {"ok", "error"}

\* The program knows that its allocation was carried out.
HasAllocated(c) ==
    \/ pc[c] = "allocate" /\ reply[c] = "ok"
    \/ pc[c] = "put"
    \/ wire[c] = "put"

\* A program waits for exactly one request or answer; only with --replace
\* does it delete; the dataset is its own only once it asked for it; and it
\* sends a PUT only with a dataset of its own, or one that was taken away.
Coherent(c) ==
    /\ pc[c] = "start" => wire[c] = "none" /\ reply[c] = "none"
    /\ pc[c] \in Requests =>
          \/ wire[c] = pc[c] /\ reply[c] = "none"
          \/ wire[c] = "none" /\ reply[c] \in AnswersTo(pc[c])
    /\ pc[c] \in Ends => reply[c] = "none" /\ (wire[c] = "none" \/ c \in troubled)
    /\ pc[c] = "done" => wire[c] = "none"
    /\ pc[c] = "delete" \/ wire[c] = "delete" => c \in replace
    /\ dataset.by = c => /\ pc[c] \in {"allocate", "put"} \cup Ends
                         /\ wire[c] \in {"none", "put"}
    /\ HasAllocated(c) => dataset.by = c \/ c \in robbed

Shape == TypeOK /\ \A c \in Clients : Coherent(c)

\* What a program knows of the dataset while nobody else changes it: it has
\* its own from the answer to POST on.
Owns(c) ==
    /\ pc[c] = "allocate" /\ reply[c] = "ok" => dataset = Holds(c, "none")
    /\ wire[c] = "put" => dataset = Holds(c, "none")
    /\ pc[c] = "put" /\ reply[c] = "ok" => dataset = Holds(c, c)
    /\ pc[c] = "done" => dataset = Holds(c, c)

\* What it knows besides when the server and the network did not fail it.
Informed(c) ==
    /\ reply[c] # "error"
    /\ reply[c] = "no" => dataset = Absent
    /\ reply[c] = "yes" => dataset # Absent
    /\ wire[c] = "delete" => dataset # Absent
    /\ pc[c] = "delete" /\ reply[c] = "ok" => dataset = Absent
    /\ wire[c] = "allocate" => dataset = Absent
    /\ pc[c] = "failed" => c \notin replace /\ dataset # Absent /\ dataset.by # c

Known(c) ==
    /\ c \notin disturbed => Owns(c)
    /\ c \notin disturbed /\ c \notin troubled => Informed(c)

Knowledge == \A c \in Clients : Known(c)

-----------------------------------------------------------------------------
\* The arms of AfterReply that a coherent program can take.
LEMMA ReceiveArms ==
    ASSUME Shape, NEW c \in Clients, Receive(c)
    PROVE  /\ UNCHANGED <<replace, dataset, meddling, disturbed, robbed, troubled>>
           /\ wire[c] = "none"
           /\ \/ pc[c] = "check" /\ reply[c] = "yes" /\ c \in replace /\ Send(c, "delete")
              \/ pc[c] = "check" /\ reply[c] = "yes" /\ c \notin replace /\ Finish(c, "failed")
              \/ pc[c] = "check" /\ reply[c] = "no" /\ Send(c, "allocate")
              \/ pc[c] \in Requests /\ reply[c] = "error" /\ Finish(c, "failed")
              \/ pc[c] = "delete" /\ reply[c] = "ok" /\ Send(c, "allocate")
              \/ pc[c] = "allocate" /\ reply[c] = "ok" /\ Send(c, "put")
              \/ pc[c] = "put" /\ reply[c] = "ok" /\ Finish(c, "done")
  <1>1. /\ pc[c] \in Requests /\ wire[c] = "none"
        /\ reply[c] \in AnswersTo(pc[c])
    BY DEF Shape, Coherent, TypeOK, Receive, Requests, Ends
  <1>2. UNCHANGED <<replace, dataset, meddling, disturbed, robbed, troubled>> /\ AfterReply(c)
    BY DEF Receive
  <1>3. CASE reply[c] = "yes"
    BY <1>1, <1>2, <1>3 DEF AfterReply, WhenExists, AnswersTo, Requests
  <1>4. CASE reply[c] = "no"
    BY <1>1, <1>2, <1>4 DEF AfterReply, AnswersTo, Requests
  <1>5. CASE reply[c] = "error"
    BY <1>1, <1>2, <1>5 DEF AfterReply, WhenError, AnswersTo, Requests
  <1>6. CASE reply[c] = "ok"
    BY <1>1, <1>2, <1>6 DEF AfterReply, WhenDeleted, AnswersTo, Requests
  <1> QED BY <1>1, <1>3, <1>4, <1>5, <1>6 DEF AnswersTo

LEMMA ShapeInit == ASSUME Init PROVE Shape
  <1> USE UploadAssumption DEF Init
  <1>1. TypeOK
    BY DEF TypeOK, Requests, Ends, Datasets, Absent, Holds, Users
  <1>2. dataset.by \notin Clients
    BY DEF Absent, Holds
  <1>3. ASSUME NEW c \in Clients PROVE Coherent(c)
    BY <1>2 DEF Coherent, HasAllocated, Requests, Ends
  <1> QED BY <1>1, <1>3 DEF Shape

\* A program that does not act stays coherent, whatever changes around it.
Undisturbed(d) ==
    /\ pc'[d] = pc[d] /\ wire'[d] = wire[d] /\ reply'[d] = reply[d]
    /\ replace' = replace /\ troubled \subseteq troubled'

LEMMA CoherentKept ==
    ASSUME NEW d \in Clients, Coherent(d), Undisturbed(d), robbed \subseteq robbed',
           dataset'.by = d => dataset.by = d,
           dataset.by = d => dataset'.by = d \/ d \in robbed'
    PROVE  Coherent(d)'
  BY DEF Coherent, HasAllocated, Undisturbed

\* It also keeps what it knows, while the dataset stays as it is, or nobody
\* expects it to know anything more.
LEMMA KnownKept ==
    ASSUME NEW d \in Clients, Coherent(d), Known(d), Undisturbed(d),
           disturbed \subseteq disturbed',
           dataset' = dataset \/ d \in disturbed' \/ pc[d] = "start"
    PROVE  Known(d)'
  <1>1. CASE dataset' = dataset
    BY <1>1 DEF Known, Owns, Informed, Undisturbed
  <1>2. CASE d \in disturbed'
    BY <1>2 DEF Known
  <1>3. CASE pc[d] = "start"
    BY <1>3 DEF Known, Owns, Informed, Undisturbed, Coherent
  <1> QED BY <1>1, <1>2, <1>3

LEMMA StartKeeps ==
    ASSUME Shape, Knowledge, NEW c \in Clients, Start(c)
    PROVE  Shape' /\ Knowledge'
  <1> USE DEF Start, Send
  <1>1. TypeOK'
    BY DEF Shape, TypeOK, Requests
  <1>2. ASSUME NEW d \in Clients PROVE Coherent(d)' /\ Known(d)'
    <2>1. CASE d = c
      BY <2>1 DEF Shape, TypeOK, Coherent, HasAllocated, Known, Owns, Informed, Requests, Ends, AnswersTo
    <2>2. CASE d # c
      <3>1. Undisturbed(d)
        BY <2>2 DEF Undisturbed, Shape, TypeOK
      <3> QED BY <3>1, CoherentKept, KnownKept DEF Shape, Knowledge
    <2> QED BY <2>1, <2>2
  <1> QED BY <1>1, <1>2 DEF Shape, Knowledge

LEMMA ReceiveKeeps ==
    ASSUME Shape, Knowledge, NEW c \in Clients, Receive(c)
    PROVE  Shape' /\ Knowledge'
  <1>1. UNCHANGED <<replace, dataset, meddling, disturbed, robbed, troubled>>
    BY ReceiveArms
  <1>2. TypeOK'
    BY ReceiveArms DEF Shape, TypeOK, Send, Finish, Requests, Ends
  <1>3. ASSUME NEW d \in Clients PROVE Coherent(d)' /\ Known(d)'
    <2>1. CASE d = c
      <3>1. Coherent(c)'
        BY ReceiveArms DEF Shape, TypeOK, Coherent, HasAllocated, Send, Finish, Requests, Ends, AnswersTo
      <3>2. Known(c) /\ Coherent(c) BY DEF Knowledge, Shape
      <3>3. Known(c)'
        BY <3>2, ReceiveArms DEF Shape, TypeOK, Coherent, Known, Owns, Informed,
                                 Send, Finish, Requests, Ends
      <3> QED BY <2>1, <3>1, <3>3
    <2>2. CASE d # c
      <3>1. Undisturbed(d)
        BY <2>2, ReceiveArms DEF Undisturbed, Shape, TypeOK, Send, Finish
      <3> QED BY <1>1, <3>1, CoherentKept, KnownKept DEF Shape, Knowledge
    <2> QED BY <2>1, <2>2
  <1> QED BY <1>2, <1>3 DEF Shape, Knowledge

LEMMA BreakKeeps ==
    ASSUME Shape, Knowledge, NEW c \in Clients, Break(c)
    PROVE  Shape' /\ Knowledge'
  <1> USE DEF Break, Finish
  <1>1. TypeOK'
    BY DEF Shape, TypeOK, Requests, Ends
  <1>2. ASSUME NEW d \in Clients PROVE Coherent(d)' /\ Known(d)'
    <2>1. CASE d = c
      BY <2>1 DEF Shape, Knowledge, TypeOK, Coherent, HasAllocated, Known, Owns, Informed, Requests, Ends
    <2>2. CASE d # c
      <3>1. Undisturbed(d)
        BY <2>2 DEF Undisturbed, Shape, TypeOK
      <3> QED BY <3>1, CoherentKept, KnownKept DEF Shape, Knowledge
    <2> QED BY <2>1, <2>2
  <1> QED BY <1>1, <1>2 DEF Shape, Knowledge

LEMMA LoseKeeps ==
    ASSUME Shape, Knowledge, NEW c \in Clients, Lose(c)
    PROVE  Shape' /\ Knowledge'
  <1> USE DEF Lose
  <1>1. TypeOK'
    BY DEF Shape, TypeOK, Requests, Ends
  <1>2. ASSUME NEW d \in Clients PROVE Coherent(d)' /\ Known(d)'
    <2>1. CASE d = c
      BY <2>1 DEF Shape, Knowledge, TypeOK, Coherent, HasAllocated, Known, Owns, Informed, Requests, Ends
    <2>2. CASE d # c
      <3>1. Undisturbed(d)
        BY <2>2 DEF Undisturbed, Shape, TypeOK
      <3> QED BY <3>1, CoherentKept, KnownKept DEF Shape, Knowledge
    <2> QED BY <2>1, <2>2
  <1> QED BY <1>1, <1>2 DEF Shape, Knowledge

\* What Serve(c) does, in the same terms for every request: it answers, and
\* it may change the dataset.
Replied(c) ==
    /\ wire[c] # "none"
    /\ UNCHANGED <<replace, pc, meddling>>
    /\ wire' = [wire EXCEPT ![c] = "none"]
    /\ \E r \in AnswersTo(wire[c]) :
          reply' = [reply EXCEPT ![c] = IF pc[c] \in Ends THEN "none" ELSE r]
    /\ troubled' = troubled \/ troubled' = troubled \cup {c}

Changed(c) ==
    \/ dataset' = dataset /\ disturbed' = disturbed /\ robbed' = robbed
    \/ /\ disturbed' = disturbed \cup (Started \ {c})
       /\ robbed' = robbed \cup {d \in Clients \ {c} : dataset.by = d /\ dataset'.by # d}
       /\ dataset' \in Datasets
       /\ \/ dataset'.by = "none" /\ wire[c] = "delete"
          \/ dataset'.by = dataset.by
          \/ dataset'.by = c /\ wire[c] = "allocate"

LEMMA ServeReplies ==
    ASSUME Shape, NEW c \in Clients, Serve(c)
    PROVE  Replied(c)
  <1> USE DEF Replied, Answer, AnswersTo, Troubled, Untroubled
  <1>1. CASE ServeCheck(c)    BY <1>1 DEF ServeCheck
  <1>2. CASE ServeDelete(c)   BY <1>2 DEF ServeDelete
  <1>3. CASE ServeAllocate(c) BY <1>3 DEF ServeAllocate
  <1>4. CASE ServePut(c)      BY <1>4 DEF ServePut
  <1>5. CASE Refuse(c)        BY <1>5 DEF Refuse
  <1> QED BY <1>1, <1>2, <1>3, <1>4, <1>5 DEF Serve

LEMMA ServeChanges ==
    ASSUME Shape, NEW c \in Clients, Serve(c)
    PROVE  Changed(c)
  <1> USE DEF Changed, Unchanged, Change
  <1>0. dataset \in Datasets BY DEF Shape, TypeOK
  <1>1. CASE ServeCheck(c)
    BY <1>1 DEF ServeCheck
  <1>2. CASE ServeDelete(c)
    <2>1. Absent \in Datasets /\ Absent.by = "none" BY DEF Datasets, Absent
    <2> QED BY <1>2, <2>1 DEF ServeDelete
  <1>3. CASE ServeAllocate(c)
    <2>1. Holds(c, "none") \in Datasets /\ Holds(c, "none").by = c
      BY DEF Datasets, Holds, Users
    <2> QED BY <1>3, <2>1 DEF ServeAllocate
  <1>4. CASE dataset # Absent
    <2>1. \A data \in {c, "torn"} :
             /\ Holds(dataset.by, data) \in Datasets
             /\ Holds(dataset.by, data).by = dataset.by
      BY <1>0, <1>4 DEF Datasets, Holds, Users
    <2>2. CASE ServePut(c) BY <1>4, <2>1, <2>2 DEF ServePut
    <2>3. CASE Refuse(c)   BY <2>1, <2>3 DEF Refuse
    <2> QED BY <1>1, <1>2, <1>3, <2>2, <2>3 DEF Serve
  <1>5. CASE dataset = Absent /\ (ServePut(c) \/ Refuse(c))
    BY <1>5 DEF ServePut, Refuse
  <1> QED BY <1>1, <1>2, <1>3, <1>4, <1>5 DEF Serve

\* A program that hears of its allocation has the dataset.
LEMMA ServeAllocates ==
    ASSUME Shape, NEW c \in Clients, Serve(c), wire[c] = "allocate", reply'[c] = "ok"
    PROVE  dataset'.by = c
  <1>1. reply \in [Clients -> {"none", "yes", "no", "ok", "error"}]
    BY DEF Shape, TypeOK
  <1>2. ~Refuse(c)
    BY <1>1 DEF Refuse, Answer
  <1>3. ServeAllocate(c)
    BY <1>2 DEF Serve, ServeCheck, ServeDelete, ServePut
  <1> QED BY <1>1, <1>3 DEF ServeAllocate, Answer, Change, Holds

LEMMA ServeKeepsShape ==
    ASSUME Shape, NEW c \in Clients, Serve(c)
    PROVE  Shape'
  <1>1. Replied(c) /\ Changed(c) BY ServeReplies, ServeChanges
  <1>2. TypeOK'
    <2>1. /\ wire' \in [Clients -> Requests \cup {"none"}]
          /\ reply' \in [Clients -> {"none", "yes", "no", "ok", "error"}]
          /\ UNCHANGED <<replace, pc, meddling>>
          /\ troubled' \subseteq Clients
      BY <1>1 DEF Replied, Shape, TypeOK, AnswersTo
    <2>2. dataset' \in Datasets /\ disturbed' \subseteq Clients /\ robbed' \subseteq Clients
      BY <1>1 DEF Changed, Started, Shape, TypeOK
    <2> QED BY <2>1, <2>2 DEF Shape, TypeOK
  <1>3. ASSUME NEW d \in Clients PROVE Coherent(d)'
    <2>1. CASE d = c
      <3>1. Coherent(c) /\ c # "none" BY UploadAssumption DEF Shape
      <3>2. /\ pc' = pc /\ wire'[c] = "none" /\ replace' = replace
            /\ \E r \in AnswersTo(wire[c]) :
                  reply'[c] = IF pc[c] \in Ends THEN "none" ELSE r
            /\ c \in troubled => c \in troubled'
        BY <1>1 DEF Replied, Shape, TypeOK
      <3>3. dataset'.by = c => /\ pc'[c] \in {"allocate", "put"} \cup Ends
                               /\ wire'[c] \in {"none", "put"}
        BY <1>1, <3>1, <3>2 DEF Replied, Changed, Coherent, Requests, Ends, Shape, TypeOK
      <3>4. HasAllocated(c)' => dataset'.by = c \/ c \in robbed'
        <4>1. CASE wire[c] = "put"
          BY <1>1, <3>1, <4>1 DEF Changed, Coherent, HasAllocated
        <4>2. CASE wire[c] = "allocate" /\ HasAllocated(c)'
          BY <3>1, <3>2, <4>2, ServeAllocates DEF Coherent, HasAllocated, Requests, Ends
        <4>3. CASE wire[c] \notin {"put", "allocate"} /\ HasAllocated(c)'
          BY <1>1, <3>1, <3>2, <4>3 DEF Replied, Coherent, HasAllocated, Requests, Ends
        <4> QED BY <4>1, <4>2, <4>3
      <3> QED BY <1>1, <2>1, <3>1, <3>2, <3>3, <3>4
              DEF Replied, Shape, TypeOK, Coherent, Requests, Ends, AnswersTo
    <2>2. CASE d # c
      <3>1. Undisturbed(d)
        BY <1>1, <2>2 DEF Replied, Undisturbed, Shape, TypeOK
      <3>2. /\ dataset'.by = d => dataset.by = d
            /\ dataset.by = d => dataset'.by = d \/ d \in robbed'
            /\ robbed \subseteq robbed'
        BY <1>1, <2>2, UploadAssumption DEF Changed
      <3> QED BY <3>1, <3>2, CoherentKept DEF Shape
    <2> QED BY <2>1, <2>2
  <1> QED BY <1>2, <1>3 DEF Shape

\* The program whose request is served knows what the server did.
LEMMA ServeInforms ==
    ASSUME Shape, Knowledge, NEW c \in Clients, Serve(c)
    PROVE  Known(c)'
  <1> USE DEF Answer, Troubled, Untroubled, Unchanged, Change, Known, Owns, Informed
  <1>0. /\ Coherent(c) /\ Known(c) /\ c # "none"
        /\ pc[c] \in {"start"} \cup Requests \cup Ends
        /\ wire \in [Clients -> Requests \cup {"none"}]
        /\ reply \in [Clients -> {"none", "yes", "no", "ok", "error"}]
    BY UploadAssumption DEF Shape, TypeOK, Knowledge
  <1>1. CASE ServeCheck(c)
    <2>1. CASE reply'[c] = "yes" /\ dataset # Absent
      BY <1>0, <1>1, <2>1 DEF ServeCheck, Coherent, Requests, Ends
    <2>2. CASE reply'[c] = "no" /\ (dataset = Absent \/ c \in troubled')
      BY <1>0, <1>1, <2>2 DEF ServeCheck, Coherent, Requests, Ends
    <2>3. CASE pc[c] \in Ends
      BY <1>0, <1>1, <2>3 DEF ServeCheck, Coherent, Requests, Ends
    <2> QED BY <1>0, <1>1, <2>1, <2>2, <2>3 DEF ServeCheck
  <1>2. CASE ServeDelete(c)
    <2>1. CASE dataset = Absent
      BY <1>0, <1>2, <2>1 DEF ServeDelete, Coherent, Requests, Ends
    <2>2. CASE dataset # Absent
      BY <1>0, <1>2, <2>2 DEF ServeDelete, Coherent, Requests, Ends
    <2> QED BY <2>1, <2>2
  <1>3. CASE ServeAllocate(c)
    BY <1>0, <1>3 DEF ServeAllocate, Coherent, Requests, Ends
  <1>4. CASE ServePut(c)
    <2>1. CASE dataset = Absent
      BY <1>0, <1>4, <2>1 DEF ServePut, Coherent, Requests, Ends, Absent, Holds
    <2>2. CASE dataset # Absent
      <3>1. dataset = Holds(c, "none") =>
               /\ dataset.by = c /\ ~MayBurst(c)
               /\ Holds(dataset.by, c) = Holds(c, c)
        BY UploadAssumption DEF Holds, MayBurst
      <3>2. CASE Answer(c, "ok") /\ Change(c, Holds(dataset.by, c))
        BY <1>0, <1>4, <3>1, <3>2 DEF ServePut, Coherent, Requests, Ends
      <3>3. CASE Answer(c, "error") /\ MayBurst(c)
        <4>1. c \notin disturbed => dataset # Holds(c, "none") BY <3>1, <3>3
        <4>2. c \in disturbed' BY <1>0, <1>4, <3>1, <3>3 DEF ServePut
        <4> QED BY <4>2
      <3> QED BY <1>4, <2>2, <3>2, <3>3 DEF ServePut
    <2> QED BY <2>1, <2>2
  <1>5. CASE Refuse(c)
    <2>1. c \in troubled' BY <1>5 DEF Refuse
    <2>2. wire'[c] = "none" /\ reply'[c] \in {"none", "error"} /\ pc' = pc
      BY <1>0, <1>5 DEF Refuse
    <2>3. pc[c] # "done"
      BY <1>0, <1>5 DEF Refuse, Coherent, Ends
    <2> QED BY <2>1, <2>2, <2>3
  <1> QED BY <1>1, <1>2, <1>3, <1>4, <1>5 DEF Serve

LEMMA ServeKeeps ==
    ASSUME Shape, Knowledge, NEW c \in Clients, Serve(c)
    PROVE  Shape' /\ Knowledge'
  <1>1. Replied(c) /\ Changed(c) BY ServeReplies, ServeChanges
  <1>2. ASSUME NEW d \in Clients, d # c PROVE Known(d)'
    <2>1. Undisturbed(d)
      BY <1>1, <1>2 DEF Replied, Undisturbed, Shape, TypeOK
    <2>2. disturbed \subseteq disturbed'
      BY <1>1 DEF Changed
    <2>3. dataset' = dataset \/ d \in disturbed' \/ pc[d] = "start"
      BY <1>1, <1>2 DEF Changed, Started
    <2> QED BY <2>1, <2>2, <2>3, KnownKept DEF Shape, Knowledge
  <1> QED BY <1>2, ServeInforms, ServeKeepsShape DEF Knowledge

LEMMA MeddleKeeps ==
    ASSUME Shape, Knowledge, Meddle
    PROVE  Shape' /\ Knowledge'
  <1>0. PICK new \in {Absent, Holds(Other, Other), Holds(dataset.by, Other)} :
           /\ dataset = Absent => new # Holds(dataset.by, Other)
           /\ Change(Other, new)
    BY DEF Meddle
  <1>1. /\ UNCHANGED <<replace, pc, wire, reply, troubled>>
        /\ meddling' \in 0 .. MaxMeddling
    BY UploadAssumption DEF Meddle, Shape, TypeOK
  <1>2. dataset' \in Datasets /\ dataset'.by \in {"none", Other, dataset.by}
    BY <1>0 DEF Change, Shape, TypeOK, Datasets, Absent, Holds, Users
  <1>3. TypeOK'
    BY <1>0, <1>1, <1>2 DEF Change, Shape, TypeOK, Started
  <1>4. ASSUME NEW d \in Clients PROVE Coherent(d)' /\ Known(d)'
    <2>1. Undisturbed(d) /\ disturbed \subseteq disturbed'
      BY <1>0, <1>1 DEF Undisturbed, Change
    <2>2. /\ dataset'.by = d => dataset.by = d
          /\ dataset.by = d => dataset'.by = d \/ d \in robbed'
          /\ robbed \subseteq robbed'
      BY <1>0, <1>2, UploadAssumption DEF Change
    <2>3. d \in disturbed' \/ pc[d] = "start"
      BY <1>0, UploadAssumption DEF Change, Started
    <2> QED BY <2>1, <2>2, <2>3, CoherentKept, KnownKept DEF Shape, Knowledge
  <1> QED BY <1>3, <1>4 DEF Shape, Knowledge

LEMMA StutterKeeps ==
    ASSUME Shape, Knowledge, UNCHANGED vars
    PROVE  Shape' /\ Knowledge'
  BY DEF vars, Shape, TypeOK, Coherent, HasAllocated, Knowledge, Known, Owns, Informed

LEMMA KnowledgeInit == ASSUME Init PROVE Knowledge
  BY DEF Init, Knowledge, Known, Owns, Informed

LEMMA KnowledgeStep ==
    ASSUME Shape, Knowledge, [Next]_vars
    PROVE  Shape' /\ Knowledge'
  BY StartKeeps, ReceiveKeeps, BreakKeeps, ServeKeeps, LoseKeeps, MeddleKeeps, StutterKeeps
     DEF Next, Rest

LEMMA KnowledgeAlways == Spec => [](Shape /\ Knowledge)
  <1>1. Init => Shape /\ Knowledge BY ShapeInit, KnowledgeInit
  <1>2. Shape /\ Knowledge /\ [Next]_vars => (Shape /\ Knowledge)' BY KnowledgeStep
  <1> QED BY <1>1, <1>2, PTL DEF Spec

-----------------------------------------------------------------------------
\* The types of Upload's variables.
THEOREM UploadTypes == Spec => []TypeOK
  <1>1. Shape => TypeOK BY DEF Shape
  <1> QED BY <1>1, KnowledgeAlways, PTL

\* cmdUpload prints "Done." only when the dataset holds the image in full,
\* unless someone else changed the dataset meanwhile.
THEOREM UploadDone == Spec => []DoneMeansUploaded
  <1>1. Knowledge => DoneMeansUploaded
    BY DEF Knowledge, Known, Owns, DoneMeansUploaded
  <1> QED BY <1>1, KnowledgeAlways, PTL

\* It fails only for a reason outside it.
THEOREM UploadFailure == Spec => []FailsForCause
  <1>1. Knowledge => FailsForCause
    BY DEF Knowledge, Known, Informed, FailsForCause
  <1> QED BY <1>1, KnowledgeAlways, PTL

\* A program deletes only with --replace, and writes only into a dataset that
\* it allocated, unless its own was deleted before its PUT arrived.
THEOREM UploadKeepsOthers == Spec => NoReplaceNoLoss
  <1>1. ASSUME Shape, [Next]_vars, NEW c \in Clients,
               wire[c] # "none", wire'[c] = "none", dataset' # dataset
        PROVE  \/ wire[c] = "delete" /\ c \in replace
               \/ wire[c] = "allocate" /\ dataset = Absent
               \/ wire[c] = "put" /\ (dataset.by = c \/ c \in robbed)
    <2>1. PICK d \in Clients \cup {Other} : IF d = Other THEN Meddle ELSE Serve(d)
      BY <1>1, UploadAssumption DEF Next, vars, Start, Receive, Break, Lose, Rest
    <2>2. d = c
      <3>1. CASE d = Other
        BY <1>1, <2>1, <3>1 DEF Meddle
      <3>2. CASE d \in Clients /\ d # c
        BY <1>1, <2>1, <3>2, ServeReplies, UploadAssumption DEF Replied, Shape, TypeOK
      <3> QED BY <3>1, <3>2
    <2>3. /\ wire[c] = "delete" => c \in replace
          /\ wire[c] = "put" => dataset.by = c \/ c \in robbed
      BY <1>1 DEF Shape, Coherent, HasAllocated
    <2> QED BY <1>1, <2>1, <2>2, <2>3, UploadAssumption
            DEF Serve, ServeCheck, ServeDelete, ServeAllocate, ServePut, Refuse, Unchanged
  <1>2. Shape /\ [Next]_vars => SparesOthers
    BY <1>1 DEF SparesOthers
  <1> QED BY <1>2, KnowledgeAlways, PTL DEF Spec, NoReplaceNoLoss

-----------------------------------------------------------------------------
\* What holds when neither trouble nor Other interferes: whoever took the
\* dataset away, or found none, is about to allocate it; whoever allocated
\* it is about to fill it; a PUT meets a dataset that a program allocated,
\* and is cut short only if that is not its own.
WillAllocate(c) ==
    \/ pc[c] = "start"
    \/ wire[c] = "check" /\ pc[c] = "check"
    \/ pc[c] = "check" /\ reply[c] = "no"
    \/ pc[c] = "delete" /\ reply[c] = "ok"
    \/ pc[c] = "allocate" /\ wire[c] = "allocate"
WillFill(c) ==
    \/ pc[c] = "allocate" /\ reply[c] = "ok"
    \/ pc[c] = "put" /\ wire[c] = "put"
HasFilled(c) ==
    \/ pc[c] = "put" /\ reply[c] = "ok"
    \/ pc[c] = "done"

HasFailed(c) ==
    \/ pc[c] = "put" /\ reply[c] = "error"
    \/ pc[c] = "failed"

Hopeful ==
    /\ dataset.data = "torn" =>
          /\ dataset.by \in Clients
          /\ \E c \in robbed : HasFailed(c) /\ Tracks[c] > Tracks[dataset.by]
    /\ dataset.by = Other => \A c \in Clients : ~HasAllocated(c)
    /\ dataset = Absent => \E c \in Clients : WillAllocate(c)
    /\ dataset # Absent /\ dataset.data = "none" =>
          dataset.by \in Clients /\ WillFill(dataset.by)
    /\ dataset.data \in Clients => HasFilled(dataset.data)
Racing == troubled = {} /\ meddling = 0 => Hopeful

LEMMA RacingInit == ASSUME Init PROVE Racing
  <1>1. CASE dataset = Absent
    <2>1. \E c \in Clients : WillAllocate(c)
      BY UploadAssumption DEF Init, WillAllocate
    <2>2. /\ dataset.data = "none" /\ "none" \notin Clients
          /\ dataset.by = "none" /\ Other # "none"
      BY <1>1, UploadAssumption DEF Absent
    <2> QED BY <1>1, <2>1, <2>2 DEF Racing, Hopeful
  <1>2. CASE dataset = Holds(Other, Other)
    <2>1. dataset.data = Other /\ dataset # Absent
      BY <1>2, UploadAssumption DEF Holds, Absent
    <2>2. \A c \in Clients : ~HasAllocated(c)
      BY DEF Init, HasAllocated
    <2> QED BY <2>1, <2>2, UploadAssumption DEF Racing, Hopeful
  <1> QED BY <1>1, <1>2 DEF Init

\* Steps that leave the dataset alone.
LEMMA RacingProgram ==
    ASSUME Shape, Racing, NEW c \in Clients, Start(c) \/ Receive(c),
           troubled' = {}, meddling' = 0
    PROVE  Hopeful'
  <1>1. Hopeful /\ dataset' = dataset /\ robbed' = robbed
    BY DEF Racing, Start, Receive
  <1>2. \A d \in Clients \ {c} :
           pc'[d] = pc[d] /\ wire'[d] = wire[d] /\ reply'[d] = reply[d]
    <2>1. CASE Start(c) BY <2>1 DEF Start, Send, Shape, TypeOK
    <2>2. CASE Receive(c) BY <2>2, ReceiveArms DEF Send, Finish, Shape, TypeOK
    <2> QED BY <2>1, <2>2
  <1>3. /\ WillAllocate(c) => dataset # Absent \/ WillAllocate(c)'
        /\ WillFill(c) => WillFill(c)'
        /\ HasFilled(c) => HasFilled(c)'
        /\ HasFailed(c) => HasFailed(c)'
        /\ HasAllocated(c)' => HasAllocated(c)
    <2> USE DEF WillAllocate, WillFill, HasFilled, HasFailed, HasAllocated, Shape, TypeOK, Send, Finish
    <2>1. CASE Start(c) BY <2>1 DEF Start
    <2>2. CASE Receive(c)
      <3>1. /\ c \in Clients /\ pc \in [Clients -> {"start"} \cup Requests \cup Ends]
            /\ wire \in [Clients -> Requests \cup {"none"}] /\ reply[c] # "none"
        BY <2>2 DEF Receive
      <3>2. pc[c] # "start" /\ pc[c] # "done" /\ wire[c] = "none"
        BY <2>2, ReceiveArms DEF Requests
      <3>3. CASE reply[c] \in {"yes", "error"}
        BY <2>2, <3>1, <3>2, <3>3, ReceiveArms
      <3>4. CASE reply[c] = "no"
        BY <2>2, <3>1, <3>2, <3>4, ReceiveArms
      <3>5. CASE reply[c] = "ok"
        BY <2>2, <3>1, <3>2, <3>5, ReceiveArms
      <3> QED BY <3>1, <3>3, <3>4, <3>5
    <2> QED BY <2>1, <2>2
  <1>4. \A d \in Clients : /\ WillAllocate(d) => dataset # Absent \/ WillAllocate(d)'
                           /\ WillFill(d) => WillFill(d)'
                           /\ HasFilled(d) => HasFilled(d)'
                           /\ HasFailed(d) => HasFailed(d)'
                           /\ HasAllocated(d)' => HasAllocated(d)
    BY <1>2, <1>3 DEF WillAllocate, WillFill, HasFilled, HasFailed, HasAllocated
  <1>5. robbed \subseteq Clients BY DEF Shape, TypeOK
  <1> QED BY <1>1, <1>4, <1>5 DEF Hopeful

\* What the request that is served tells of the others' state, and its own.
LEMMA RacingOthers ==
    ASSUME Shape, Racing, NEW c \in Clients, Serve(c), troubled' = {}, meddling' = 0
    PROVE  /\ Hopeful /\ pc' = pc /\ wire'[c] = "none"
           /\ robbed \subseteq robbed' /\ robbed \subseteq Clients
           /\ \A d \in Clients \ {c} : /\ WillAllocate(d) => WillAllocate(d)'
                                       /\ WillFill(d) => WillFill(d)'
                                       /\ HasFilled(d) => HasFilled(d)'
                                       /\ HasFailed(d) => HasFailed(d)'
                                       /\ HasAllocated(d)' => HasAllocated(d)
           /\ pc[c] = wire[c] /\ reply[c] = "none" /\ pc[c] \notin Ends
           /\ ~HasFilled(c) /\ ~HasFailed(c) /\ ~Refuse(c)
           /\ WillFill(c) => wire[c] = "put"
  <1>1. /\ Hopeful /\ pc' = pc
        /\ \A d \in Clients \ {c} : wire'[d] = wire[d] /\ reply'[d] = reply[d]
        /\ wire'[c] = "none"
    BY ServeReplies DEF Racing, Replied, Shape, TypeOK
  <1>2. robbed \subseteq robbed' /\ robbed \subseteq Clients
    BY ServeChanges DEF Changed, Shape, TypeOK
  <1>3. \A d \in Clients \ {c} : /\ WillAllocate(d) => WillAllocate(d)'
                                 /\ WillFill(d) => WillFill(d)'
                                 /\ HasFilled(d) => HasFilled(d)'
                                 /\ HasFailed(d) => HasFailed(d)'
                                 /\ HasAllocated(d)' => HasAllocated(d)
    BY <1>1 DEF WillAllocate, WillFill, HasFilled, HasFailed, HasAllocated
  <1>4. wire[c] # "none" /\ c \notin troubled
    BY ServeReplies DEF Replied
  <1>5. pc[c] = wire[c] /\ reply[c] = "none" /\ pc[c] \notin Ends
    BY <1>4 DEF Shape, TypeOK, Coherent, Requests, Ends
  <1>6. ~Refuse(c) BY DEF Refuse, Troubled
  <1> QED BY <1>1, <1>2, <1>3, <1>5, <1>6 DEF WillFill, HasFilled, HasFailed, Ends

LEMMA RacingPut ==
    ASSUME Shape, Racing, NEW c \in Clients, ServePut(c), troubled' = {}, meddling' = 0
    PROVE  Hopeful'
  <1>0. Serve(c) BY DEF Serve
  <1>1. ~WillAllocate(c)
    BY <1>0, RacingOthers DEF ServePut, WillAllocate
  <1>2. c \notin {"none", "torn", Other} /\ Other \notin Clients
    BY UploadAssumption
  <1>3. reply \in [Clients -> {"none", "yes", "no", "ok", "error"}]
    BY DEF Shape, TypeOK
  <1>4. HasAllocated(c) BY DEF ServePut, HasAllocated
  <1>5. dataset.by # Other BY <1>0, <1>4, RacingOthers DEF Hopeful
  <1>6. CASE dataset = Absent /\ Answer(c, "error") /\ Unchanged
    <2>1. dataset' = dataset BY <1>6 DEF Unchanged
    <2>2. dataset.by = "none" /\ dataset.data = "none" BY <1>6 DEF Absent
    <2>3. "none" \notin Clients /\ Other # "none" BY UploadAssumption
    <2> QED BY <1>0, <1>1, <1>6, <2>1, <2>2, <2>3, RacingOthers DEF Hopeful
  <1>7. CASE dataset # Absent /\ Answer(c, "ok") /\ Change(c, Holds(dataset.by, c))
    <2>1. dataset' = Holds(dataset.by, c) BY <1>7 DEF Change
    <2>2. HasFilled(c)'
      BY <1>0, <1>3, <1>7, RacingOthers DEF ServePut, Answer, HasFilled
    <2>3. dataset'.data = c /\ dataset'.by = dataset.by /\ dataset' # Absent
      BY <1>2, <2>1 DEF Holds, Absent
    <2> QED BY <1>2, <1>5, <2>2, <2>3 DEF Hopeful
  <1>8. CASE dataset # Absent /\ MayBurst(c) /\ Answer(c, "error")
             /\ Change(c, Holds(dataset.by, "torn"))
    <2>1. dataset' = Holds(dataset.by, "torn") BY <1>8 DEF Change
    <2>2. dataset'.data = "torn" /\ dataset'.by = dataset.by /\ dataset' # Absent
      BY <2>1 DEF Holds, Absent
    <2>3. dataset.by \in Clients
      BY <1>5, <1>8 DEF Shape, TypeOK, Datasets, Users
    <2>4. Tracks[c] > Tracks[dataset.by]
      BY <1>8, <2>3 DEF MayBurst
    <2>5. dataset.by # c
      BY <2>4, UploadAssumption
    <2>6. c \in robbed'
      BY <1>0, <1>4, <2>5, RacingOthers DEF Shape, Coherent
    <2>7. HasFailed(c)'
      BY <1>0, <1>3, <1>8, RacingOthers DEF ServePut, Answer, HasFailed
    <2>8. "torn" \notin Clients /\ dataset'.by \in Clients
          /\ \E d \in robbed' : HasFailed(d)' /\ Tracks[d] > Tracks[dataset'.by]
      BY <2>2, <2>3, <2>4, <2>6, <2>7, UploadAssumption
    <2> QED BY <1>2, <2>2, <2>8 DEF Hopeful
  <1> QED BY <1>6, <1>7, <1>8 DEF ServePut

LEMMA RacingServer ==
    ASSUME Shape, Racing, NEW c \in Clients, Serve(c), troubled' = {}, meddling' = 0
    PROVE  Hopeful'
  <1>1. CASE ServeCheck(c)
    <2>1. dataset' = dataset /\ wire[c] = "check" BY <1>1 DEF ServeCheck, Unchanged
    <2>2. dataset = Absent => WillAllocate(c)'
      BY <1>1, RacingOthers DEF ServeCheck, Answer, WillAllocate, Shape, TypeOK
    <2>3. ~HasAllocated(c)'
      BY <2>1, RacingOthers DEF HasAllocated
    <2> QED BY <2>1, <2>2, <2>3, RacingOthers DEF Hopeful
  <1>2. CASE ServeDelete(c)
    <2>0. /\ wire[c] = "delete"
          /\ "none" \notin Clients /\ Other # "none"
      BY <1>2, UploadAssumption DEF ServeDelete
    <2>1. CASE dataset = Absent
      <3>1. dataset' = dataset /\ dataset.by = "none" /\ dataset.data = "none"
        BY <1>2, <2>1 DEF ServeDelete, Unchanged, Absent
      <3>2. ~WillAllocate(c) BY <2>0, RacingOthers DEF WillAllocate
      <3> QED BY <2>0, <2>1, <3>1, <3>2, RacingOthers DEF Hopeful
    <2>2. CASE dataset # Absent
      <3>1. dataset' = Absent /\ dataset'.by = "none" /\ dataset'.data = "none"
        BY <1>2, <2>2 DEF ServeDelete, Change, Absent
      <3>2. WillAllocate(c)'
        BY <1>2, <2>2, RacingOthers DEF ServeDelete, Answer, WillAllocate, Shape, TypeOK
      <3> QED BY <2>0, <3>1, <3>2 DEF Hopeful
    <2> QED BY <2>1, <2>2
  <1>3. CASE ServeAllocate(c)
    <2>0. wire[c] = "allocate" /\ "none" \notin Clients /\ c # "none" /\ c # Other
      BY <1>3, UploadAssumption DEF ServeAllocate
    <2>1. CASE dataset = Absent
      <3>1. dataset' = Holds(c, "none") BY <1>3, <2>1 DEF ServeAllocate, Change
      <3>2. WillFill(c)'
        BY <1>3, <2>0, <2>1, RacingOthers DEF ServeAllocate, Answer, WillFill, Shape, TypeOK, Ends
      <3>3. dataset'.by = c /\ dataset'.data = "none" /\ dataset' # Absent
        BY <2>0, <3>1 DEF Holds, Absent
      <3> QED BY <2>0, <3>2, <3>3 DEF Hopeful
    <2>2. CASE dataset # Absent
      <3>1. dataset' = dataset BY <1>3, <2>2 DEF ServeAllocate, Unchanged
      <3>2. ~WillFill(c) BY <2>0, RacingOthers
      <3>3. ~HasAllocated(c)'
        BY <1>3, <2>0, <2>2, RacingOthers DEF ServeAllocate, Answer, HasAllocated, Shape, TypeOK
      <3> QED BY <2>2, <3>1, <3>2, <3>3, RacingOthers DEF Hopeful
    <2> QED BY <2>1, <2>2
  <1>4. CASE ServePut(c)
    BY <1>4, RacingPut
  <1> QED BY <1>1, <1>2, <1>3, <1>4, RacingOthers DEF Serve

LEMMA RacingStep ==
    ASSUME Shape, Racing, [Next]_vars
    PROVE  Racing'
  <1> SUFFICES ASSUME troubled' = {}, meddling' = 0 PROVE Hopeful'
    BY DEF Racing
  <1>1. ASSUME NEW c \in Clients, Start(c) \/ Receive(c) PROVE Hopeful'
    BY <1>1, RacingProgram
  <1>2. ASSUME NEW c \in Clients, Serve(c) PROVE Hopeful'
    BY <1>2, RacingServer
  <1>3. ASSUME NEW c \in Clients, Break(c) PROVE FALSE
    BY <1>3 DEF Break
  <1>4. ASSUME NEW c \in Clients, Lose(c) PROVE FALSE
    BY <1>4 DEF Lose, Shape, Coherent
  <1>5. ~Meddle
    BY DEF Meddle, Shape, TypeOK
  <1>6. CASE UNCHANGED vars
    BY <1>6 DEF vars, Racing, Hopeful, WillAllocate, WillFill, HasFilled, HasFailed, HasAllocated
  <1> QED BY <1>1, <1>2, <1>3, <1>4, <1>5, <1>6 DEF Next, Rest

\* Uploads that race for a dataset leave it there and not empty, and whole
\* but for an image that met the room of a smaller one.
THEOREM UploadRace == Spec => []RaceLeavesWhole
  <1>1. Init => Shape /\ Knowledge /\ Racing
    BY ShapeInit, KnowledgeInit, RacingInit
  <1>2. Shape /\ Knowledge /\ Racing /\ [Next]_vars => (Shape /\ Knowledge /\ Racing)'
    BY KnowledgeStep, RacingStep
  <1>3. Shape /\ Racing => RaceLeavesWhole
    <2> SUFFICES ASSUME Shape, Hopeful, AllEnded
                 PROVE  /\ dataset.data \in Users \cup {"torn"}
                        /\ dataset.data \in Clients => pc[dataset.data] = "done"
                        /\ dataset.data = "torn" =>
                              /\ dataset.by \in Clients
                              /\ \E c \in robbed : pc[c] = "failed" /\ Tracks[c] > Tracks[dataset.by]
      BY DEF Racing, RaceLeavesWhole
    <2>1. \A c \in Clients : ~WillAllocate(c) /\ ~WillFill(c) /\ pc[c] # "put"
      BY DEF AllEnded, Ends, WillAllocate, WillFill
    <2>2. dataset # Absent /\ dataset.data # "none"
      BY <2>1 DEF Hopeful
    <2>3. dataset.data \in Users \cup {"torn"}
      BY <2>2 DEF Shape, TypeOK, Datasets
    <2>4. dataset.data \in Clients => pc[dataset.data] = "done"
      BY <2>1 DEF Hopeful, HasFilled
    <2>5. robbed \subseteq Clients BY DEF Shape, TypeOK
    <2> QED BY <2>1, <2>3, <2>4, <2>5 DEF Hopeful, HasFailed
  <1> QED BY <1>1, <1>2, <1>3, PTL DEF Spec

=============================================================================
