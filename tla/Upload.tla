------------------------------- MODULE Upload -------------------------------
(***************************************************************************)
(* ufsd-utils upload (cmd/ufsd-utils/upload.go): programs that upload an   *)
(* image each, by up to four requests to the MVS server, to one and the    *)
(* same dataset.  A request is carried out some time after it is sent,     *)
(* also when its program has given up waiting, or not at all.              *)
(*                                                                         *)
(* The server and the other users of the dataset are the environment; what *)
(* the server answers is what upload.go and MVS's rules for datasets let   *)
(* expect: it allocates only a name that is free, and writes and deletes   *)
(* only a dataset that exists.  A dataset has the room that the program    *)
(* which allocated it asked for, for an image of its own, and does not     *)
(* grow: a larger image does not fit.                                      *)
(***************************************************************************)
EXTENDS Naturals

CONSTANTS
    Clients,     \* programs, which each upload an image of their own
    Other,       \* whoever else uses the dataset
    Tracks,      \* what a program asks for and its image takes
    MaxMeddling  \* bound on what Other does to the dataset

ASSUME UploadAssumption ==
    /\ Clients # {}
    /\ Other \notin Clients
    /\ Clients \cap {"none", "torn"} = {} /\ Other \notin {"none", "torn"}
    /\ Tracks \in [Clients -> Nat]
    /\ MaxMeddling \in Nat

VARIABLES
    replace,    \* the programs that were given --replace
    pc,         \* where each is: the request it waits for, or its end
    wire,       \* its request, as long as the server may still carry it out
    reply,      \* the answer on its way to it
    dataset,    \* the dataset: who allocated it, what it holds
    meddling,   \* how often Other acted
    disturbed,  \* history: programs into whose run another change fell
    robbed,     \* history: programs whose own dataset another took away
    troubled    \* history: programs that met a failing server or network

vars == <<replace, pc, wire, reply, dataset, meddling, disturbed, robbed, troubled>>

Requests == {"check", "delete", "allocate", "put"}
Ends     == {"done", "failed"}

Absent         == [by |-> "none", data |-> "none"]
Holds(by, data) == [by |-> by, data |-> data]
Users          == Clients \cup {Other}
Datasets       == {Absent} \cup [by : Users, data : Users \cup {"none", "torn"}]

Init ==
    /\ replace \in SUBSET Clients
    /\ pc = [c \in Clients |-> "start"]
    /\ wire = [c \in Clients |-> "none"]
    /\ reply = [c \in Clients |-> "none"]
    /\ dataset \in {Absent, Holds(Other, Other)}
    /\ meddling = 0
    /\ disturbed = {}
    /\ robbed = {}
    /\ troubled = {}

-----------------------------------------------------------------------------
\* The program sends the next request and waits for the answer.
Send(c, request) ==
    /\ pc' = [pc EXCEPT ![c] = request]
    /\ wire' = [wire EXCEPT ![c] = request]
    /\ reply' = [reply EXCEPT ![c] = "none"]

Finish(c, end) ==
    /\ pc' = [pc EXCEPT ![c] = end]
    /\ reply' = [reply EXCEPT ![c] = "none"]
    /\ wire' = wire

Start(c) ==
    /\ pc[c] = "start"
    /\ Send(c, "check")
    /\ UNCHANGED <<replace, dataset, meddling, disturbed, robbed, troubled>>

\* Mutants: no allocation after a DELETE; an allocation that was refused
\* taken for done; a request that failed sent again.
PutAtOnce(c)       == Send(c, "put")
RefusalIgnored(c)  == IF pc[c] = "allocate" THEN Send(c, "put") ELSE Finish(c, "failed")
RetriedForEver(c)  == Send(c, pc[c])

\* What cmdUpload does with an answer: die on an error and on a dataset that
\* exists without --replace, otherwise go on to the next request.
WhenExists(c)  == IF c \in replace THEN Send(c, "delete") ELSE Finish(c, "failed")
WhenDeleted(c) == Send(c, "allocate")
WhenError(c)   == Finish(c, "failed")

AfterReply(c) ==
    CASE reply[c] = "yes"                      -> WhenExists(c)
      [] reply[c] = "no"                       -> Send(c, "allocate")
      [] reply[c] = "error"                    -> WhenError(c)
      [] reply[c] = "ok" /\ pc[c] = "delete"   -> WhenDeleted(c)
      [] reply[c] = "ok" /\ pc[c] = "allocate" -> Send(c, "put")
      [] reply[c] = "ok" /\ pc[c] = "put"      -> Finish(c, "done")

Receive(c) ==
    /\ reply[c] # "none"
    /\ AfterReply(c)
    /\ UNCHANGED <<replace, dataset, meddling, disturbed, robbed, troubled>>

\* Mutant: uploadBinary takes a failed connection for the end of the answer.
BreakIgnored(c) ==
    /\ pc[c] \in Requests
    /\ Finish(c, IF pc[c] = "put" THEN "done" ELSE "failed")
    /\ troubled' = troubled \cup {c}
    /\ UNCHANGED <<replace, dataset, meddling, disturbed, robbed>>

\* http.DefaultClient gives up: the connection failed, before or after the
\* server got the request.  There is no other timeout and no retry.
Break(c) ==
    /\ pc[c] \in Requests
    /\ Finish(c, "failed")
    /\ troubled' = troubled \cup {c}
    /\ UNCHANGED <<replace, dataset, meddling, disturbed, robbed>>

-----------------------------------------------------------------------------
\* The programs other than by that are under way or have ended.
Started == {c \in Clients : pc[c] # "start"}

Change(by, new) ==
    /\ dataset' = new
    /\ disturbed' = disturbed \cup (Started \ {by})
    /\ robbed' = robbed \cup {c \in Clients \ {by} : dataset.by = c /\ new.by # c}

Unchanged == UNCHANGED <<dataset, disturbed, robbed>>

\* The server has dealt with c's request; nobody may wait for the answer.
Answer(c, r) ==
    /\ wire' = [wire EXCEPT ![c] = "none"]
    /\ reply' = [reply EXCEPT ![c] = IF pc[c] \in Ends THEN "none" ELSE r]
    /\ UNCHANGED <<replace, pc, meddling>>

Troubled(c) == troubled' = troubled \cup {c}
Untroubled  == troubled' = troubled

\* The list of datasets by the first qualifiers of the name, in which
\* datasetExists looks for it; the list may be incomplete.
ServeCheck(c) ==
    /\ wire[c] = "check"
    /\ \/ dataset = Absent /\ Answer(c, "no") /\ Untroubled
       \/ dataset # Absent /\ Answer(c, "yes") /\ Untroubled
       \/ dataset # Absent /\ Answer(c, "no") /\ Troubled(c)
    /\ Unchanged

ServeDelete(c) ==
    /\ wire[c] = "delete"
    /\ IF dataset = Absent THEN Answer(c, "error") /\ Unchanged
       ELSE Answer(c, "ok") /\ Change(c, Absent)
    /\ Untroubled

ServeAllocate(c) ==
    /\ wire[c] = "allocate"
    /\ IF dataset = Absent THEN Answer(c, "ok") /\ Change(c, Holds(c, "none"))
       ELSE Answer(c, "error") /\ Unchanged
    /\ Untroubled

\* Mutant: a PUT that creates the dataset it does not find.
ServePutUnchecked(c) ==
    /\ wire[c] = "put"
    /\ Answer(c, "ok") /\ Change(c, Holds(dataset.by, c))
    /\ Untroubled

\* The room for c's image is what the dataset's allocation left; nothing is
\* known of a dataset that Other allocated.
MayFit(c)   == dataset.by \in Clients => Tracks[c] <= Tracks[dataset.by]
MayBurst(c) == dataset.by \in Clients => Tracks[c] > Tracks[dataset.by]

\* An image that does not fit is cut short, and the server says so.
ServePut(c) ==
    /\ wire[c] = "put"
    /\ \/ dataset = Absent /\ Answer(c, "error") /\ Unchanged
       \/ /\ dataset # Absent /\ MayFit(c)
          /\ Answer(c, "ok") /\ Change(c, Holds(dataset.by, c))
       \/ /\ dataset # Absent /\ MayBurst(c)
          /\ Answer(c, "error") /\ Change(c, Holds(dataset.by, "torn"))
    /\ Untroubled

\* An error status, or a PUT that fails when part of the data is written.
Refuse(c) ==
    /\ wire[c] # "none"
    /\ Answer(c, "error")
    /\ Troubled(c)
    /\ \/ Unchanged
       \/ /\ wire[c] = "put" /\ dataset # Absent
          /\ Change(c, Holds(dataset.by, "torn"))

\* A request whose program has gone never reaches the server.
Lose(c) ==
    /\ wire[c] # "none"
    /\ pc[c] \in Ends
    /\ wire' = [wire EXCEPT ![c] = "none"]
    /\ UNCHANGED <<replace, pc, reply, dataset, meddling, disturbed, robbed, troubled>>

Serve(c) == ServeCheck(c) \/ ServeDelete(c) \/ ServeAllocate(c) \/ ServePut(c) \/ Refuse(c)

\* Other removes the dataset, writes it, or creates it again.
Meddle ==
    /\ meddling < MaxMeddling
    /\ meddling' = meddling + 1
    /\ \E new \in {Absent, Holds(Other, Other), Holds(dataset.by, Other)} :
          /\ new # dataset
          /\ dataset = Absent => new # Holds(dataset.by, Other)
          /\ Change(Other, new)
    /\ UNCHANGED <<replace, pc, wire, reply, troubled>>

AllEnded == \A c \in Clients : pc[c] \in Ends

\* Every program has ended and no request is left; the model stops there.
Rest ==
    /\ AllEnded /\ \A c \in Clients : wire[c] = "none"
    /\ UNCHANGED vars

Next ==
    \/ \E c \in Clients : Start(c) \/ Receive(c) \/ Break(c) \/ Serve(c) \/ Lose(c)
    \/ Meddle
    \/ Rest

Spec == Init /\ [][Next]_vars

\* A program that can go on does, and every request is answered or its
\* connection fails in the end.
Fairness ==
    \A c \in Clients : WF_vars(Receive(c)) /\ WF_vars(Serve(c) \/ Break(c))

FairSpec == Spec /\ Fairness

-----------------------------------------------------------------------------
TypeOK ==
    /\ replace \subseteq Clients
    /\ pc \in [Clients -> {"start"} \cup Requests \cup Ends]
    /\ wire \in [Clients -> Requests \cup {"none"}]
    /\ reply \in [Clients -> {"none", "yes", "no", "ok", "error"}]
    /\ dataset \in Datasets
    /\ meddling \in 0 .. MaxMeddling
    /\ disturbed \subseteq Clients
    /\ robbed \subseteq Clients
    /\ troubled \subseteq Clients

\* When upload prints "Done.", the dataset is the one it allocated and holds
\* its image, unless somebody else changed it since the program began:
\* another upload, another user, or the late request of a program that had
\* given up.
DoneMeansUploaded ==
    \A c \in Clients :
        pc[c] = "done" => dataset = Holds(c, c) \/ c \in disturbed

\* An upload fails only for a reason outside it: the server or the network
\* failed it, somebody else changed the dataset while it ran, or the dataset
\* was there before and it was not told to replace it.
FailsForCause ==
    \A c \in Clients :
        pc[c] = "failed" =>
            \/ c \in troubled \cup disturbed
            \/ c \notin replace /\ dataset # Absent /\ dataset.by # c

\* A program deletes a dataset only with --replace, and writes only into the
\* dataset it allocated itself, whatever others do between its check, its
\* allocation and its PUT: what appears after the check is protected by the
\* refusal to allocate a name in use.  One case is left: a program whose own
\* dataset was deleted between its allocation and its PUT writes into the
\* dataset that has come in its place.
SparesOthers ==
    \A c \in Clients :
        wire[c] # "none" /\ wire'[c] = "none" /\ dataset' # dataset =>
            \/ wire[c] = "delete" /\ c \in replace
            \/ wire[c] = "allocate" /\ dataset = Absent
            \/ wire[c] = "put" /\ (dataset.by = c \/ c \in robbed)
NoReplaceNoLoss == [][SparesOthers]_vars

\* When uploads of the same dataset race and neither the server, nor the
\* network, nor another user fails them, the dataset is there in the end and
\* not empty: it holds what it held before, or all of an image whose upload
\* said "Done.".  It holds part of an image only if that image asked for more
\* tracks than the program that allocated the dataset: its own was taken
\* away, its PUT met the smaller one, and its program reported an error.
RaceLeavesWhole ==
    AllEnded /\ troubled = {} /\ meddling = 0 =>
        /\ dataset.data \in Users \cup {"torn"}
        /\ dataset.data \in Clients => pc[dataset.data] = "done"
        /\ dataset.data = "torn" =>
              /\ dataset.by \in Clients
              /\ \E c \in robbed : pc[c] = "failed" /\ Tracks[c] > Tracks[dataset.by]

\* Every upload that was started ends, with "Done." or an error.
EveryUploadEnds == \A c \in Clients : (pc[c] # "start") ~> (pc[c] \in Ends)

=============================================================================
