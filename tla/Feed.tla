-------------------------------- MODULE Feed --------------------------------
(***************************************************************************)
(* The counters of a post in the social feed.  A like and a comment load   *)
(* the post, change their own table, count, and save one column of the     *)
(* post, each statement on its own; an edit saves every column of what it  *)
(* loaded.  How a post is published is module Workflow.                    *)
(***************************************************************************)
EXTENDS Integers, FiniteSets

CONSTANTS User,
          Req,         \* requests in flight
          MaxOps,      \* bound on the requests of a behaviour
          MaxComments  \* bound on the comments

VARIABLES post,        \* the SocialPost
          likes,       \* users with a SocialPostLike
          comments,    \* number of SocialPostComments
          req,         \* what each request has read
          ops

vars == <<post, likes, comments, req, ops>>

Posts == [likeCount : 0 .. Cardinality(User), commentCount : 0 .. MaxComments,
          published : BOOLEAN, companyWide : BOOLEAN, gone : BOOLEAN]

TypeOK ==
    /\ post \in Posts
    /\ likes \subseteq User /\ comments \in 0 .. MaxComments
    /\ \A q \in Req :
           req[q].step \in {"idle", "like", "liked", "unlike", "comment", "commented", "edit", "save"}
    /\ ops \in 0 .. MaxOps

Init ==
    /\ post = [likeCount |-> 0, commentCount |-> 0, published |-> FALSE,
               companyWide |-> TRUE, gone |-> FALSE]
    /\ likes = {} /\ comments = 0
    /\ req = [q \in Req |-> [step |-> "idle"]]
    /\ ops = 0

InFlight == {q \in Req : req[q].step # "idle"}
LikesOff == post.likeCount - Cardinality(likes)
CommentsOff == post.commentCount - comments

-----------------------------------------------------------------------------
(* Requests.  Each remembers whether it has been alone since it began, and  *)
(* how far the counters were off then; nothing depends on either.           *)

\* get_object: the post as it is now.
Begin(q, u, step) ==
    /\ req[q].step = "idle" /\ ~post.gone /\ ops < MaxOps
    /\ req' = [p \in Req |->
           IF p = q THEN [step |-> step, user |-> u, row |-> post,
                          alone |-> InFlight = {}, off |-> <<LikesOff, CommentsOff>>,
                          heals |-> FALSE]
           ELSE IF p \in InFlight THEN [req[p] EXCEPT !.alone = FALSE] ELSE req[p]]
    /\ ops' = ops + 1
    /\ UNCHANGED <<post, likes, comments>>

\* get_or_create of the like; the unique constraint keeps one per user.
GetOrCreateLike(q) ==
    /\ req[q].step = "like"
    /\ likes' = likes \cup {req[q].user}
    /\ req' = [req EXCEPT ![q].step = IF req[q].user \in likes THEN "unlike" ELSE "liked"]
    /\ UNCHANGED <<post, comments, ops>>

\* Seeded fault: one is added to what was loaded.
CountLikesByOne(q) ==
    /\ req[q].step = "liked"
    /\ req' = [req EXCEPT ![q].step = "save", ![q].heals = TRUE,
           ![q].row = [likeCount |-> req[q].row.likeCount + 1]]
    /\ UNCHANGED <<post, likes, comments, ops>>

\* A like counts the rows,
CountLikes(q) ==
    /\ req[q].step = "liked"
    /\ req' = [req EXCEPT ![q].step = "save", ![q].heals = TRUE,
           ![q].row = [likeCount |-> Cardinality(likes)]]
    /\ UNCHANGED <<post, likes, comments, ops>>

\* and taking it back deletes the row and takes one off what was loaded.
TakeBack(q) ==
    /\ req[q].step = "unlike"
    /\ likes' = likes \ {req[q].user}
    /\ req' = [req EXCEPT ![q].step = "save",
           ![q].row = [likeCount |-> IF req[q].row.likeCount = 0 THEN 0
                                     ELSE req[q].row.likeCount - 1]]
    /\ UNCHANGED <<post, comments, ops>>

AddComment(q) ==
    /\ req[q].step = "comment" /\ comments < MaxComments
    /\ comments' = comments + 1
    /\ req' = [req EXCEPT ![q].step = "commented"]
    /\ UNCHANGED <<post, likes, ops>>

CountComments(q) ==
    /\ req[q].step = "commented"
    /\ req' = [req EXCEPT ![q].step = "save", ![q].heals = TRUE,
           ![q].row = [commentCount |-> comments]]
    /\ UNCHANGED <<post, likes, comments, ops>>

\* perform_update: the serializer saves every column.
Edit(q) ==
    /\ req[q].step = "edit"
    /\ \E w \in BOOLEAN :
           req' = [req EXCEPT ![q].step = "save", ![q].row.companyWide = w]
    /\ UNCHANGED <<post, likes, comments, ops>>

\* save(update_fields=[...]), or save().
Save(q) ==
    /\ req[q].step = "save"
    /\ post' = [f \in DOMAIN post |->
           IF f \in DOMAIN req[q].row THEN req[q].row[f] ELSE post[f]]
    /\ req' = [req EXCEPT ![q] = [step |-> "idle"]]
    /\ UNCHANGED <<likes, comments, ops>>

\* destroy saves the deletion columns alone.
Destroy ==
    /\ ~post.gone /\ post' = [post EXCEPT !.gone = TRUE]
    /\ UNCHANGED <<likes, comments, req, ops>>

\* A transition to or from `published` (Workflow).
Publish ==
    /\ ~post.gone /\ post' = [post EXCEPT !.published = ~@]
    /\ UNCHANGED <<likes, comments, req, ops>>

Next ==
    \/ \E q \in Req, u \in User, step \in {"like", "comment", "edit"} : Begin(q, u, step)
    \/ \E q \in Req : \/ GetOrCreateLike(q) \/ CountLikes(q) \/ TakeBack(q)
                      \/ AddComment(q) \/ CountComments(q) \/ Edit(q) \/ Save(q)
    \/ Destroy \/ Publish

Spec == Init /\ [][Next]_vars

-----------------------------------------------------------------------------
Distance(n) == IF n < 0 THEN -n ELSE n

\* Overlapping requests leave wrong counters behind.  A request that runs alone
\* never makes them worse, and a like or a comment that runs alone puts its own
\* counter right again (views.py:186-228).
AloneIsNoWorseStep ==
    \A q \in Req : req[q].step = "save" /\ req'[q].step = "idle" /\ req[q].alone =>
        /\ Distance(LikesOff') <= Distance(req[q].off[1])
        /\ Distance(CommentsOff') <= Distance(req[q].off[2])
        /\ req[q].heals =>
               ("likeCount" \in DOMAIN req[q].row => LikesOff' = 0) /\
               ("commentCount" \in DOMAIN req[q].row => CommentsOff' = 0)
AloneIsNoWorse == [][AloneIsNoWorseStep]_vars
=============================================================================
