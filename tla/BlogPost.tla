------------------------------- MODULE BlogPost -------------------------------
(***************************************************************************)
(* A blog post: writing and moderation (blog.service.ts), comments and      *)
(* replies, votes and shares with their counters on the post.  A vote or a  *)
(* share is a row of its own and a counter, written by two statements; a    *)
(* moderation reads the post and then updates it by id.                     *)
(***************************************************************************)
EXTENDS Integers, FiniteSets

CONSTANTS Users,      \* readers
          Workers,    \* requests of readers served at the same time
          UserOf,     \* who makes a request
          Staff,      \* requests of the author and of administrators
          Comments,   \* BlogComment.id
          MaxShares   \* bound on the shares of the post

BlogPostAssumption ==
    /\ IsFiniteSet(Users) /\ IsFiniteSet(Workers)
    /\ UserOf \in [Workers -> Users]
    /\ MaxShares \in Nat

VARIABLES
    status,      \* BlogPost.status; "none" before and after its life
    published,   \* BlogPost.published
    dated,       \* is BlogPost.publishedAt set?
    decision,    \* what a moderation request is about to write
    vote,        \* BlogVote.type of each reader
    likes, dislikes,
    shareRows,   \* BlogShare rows
    shares,      \* BlogPost.shares
    parent,      \* BlogComment.parentId; "top" for a comment, "none" for no row
    request      \* the statement a reader's request is about to perform

postVars    == <<status, published, dated>>
voteVars    == <<vote, likes, dislikes>>
shareVars   == <<shareRows, shares>>
vars == <<postVars, decision, voteVars, shareVars, parent, request>>

Types == {"LIKE", "DISLIKE"}
Done  == [step |-> "done"]

Init ==
    /\ status = "none" /\ published = FALSE /\ dated = FALSE
    /\ decision = [s \in Staff |-> Done]
    /\ vote = [u \in Users |-> "none"]
    /\ likes = 0 /\ dislikes = 0
    /\ shareRows = 0 /\ shares = 0
    /\ parent = [c \in Comments |-> "none"]
    /\ request = [w \in Workers |-> Done]

Exists == status # "none"

\* What findAll shows to the public, and what may be commented and shared.
Public == status = "APPROVED" /\ published

-----------------------------------------------------------------------------
(* Writing and moderation.                                                   *)

\* create: always PENDING, and published at once when the author says so.
Create(p) ==
    /\ status = "none"
    /\ status' = "PENDING" /\ published' = p /\ dated' = p
    /\ UNCHANGED <<decision, voteVars, shareVars, parent, request>>

Decide(s, d) ==
    /\ Exists
    /\ decision[s] = Done
    /\ decision' = [decision EXCEPT ![s] = d]
    /\ UNCHANGED <<postVars, voteVars, shareVars, parent, request>>

Approve(s)   == status # "APPROVED" /\ Decide(s, [step |-> "status", to |-> "APPROVED"])
Reject(s)    == Decide(s, [step |-> "status", to |-> "REJECTED"])
Publish(s)   == status = "APPROVED" /\ Decide(s, [step |-> "publish", to |-> TRUE, redate |-> TRUE])
Unpublish(s) == Decide(s, [step |-> "publish", to |-> FALSE, redate |-> TRUE])

\* Mutant of Update: publishedAt is left alone.
Mut_UpdateUndated(s, p) == Decide(s, [step |-> "publish", to |-> p, redate |-> FALSE])

\* update writes publishedAt when `published' differs from what it has read.
Update(s, p) == Decide(s, [step |-> "publish", to |-> p, redate |-> p # published])

\* The update by id fails on a deleted post.
WriteDecision(s) ==
    LET d == decision[s] IN
    /\ d # Done
    /\ decision' = [decision EXCEPT ![s] = Done]
    /\ IF ~Exists THEN UNCHANGED postVars
       ELSE /\ status'    = IF d.step = "status" THEN d.to ELSE status
            /\ published' = IF d.step = "status" THEN published ELSE d.to
            /\ dated'     = IF d.step = "status" \/ ~d.redate THEN dated ELSE d.to
    /\ UNCHANGED <<voteVars, shareVars, parent, request>>

\* Votes, shares and comments are deleted with the post; a later post is another one.
Remove ==
    /\ Exists
    /\ status' = "none" /\ published' = FALSE /\ dated' = FALSE
    /\ vote' = [u \in Users |-> "none"] /\ likes' = 0 /\ dislikes' = 0
    /\ shareRows' = 0 /\ shares' = 0
    /\ parent' = [c \in Comments |-> "none"]
    /\ request' = [w \in Workers |-> Done]
    /\ decision' = [s \in Staff |-> Done]

-----------------------------------------------------------------------------
(* Votes.                                                                    *)

Ask(w, r) ==
    /\ Exists
    /\ request[w] = Done
    /\ request' = [request EXCEPT ![w] = r]
    /\ UNCHANGED <<postVars, decision, voteVars, shareVars, parent>>

\* vote reads the reader's row and decides on the row and the counters from it; voting
\* the same way again takes the vote back.
Vote(w, t) ==
    LET old == vote[UserOf[w]] IN
    Ask(w, [step |-> "row", old |-> old, new |-> IF old = t THEN "none" ELSE t])

\* A row is created once per reader and deleted or updated by its id.
RowAccepts(old, now) == IF old = "none" THEN now = "none" ELSE now # "none"

WriteVote(w) ==
    LET r == request[w]
        u == UserOf[w] IN
    /\ r.step = "row"
    /\ IF RowAccepts(r.old, vote[u])
       THEN /\ vote' = [vote EXCEPT ![u] = r.new]
            /\ request' = [request EXCEPT ![w] = [r EXCEPT !.step = "count"]]
       ELSE /\ UNCHANGED vote
            /\ request' = [request EXCEPT ![w] = Done]
    /\ UNCHANGED <<postVars, decision, likes, dislikes, shareVars, parent>>

One(b) == IF b THEN 1 ELSE 0

\* Mutant of CountVote: a changed vote leaves the counter it leaves.
Mut_CountNewOnly(w) ==
    LET r == request[w] IN
    /\ r.step = "count"
    /\ likes' = likes + One(r.new = "LIKE") - One(r.old = "LIKE" /\ r.new = "none")
    /\ dislikes' = dislikes + One(r.new = "DISLIKE") - One(r.old = "DISLIKE" /\ r.new = "none")
    /\ request' = [request EXCEPT ![w] = Done]
    /\ UNCHANGED <<postVars, decision, vote, shareVars, parent>>

\* Mutant of CountVote: every vote takes one from the other counter.
Mut_CountOtherDown(w) ==
    LET r == request[w] IN
    /\ r.step = "count"
    /\ likes' = likes + One(r.new = "LIKE") - One(r.new = "DISLIKE")
    /\ dislikes' = dislikes + One(r.new = "DISLIKE") - One(r.new = "LIKE")
    /\ request' = [request EXCEPT ![w] = Done]
    /\ UNCHANGED <<postVars, decision, vote, shareVars, parent>>

\* The counters move by what the request has read, atomically.
CountVote(w) ==
    LET r == request[w] IN
    /\ r.step = "count"
    /\ likes' = likes + One(r.new = "LIKE") - One(r.old = "LIKE")
    /\ dislikes' = dislikes + One(r.new = "DISLIKE") - One(r.old = "DISLIKE")
    /\ request' = [request EXCEPT ![w] = Done]
    /\ UNCHANGED <<postVars, decision, vote, shareVars, parent>>

-----------------------------------------------------------------------------
(* Shares.                                                                   *)

Share(w) == Public /\ shareRows < MaxShares /\ Ask(w, [step |-> "share"])

WriteShare(w) ==
    /\ request[w].step = "share"
    /\ shareRows < MaxShares
    /\ shareRows' = shareRows + 1
    /\ request' = [request EXCEPT ![w] = [step |-> "countShare"]]
    /\ UNCHANGED <<postVars, decision, voteVars, shares, parent>>

CountShare(w) ==
    /\ request[w].step = "countShare"
    /\ shares' = shares + 1
    /\ request' = [request EXCEPT ![w] = Done]
    /\ UNCHANGED <<postVars, decision, voteVars, shareRows, parent>>

-----------------------------------------------------------------------------
(* Comments.                                                                 *)

Present(c) == parent[c] # "none"

\* The post is public and the parent is a comment of the post, when they are looked up.
Comment(w, c, p) ==
    /\ Public
    /\ ~Present(c)
    /\ \A v \in Workers : ~(request[v].step = "comment" /\ request[v].of = c)
    /\ p = "top" \/ (p \in Comments /\ p # c /\ Present(p))
    /\ Ask(w, [step |-> "comment", of |-> c, under |-> p])

\* The insert fails when the parent is gone.
WriteComment(w) ==
    LET r == request[w] IN
    /\ r.step = "comment"
    /\ parent' = IF r.under = "top" \/ (r.under \in Comments /\ Present(r.under))
                 THEN [parent EXCEPT ![r.of] = r.under] ELSE parent
    /\ request' = [request EXCEPT ![w] = Done]
    /\ UNCHANGED <<postVars, decision, voteVars, shareVars>>

\* A comment is deleted with its replies and theirs.
Replies(cs) == {c \in Comments : parent[c] \in cs}
Thread(c)   == LET one == {c} \cup Replies({c})
               IN one \cup Replies(one)

RemoveComment(c) ==
    /\ Present(c)
    /\ parent' = [d \in Comments |-> IF d \in Thread(c) THEN "none" ELSE parent[d]]
    /\ UNCHANGED <<postVars, decision, voteVars, shareVars, request>>

-----------------------------------------------------------------------------
Moderate(s) ==
    \/ Approve(s) \/ Reject(s) \/ Publish(s) \/ Unpublish(s)
    \/ \E p \in BOOLEAN : Update(s, p)
    \/ WriteDecision(s)

Read(w) ==
    \/ \E t \in Types : Vote(w, t)
    \/ Share(w)
    \/ \E c \in Comments, p \in Comments \cup {"top"} : Comment(w, c, p)

Serve(w) == WriteVote(w) \/ CountVote(w) \/ WriteShare(w) \/ CountShare(w) \/ WriteComment(w)

Next ==
    \/ \E p \in BOOLEAN : Create(p)
    \/ \E s \in Staff : Moderate(s)
    \/ \E w \in Workers : Read(w) \/ Serve(w)
    \/ \E c \in Comments : RemoveComment(c)
    \/ Remove

Spec == Init /\ [][Next]_vars
-----------------------------------------------------------------------------
(* Properties.                                                               *)

VoteRequests == [step : {"row", "count"}, old : Types \cup {"none"}, new : Types \cup {"none"}]
OtherRequests ==
    {Done, [step |-> "share"], [step |-> "countShare"]}
    \cup [step : {"comment"}, of : Comments, under : Comments \cup {"top"}]

TypeOK ==
    /\ status \in {"none", "PENDING", "APPROVED", "REJECTED"}
    /\ published \in BOOLEAN /\ dated \in BOOLEAN
    /\ vote \in [Users -> Types \cup {"none"}]
    /\ likes \in Nat /\ dislikes \in Nat
    /\ shareRows \in 0..MaxShares /\ shares \in Nat
    /\ parent \in [Comments -> Comments \cup {"top", "none"}]
    /\ request \in [Workers -> VoteRequests \cup OtherRequests]

\* The vote of a reader the counters stand for: a request between its two statements has
\* changed the row and not yet the counter.
Uncounted(u) == {w \in Workers : UserOf[w] = u /\ request[w].step = "count"}
Counted(u)   == IF Uncounted(u) = {} THEN vote[u]
                ELSE request[CHOOSE w \in Uncounted(u) : TRUE].old

\* However the votes of different readers overlap, the counters of the post are the rows,
\* up to the requests that have written the one and not the other.
CountersFollowTheRows ==
    /\ likes    = Cardinality({u \in Users : Counted(u) = "LIKE"})
    /\ dislikes = Cardinality({u \in Users : Counted(u) = "DISLIKE"})
    /\ shareRows = shares + Cardinality({w \in Workers : request[w].step = "countShare"})

\* A published post has a date of publication, which every list sorts by, and no other has,
\* through any sequence of creating, publishing, editing and withdrawing it.
PublishedHasADate == published <=> dated
=============================================================================
