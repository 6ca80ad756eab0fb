----------------------------- MODULE MCBackend -----------------------------
(* Instances of Backend for TLC: two users, and a third who may register. *)
EXTENDS Backend, TLC

CONSTANTS u1, u2, p1, p2, p3, bad, w1, w2, short, a, b

MCInitUsers == {[id |-> u1, phone |-> p1, password |-> w1],
                [id |-> u2, phone |-> p2, password |-> w2]}

Blank == [id |-> NoId, userId |-> NoId, user |-> NoId, set |-> [k \in Columns |-> Absent]]

\* The body that gives column k the value v.
Give(k, v) == [Blank EXCEPT !.set[k] = v]

MCBodies ==
    {Blank, Give(a, 1), Give(a, 2), Give(b, 9),
     [Blank EXCEPT !.userId = u2], [Give(a, 2) EXCEPT !.user = u1],
     [Give(b, 1) EXCEPT !.id = 1, !.userId = u1], [Give(a, 2) EXCEPT !.id = 1]}

MCCall == [route |-> "me", phone |-> p1, password |-> w1, token |-> NoId,
           id |-> NoId, body |-> Blank, file |-> "none"]

With(route, token) == [MCCall EXCEPT !.route = route, !.token = token]
Sign(route, p, w) == [MCCall EXCEPT !.route = route, !.phone = p, !.password = w]
PutCall(t, i, c) == [With("putProfile", t) EXCEPT !.id = i, !.body = c]
File(t, f) == [With("upload", t) EXCEPT !.file = f]

MCCalls ==
    {Sign("register", p3, w1), Sign("register", p3, w2), Sign("register", bad, w1),
     Sign("login", p3, w1), Sign("login", p1, short), With("me", NoId), With("me", 1),
     [With("user", NoId) EXCEPT !.id = 2],
     PutCall(u1, u1, Give(a, 1)), PutCall(u1, u1, Give(a, 2)),
     PutCall(u2, u1, Give(a, 2)), With("myProfile", u1),
     PutCall(u1, u1, Give(b, 9)), PutCall(u1, u1, [Blank EXCEPT !.userId = u2]),
     PutCall(u2, u2, [Give(a, 2) EXCEPT !.user = u1]),
     PutCall(u1, u1, [Give(b, 1) EXCEPT !.id = 1, !.userId = u1]),
     PutCall(u2, u2, [Give(a, 2) EXCEPT !.id = 1]),
     File(u1, "image"), File(u2, "large"), With("swipe", u1)}

MCRequests == 1 .. 3
=============================================================================
