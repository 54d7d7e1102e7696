----------------------------- MODULE MCNodeTree -----------------------------
(***************************************************************************)
(* A tree of this session, another one and one configuration subtree         *)
(*     /Sessions/conn/{NewNodes, Errors, QueryResults}                      *)
(*     /Sessions/peer/NewNodes/a                                            *)
(*     /cfg/{if=1, if=2, z}   with /cfg/z/lock read-only                    *)
(* The two "if" siblings share a key, as arrays do.  The configuration is    *)
(* there before the first session connects.                                 *)
(***************************************************************************)
EXTENDS NodeTree, TLC

MCNodes == {"root", "ss", "cn", "nn", "er", "qr", "cfg", "x", "y", "z", "lock",
            "f1", "f2", "pc", "pn", "pa"}

\* The session is "admin"; another identity's rules must not count.
MCPolicy ==
    [open       |-> FALSE,
     readOnly   |-> {<<"cfg", "z", "lock">>},
     identities |->
        "admin" :> [read |-> {}, write |-> {<<"cfg">>}, delete |-> {<<"cfg", "if">>}]
        @@ "*"    :> [read |-> {<<"cfg">>}, write |-> {},
                    delete |-> {<<"cfg", "z">>, <<"cfg", "a">>}]
        @@ "root" :> [read |-> {<<>>}, write |-> {<<>>}, delete |-> {<<>>}]]

MCKids == ("root" :> <<"cfg", "ss">>) @@ ("ss" :> <<"pc", "cn">>)
          @@ ("pc" :> <<"pn">>) @@ ("pn" :> <<"pa">>)
          @@ ("cn" :> <<"nn", "er", "qr">>) @@ ("cfg" :> <<"x", "y", "z">>)
          @@ ("z" :> <<"lock">>)

MCKey == ("root" :> "/") @@ ("ss" :> "Sessions") @@ ("cn" :> "conn")
         @@ ("nn" :> "NewNodes") @@ ("er" :> "Errors") @@ ("qr" :> "QueryResults") @@ ("cfg" :> "cfg")
         @@ ("pc" :> "peer") @@ ("pn" :> "NewNodes") @@ ("pa" :> "a")
         @@ ("x" :> "if") @@ ("y" :> "if") @@ ("z" :> "z") @@ ("lock" :> "lock")

MCInitialTree ==
    [kids |-> MCKids @@ [n \in MCNodes |-> <<>>],
     up   |-> [n \in MCNodes |->
                  IF \E p \in DOMAIN MCKids : Contains(MCKids[p], n)
                  THEN CHOOSE p \in DOMAIN MCKids : Contains(MCKids[p], n)
                  ELSE NoNode],
     val  |-> ("y" :> 2) @@ [n \in MCNodes |-> 1],
     key  |-> MCKey @@ [n \in MCNodes |-> NoNode]]

\* Expressions.
K(k)     == [keys |-> {k}, vals |-> {}]
KV(k, v) == [keys |-> {k}, vals |-> {v}]

Cfg     == <<K("cfg")>>
Ifs     == <<K("cfg"), K("if")>>
If1     == <<K("cfg"), KV("if", 1)>>
If2     == <<K("cfg"), KV("if", 2)>>
Z       == <<K("cfg"), K("z")>>
Lock    == <<K("cfg"), K("z"), K("lock")>>
AnyCfg  == <<K("cfg"), [keys |-> {"if", "z", "a"}, vals |-> {}]>>
A       == <<K("cfg"), K("a")>>
Staging == <<K("Sessions"), K("conn"), K("NewNodes")>>
SA      == Staging \o <<K("a")>>
SB      == Staging \o <<K("b")>>
Anyones == <<K("Sessions"), [keys |-> {"conn", "peer"}, vals |-> {}], K("NewNodes")>>
AnyA    == Anyones \o <<K("a")>>
Peers   == <<K("Sessions"), K("peer"), K("NewNodes")>>
SAB     == SA \o <<K("b")>>
Results == <<K("Sessions"), K("conn"), K("QueryResults")>>
AllOf(c) == <<K("Sessions"), K("conn"), K(c), [keys |-> {"Query", "Error"}, vals |-> {}]>>
Query   == Results \o <<K("Query")>>

NoEdit(e)    == [target |-> e, value |-> {}, first |-> Keep, next |-> Keep, parent |-> Keep]
Value(e, v)  == [NoEdit(e) EXCEPT !.value = {v}]
First(e, p)  == [NoEdit(e) EXCEPT !.first = p]
NextTo(e, p) == [NoEdit(e) EXCEPT !.next = p]
Parent(e, p) == [NoEdit(e) EXCEPT !.parent = To(p)]

MCCreates == {[parent |-> <<>>, key |-> "a", val |-> 1],
              [parent |-> <<>>, key |-> "b", val |-> 1],
              [parent |-> Peers, key |-> "b", val |-> 1],
              [parent |-> SA, key |-> "b", val |-> 1],
              [parent |-> Cfg, key |-> "a", val |-> 1]}

\* No edit here relinks backwards; see the runs named after those requests.
Edits == {Value(Ifs, 2), Value(If1, 2), Value(AnyA, 2),
          First(Cfg, Detach), First(Cfg, To(Z)), First(Cfg, To(If1)),
          NextTo(If1, To(Z)), NextTo(If1, Detach), NextTo(Z, Detach),
          Parent(AnyA, Cfg), Parent(SA, If1), Parent(SAB, Cfg), Parent(SA, SB),
          Parent(SA, SAB)}

\* Edits that are never accepted, so that one of them is enough in a Set.
RefusedEdits == {Value(Lock, 2), Parent(If1, Z), Parent(SA, Peers),
                 First(Staging, Detach), First(Results, Detach),
                 First(Peers, Detach), NextTo(Cfg, Detach)}

MCSets == {<<e>> : e \in Edits \cup RefusedEdits} \cup {<<e, f>> : e, f \in Edits}
          \cup {<<Value(If1, 2), e>> : e \in RefusedEdits}
          \cup {<<Value(Ifs, 2), Parent(SA, Cfg), e>> : e \in Edits}
          \cup {<<Parent(SA, If1), NextTo(If1, To(Z)), e>> : e \in Edits}

MCDeletes == {<<Ifs>>, <<If1>>, <<If2>>, <<Z>>, <<AnyCfg>>, <<If1, Ifs>>, <<Query>>, <<AllOf("Errors")>>,
              <<AnyA>>, <<SA, SAB>>, <<Peers>>, <<Staging>>, <<A>>, <<Lock>>}

\* Requests of the runs that show what a single Set can still do.
RollbackSets == {<<Value(Z, 2), [Value(Z, 1) EXCEPT !.first = To(If1)]>>}
BackwardSets == {<<NextTo(Z, To(If1))>>}
CycleSets    == {<<Parent(SA, SB), Parent(SB, SA)>>}
=============================================================================
