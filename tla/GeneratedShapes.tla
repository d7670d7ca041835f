--------------------------- MODULE GeneratedShapes ---------------------------
(***************************************************************************)
(* The two shapes that the generated file of a type has, and what an       *)
(* accessor and a case of ForResource are made from.  A group and version  *)
(* is the end of the Go package's path ("core/v1"), which stands for the   *)
(* version of the API as well; the client's CoreV1() goes by it, too.      *)
(***************************************************************************)

\* An informer is known by what its list and watch functions ask the server for,
\* whether they ask namespace by namespace, the type of its objects, the type it is
\* filed under by InformerFor, and the type that its lister casts objects to.  In
\* every file List and Watch agree, and so do the three types and the client's
\* version.
GeneratedInformer(gv, resource, kind, perNamespace) ==
    [lists |-> <<gv, resource>>, perNamespace |-> perNamespace, onSet |-> FALSE,
     object |-> <<gv, kind>>, key |-> <<gv, kind>>, lister |-> <<gv, kind>>]

\* A multi-namespace informer on a namespace set.
PerNamespace(gv, resource, kind) == GeneratedInformer(gv, resource, kind, TRUE)

\* A plain client-go informer.
ClusterWide(gv, resource, kind) == GeneratedInformer(gv, resource, kind, FALSE)

\* The accessor hands over the factory's namespace set.
OnSet(i) == [i EXCEPT !.onSet = TRUE]

\* The cases of a switch for one version: resource by resource, the accessor called.
Cases(gv, group, version, accessors) ==
    {[resource |-> <<gv, r>>, path |-> <<group, version, accessors[r]>>]
        : r \in DOMAIN accessors}

\* The paths of a factory's accessors, such as Core().V1().Pods(), and the type's
\* file at the end of one.
AccessorsOf(f) == UNION {UNION {{<<g, v, a>> : a \in DOMAIN f.groups[g][v]}
                                : v \in DOMAIN f.groups[g]} : g \in DOMAIN f.groups}

FileAt(f, path) == f.groups[path[1]][path[2]][path[3]]

\* A factory's tables fit together: no two files share a Go type or a resource, a
\* lister casts to what its informer holds, every accessor that needs the namespace
\* set hands it over, a case leads to an accessor of its resource, and every
\* accessor's resource has one.
Matching(f) ==
    LET paths == AccessorsOf(f)
    IN  /\ \A p, q \in paths :
              /\ FileAt(f, p).key = FileAt(f, q).key => FileAt(f, p) = FileAt(f, q)
              /\ FileAt(f, p).lists = FileAt(f, q).lists => FileAt(f, p) = FileAt(f, q)
        /\ \A p \in paths :
              /\ FileAt(f, p).lister = FileAt(f, p).object
              /\ FileAt(f, p).perNamespace => FileAt(f, p).onSet
              /\ \E c \in f.cases : c.resource = FileAt(f, p).lists
        /\ \A c \in f.cases : c.path \in paths /\ FileAt(f, c.path).lists = c.resource
=============================================================================
