---------------------------- MODULE NameService -----------------------------
(***************************************************************************)
(* What the mapping server promises, with keys, sockets and threads         *)
(* forgotten: a lookup finds an address that was registered under the name; *)
(* it finds none only if there was none, or while a registration is under   *)
(* way; what it found is what the asker reads, or the asker cannot read     *)
(* anything.  A registration is lost only to another one under way.         *)
(* Module MappingServer is shown to implement this specification.           *)
(***************************************************************************)
EXTENDS Naturals

CONSTANTS Conns,             \* the requests
          AllNames, Addresses,
          Predefined,        \* <<name, address>> pairs registered from the start
          NotFound, Unread, Garbled

VARIABLES registered,   \* every <<name, address>> that was registered
          registering,  \* the registrations under way
          found,        \* <<name, address or NotFound>> that a lookup found
          read          \* what the asker read

vars == <<registered, registering, found, read>>

Init == /\ registered = Predefined
        /\ registering = {}
        /\ found = [c \in Conns |-> Unread]
        /\ read = [c \in Conns |-> Unread]

Begin(c) == /\ registering' = registering \cup {c}
            /\ UNCHANGED <<registered, found, read>>

Register(c) == /\ c \in registering
               /\ registering' = registering \ {c}
               /\ \E u \in AllNames, a \in Addresses :
                    registered' = registered \cup {<<u, a>>}
               /\ UNCHANGED <<found, read>>

Lose(c) == /\ c \in registering
           /\ registering # {c}
           /\ registering' = registering \ {c}
           /\ UNCHANGED <<registered, found, read>>

Find(c) == /\ found[c] = Unread
           /\ \E u \in AllNames, a \in Addresses \cup {NotFound} :
                /\ IF a = NotFound
                   THEN registering # {} \/ \A p \in registered : p[1] # u
                   ELSE <<u, a>> \in registered
                /\ found' = [found EXCEPT ![c] = <<u, a>>]
           /\ UNCHANGED <<registered, registering, read>>

Read(c) == /\ found[c] # Unread
           /\ read[c] = Unread
           /\ \E r \in {found[c][2], Garbled} : read' = [read EXCEPT ![c] = r]
           /\ UNCHANGED <<registered, registering, found>>

Next == \E c \in Conns : Begin(c) \/ Register(c) \/ Lose(c) \/ Find(c) \/ Read(c)

Spec == Init /\ [][Next]_vars
=============================================================================
