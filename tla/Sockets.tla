------------------------------ MODULE Sockets -------------------------------
(***************************************************************************)
(* The TCP and UDP template of src/tcp_udp/tcp_udp.c.  Its objects carry a *)
(* descriptor, -1 from the start because no function of the template opens *)
(* one, and the flags the calls set.  The caller can put a descriptor of   *)
(* its own into a tcp_connection_t, whose fields are public; tcp_close     *)
(* then closes it.  Descriptor 0 is the process's standard input, which is *)
(* also what calloc leaves in a field nobody sets.                         *)
(*                                                                         *)
(* Every call is one step; the objects have no lock and callers use each   *)
(* from one thread.  Addresses, ports and buffers are left out.  A call    *)
(* with a NULL argument or without memory changes nothing.                 *)
(***************************************************************************)
EXTENDS Integers

CONSTANTS
    Objects,        \* addresses
    Fds,            \* descriptor numbers besides 0 that the process may get
    None            \* nothing at this address

VARIABLES
    obj,            \* address -> [type, sockfd, flags]
    fd,             \* number -> "closed", "caller" (opened by the caller), "other"
                    \* (opened by another part of the process)
    answer,         \* what the last call returned
    wronged         \* history: numbers the template closed that were not the object's to close

vars == <<obj, fd, answer, wronged>>

Types == {"tcp_server_t", "tcp_client_t", "tcp_connection_t", "udp_socket_t", "socket_multiplexer_t"}
Flags == {"is_listening", "is_connected", "is_active", "is_bound"}
Object == [type : Types, sockfd : Fds \cup {-1, 0}, flags : SUBSET Flags]

Lengths == {0, 1}       \* bound: lengths of buffers

SUCCESS == 0
ERROR_INVALID_PARAM == -2

TypeOK ==
    /\ obj \in [Objects -> Object \cup {None}]
    /\ fd \in [Fds \cup {0} -> {"closed", "caller", "other"}]
    /\ answer \in Int
    /\ wronged \subseteq Fds \cup {0}

Init ==
    /\ obj = [o \in Objects |-> None]
    /\ fd = [n \in Fds \cup {0} |-> IF n = 0 THEN "other" ELSE "closed"]
    /\ answer = 0
    /\ wronged = {}

Is(o, type) == obj[o] # None /\ obj[o].type = type

CreatedZeroed(type) == [type |-> type, sockfd |-> 0, flags |-> {}]

(* What the create functions and tcp_server_accept leave in a new object.   *)
(* A multiplexer has no descriptor.                                         *)
Created(type) == [type |-> type, sockfd |-> -1, flags |-> {}]

Create(o, type) ==
    /\ obj[o] = None
    /\ obj' = [obj EXCEPT ![o] = Created(type)]
    /\ UNCHANGED <<fd, answer, wronged>>

(* tcp_server_accept: a connection, whether the server listens or not. *)
Accept(s, o) ==
    /\ Is(s, "tcp_server_t")
    /\ obj[o] = None
    /\ obj' = [obj EXCEPT ![o] = Created("tcp_connection_t")]
    /\ answer' = SUCCESS
    /\ UNCHANGED <<fd, wronged>>

(* tcp_server_listen, tcp_client_connect, udp_bind and udp_connect only     *)
(* note that they were called.                                              *)
Mark(o, type, flag) ==
    /\ Is(o, type)
    /\ obj' = [obj EXCEPT ![o].flags = @ \cup {flag}]
    /\ answer' = SUCCESS
    /\ UNCHANGED <<fd, wronged>>

(* if (sockfd >= 0) close(sockfd): whatever the number names now. *)
CloseFd(n) ==
    /\ fd' = IF n >= 0 THEN [fd EXCEPT ![n] = "closed"] ELSE fd
    /\ wronged' = IF n >= 0 /\ fd[n] # "caller" THEN wronged \cup {n} ELSE wronged

ClosedKeepingNumber(o) == [obj[o] EXCEPT !.flags = {}]

(* What is left of an object whose descriptor has been closed. *)
Closed(o) == [obj[o] EXCEPT !.sockfd = -1, !.flags = {}]

(* tcp_server_stop, tcp_close and udp_close *)
Close(o, type) ==
    /\ Is(o, type)
    /\ CloseFd(obj[o].sockfd)
    /\ obj' = [obj EXCEPT ![o] = Closed(o)]
    /\ UNCHANGED answer

(* tcp_server_destroy, tcp_client_destroy and udp_socket_destroy close and  *)
(* free; multiplexer_destroy frees.                                         *)
Destroy(o, type) ==
    /\ Is(o, type)
    /\ CloseFd(obj[o].sockfd)
    /\ obj' = [obj EXCEPT ![o] = None]
    /\ UNCHANGED answer

(* tcp_send, udp_sendto and udp_send claim all of the data, tcp_recv,       *)
(* udp_recvfrom and udp_recv find none, whatever the flags say; an empty    *)
(* buffer is refused.                                                       *)
Transfer(o, type) ==
    /\ Is(o, type)
    /\ \E sending \in BOOLEAN, len \in Lengths :
          answer' = IF len = 0 THEN -1 ELSE IF sending THEN len ELSE 0
    /\ UNCHANGED <<obj, fd, wronged>>

(* The socket options and multiplexer_add, _modify and _remove refuse a     *)
(* negative descriptor and do nothing with another.                         *)
CheckFd(n) ==
    /\ answer' = IF n < 0 THEN ERROR_INVALID_PARAM ELSE SUCCESS
    /\ UNCHANGED <<obj, fd, wronged>>

(* multiplexer_wait: no events. *)
Wait(max_events) ==
    /\ answer' = IF max_events <= 0 THEN ERROR_INVALID_PARAM ELSE 0
    /\ UNCHANGED <<obj, fd, wronged>>

(* A call that only looks whether its arguments are there. *)
CheckPointers ==
    /\ answer' \in {SUCCESS, ERROR_INVALID_PARAM}
    /\ UNCHANGED <<obj, fd, wronged>>

-----------------------------------------------------------------------------
(* The sections of the template. *)

TcpServer(o) ==
    \/ Create(o, "tcp_server_t")
    \/ \E c \in Objects : Accept(o, c)
    \/ Mark(o, "tcp_server_t", "is_listening")
    \/ Close(o, "tcp_server_t")
    \/ Destroy(o, "tcp_server_t")

(* The data go through a connection, not through the client. *)
TcpClient(o) ==
    \/ Create(o, "tcp_client_t")
    \/ Mark(o, "tcp_client_t", "is_connected")
    \/ Transfer(o, "tcp_connection_t")
    \/ Close(o, "tcp_connection_t")
    \/ Destroy(o, "tcp_client_t")

UdpSocket(o) ==
    \/ Create(o, "udp_socket_t")
    \/ Mark(o, "udp_socket_t", "is_bound")
    \/ Mark(o, "udp_socket_t", "is_connected")
    \/ Transfer(o, "udp_socket_t")
    \/ Close(o, "udp_socket_t")
    \/ Destroy(o, "udp_socket_t")

(* resolve_address, which finds no address and so leaves nothing for        *)
(* free_address_info to free, address_to_string and string_to_address.      *)
AddressResolution == CheckPointers

SocketOptions == \E n \in {-1, 0} : CheckFd(n)

(* internal_data is NULL from the start to the end. *)
Multiplexer(o) ==
    \/ Create(o, "socket_multiplexer_t")
    \/ Is(o, "socket_multiplexer_t") /\ \E n \in {-1, 0} : CheckFd(n)
    \/ Is(o, "socket_multiplexer_t") /\ \E n \in {0, 1} : Wait(n)
    \/ Destroy(o, "socket_multiplexer_t")

(* The echo clients; the echo servers always succeed. *)
Echo == CheckPointers

-----------------------------------------------------------------------------
(* The rest of the process. *)

(* The caller or somebody else opens a descriptor. *)
Open(n, who) ==
    /\ fd[n] = "closed"
    /\ fd' = [fd EXCEPT ![n] = who]
    /\ UNCHANGED <<obj, answer, wronged>>

(* The caller hands a descriptor of its own to one connection. *)
Adopt(o, n) ==
    /\ Is(o, "tcp_connection_t")
    /\ obj[o].sockfd = -1
    /\ fd[n] = "caller"
    /\ \A p \in Objects : obj[p] # None => obj[p].sockfd # n
    /\ obj' = [obj EXCEPT ![o].sockfd = n, ![o].flags = @ \cup {"is_active"}]
    /\ UNCHANGED <<fd, answer, wronged>>

(* free() of a connection, which the template has no function for. *)
FreeConnection(o) ==
    /\ Is(o, "tcp_connection_t")
    /\ obj' = [obj EXCEPT ![o] = None]
    /\ UNCHANGED <<fd, answer, wronged>>

Next ==
    \/ \E o \in Objects :
          \/ TcpServer(o) \/ TcpClient(o) \/ UdpSocket(o) \/ Multiplexer(o)
          \/ FreeConnection(o)
          \/ \E n \in Fds : Adopt(o, n)
    \/ AddressResolution \/ SocketOptions \/ Echo
    \/ \E n \in Fds, who \in {"caller", "other"} : Open(n, who)

Spec == Init /\ [][Next]_vars

-----------------------------------------------------------------------------
(* Properties. *)

(* The template closes a descriptor only if the caller gave it that one and *)
(* has not had it closed before: however often objects are stopped, closed  *)
(* and destroyed, standard input stays open, and a number that was closed   *)
(* and given to another part of the process is left alone.                  *)
NobodysDescriptorClosed == wronged = {}
=============================================================================
