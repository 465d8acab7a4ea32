--------------------------- MODULE MCAgentSession ---------------------------
(* Instances of AgentSession for TLC. *)
EXTENDS AgentSession

Call(tool, to, args) == [tool |-> tool, to |-> to, args |-> args]
Send(to) == Call("send_message", to, "good")

Mail(S) == [type |-> "mail", mails |-> S]
Request(p) == [from |-> p, reply |-> FALSE]
Reply(p) == [from |-> p, reply |-> TRUE]

Plain == {}
Hub == {"hub"}
Builder == {"builder"}
HubOrBuilder == {Hub, Builder}
PlainOnly == {Plain}

(* Mail from one or two agents, requests and answers mixed, and the calls   *)
(* that send mail or fail to.                                               *)
MailTriggers ==
    {Mail({Request("p1")}), Mail({Request("p1"), Request("p2")}),
     Mail({Request("p1"), Reply("p2")}), Mail({Reply("p1")})}
MailCalls == {Send("p1"), Send("p2"), Send("owner"), Send("all"), Send("nobody"),
              Call("send_message", "p1", "badValue")}

(* The owner and another agent talk to a hub or to a builder.  A due task's *)
(* session is the owner's; a hub that lists no agents is a plain agent.     *)
OwnerTriggers == {[type |-> "irc", mails |-> {}], Mail({Request("p1")})}
OwnerCalls ==
    {Call("list_agents", "-", "good"), Call("create_plugin", "-", "good"),
     Call("read_file", "-", "good"), Call("invented", "-", "good"),
     Call("plugin", "-", "notObject"), Send("p1"), Send("all"), Send("nobody")}
=============================================================================
