---------------------------- MODULE Controllers ----------------------------
(***************************************************************************)
(* The routes of the CRUD controllers: for each the name of its handler,   *)
(* the operation of the record service that it comes to, and who is let    *)
(* in: anybody, who is signed in, who has access to the chat, or admins.   *)
(* Handlers in the name of an action call it with a numeric id; those that *)
(* end in ByUid hand over the uid of their path and no id.                 *)
(***************************************************************************)

Route(name, op, who) == [name |-> name, op |-> op, who |-> who]
Routes(ops, who) == {Route(o, o, who) : o \in ops}

Reads == {"getAll", "countAll", "findOne", "findById"}

-----------------------------------------------------------------------------
(* Tables that everybody reads and admins write.                           *)
CountryWrites == Routes({"create", "update"}, "admin")
CountryReads == Routes(Reads, "user")
CountryRemoval == Routes({"delete"}, "admin")

StateWrites == Routes({"create", "update"}, "admin")
StateReads == Routes(Reads, "user")
StateRemoval == Routes({"delete"}, "admin")

PageWrites == Routes({"create", "update"}, "admin")
PageReads == Routes(Reads \ {"countAll"}, "user")
PageRemoval == Routes({"delete"}, "admin")
PageWebview == {Route("webview", "findOne", "public")}

(* Tables for admins only.  @Roles is on each handler, on the controller.  *)
TemplateRoutes == Routes({"update"} \cup (Reads \ {"countAll"}), "admin")
SettingUpdates == Routes({"update"}, "admin") \cup {Route("updateBulk", "update", "admin")}
SettingReads == Routes(Reads \ {"countAll"}, "admin")

(* Tables for everybody who is signed in.                                  *)
SampleWrites == Routes({"create", "update"}, "user")
SampleReads == Routes(Reads, "user")
SampleRemoval == Routes({"delete"}, "user")

ChannelWrites == Routes({"create", "update"}, "user")
ChannelReads == Routes(Reads, "user")
ChannelRemoval == Routes({"delete"}, "user")

ChannelMemberWrites == Routes({"create", "update"}, "user")
ChannelMemberReads == Routes(Reads, "user")
ChannelMemberRemoval == Routes({"delete"}, "user")

MessageWrites == Routes({"create", "update"}, "user")
MessageReads == Routes(Reads, "user")
MessageRemoval == Routes({"delete"}, "user")

(* Subscriptions: reads and writes by hand, beside what Stripe announces.  *)
SubscriptionWrites == Routes({"create"}, "user") \cup {Route("updateByUid", "update", "user")}
SubscriptionReads == Routes(Reads \ {"findById"}, "user")
                       \cup {Route("findByUid", "findById", "user")}
SubscriptionHistory == {Route("getMine", "getAll", "user")}
SubscriptionRemoval == {Route("deleteByUid", "delete", "user")}

(* Newsfeeds and users: NewsfeedService and UserService look at who asks.  *)
(* What changes users is in UserAccounts.                                  *)
NewsfeedWrites == Routes({"create", "update"}, "user")
NewsfeedReads == Routes(Reads, "user") \cup {Route("getMine", "getAll", "user")}
NewsfeedRemoval == {Route("deleteByUid", "delete", "user")}

UserList == Routes({"getAll"}, "user")
UserFinds == Routes({"findOne"}, "user")
               \cup {Route("getMine", "getAll", "user"), Route("findMe", "findById", "user"),
                     Route("findByUid", "findById", "user")}

(* Chats and their messages, behind ChatAccessGuard.  Creating a chat,     *)
(* sending and reading messages is in Chat.                                *)
ChatUpdate == Routes({"update"}, "chat")
ChatLists == Routes({"countAll"}, "chat") \cup {Route("getMine", "getAll", "chat")}
ChatFinds == Routes({"findOne", "findById"}, "chat")
ChatMessages == {Route("getMessages", "findById", "chat")}
ChatRemoval == Routes({"delete"}, "chat")

ChatMessageWrites == Routes({"create", "update"}, "chat")
ChatMessageReads == Routes(Reads, "chat")
ChatMessageRemoval == Routes({"delete"}, "chat")

Controllers ==
    [country |-> CountryWrites \cup CountryReads \cup CountryRemoval,
     state |-> StateWrites \cup StateReads \cup StateRemoval,
     page |-> PageWrites \cup PageReads \cup PageRemoval \cup PageWebview,
     template |-> TemplateRoutes,
     setting |-> SettingUpdates \cup SettingReads,
     sample |-> SampleWrites \cup SampleReads \cup SampleRemoval,
     channel |-> ChannelWrites \cup ChannelReads \cup ChannelRemoval,
     channel_member |-> ChannelMemberWrites \cup ChannelMemberReads \cup ChannelMemberRemoval,
     message |-> MessageWrites \cup MessageReads \cup MessageRemoval,
     subscription |-> SubscriptionWrites \cup SubscriptionReads \cup SubscriptionHistory
                       \cup SubscriptionRemoval,
     newsfeed |-> NewsfeedWrites \cup NewsfeedReads \cup NewsfeedRemoval,
     user |-> UserList \cup UserFinds,
     chat |-> ChatUpdate \cup ChatLists \cup ChatFinds \cup ChatMessages \cup ChatRemoval,
     chat_message |-> ChatMessageWrites \cup ChatMessageReads \cup ChatMessageRemoval]
=============================================================================
