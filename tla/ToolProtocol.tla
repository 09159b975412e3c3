------------------------------ MODULE ToolProtocol ------------------------------
(****************************************************************************)
(* The tables of the tool protocol: for every operation what the broker's   *)
(* handler answers (protocol.rs, handlers/bulk.rs), what the client in the  *)
(* MCP server accepts (broker/client.rs, broker/client/bulk.rs), and how each *)
(* side refuses invalid input (mcp.rs, server/routes.rs).  Operations have   *)
(* their wire names, answers the names of BrokerResponse.                   *)
(****************************************************************************)
EXTENDS Integers

\* Two tables in one: the @@ of module TLC, which proofs cannot expand.
Joined(f, g) == [op \in DOMAIN f \cup DOMAIN g |-> IF op \in DOMAIN f THEN f[op] ELSE g[op]]

\* The operations that take one resource; ListLabels and Readiness take none.
SingleOperations == {
    "list_emails", "list_labels", "create_label", "delete_label", "apply_label", "read_email",
    "mark_email_read", "mark_email_unread", "mark_email_for_deletion", "delete_marked_email",
    "list_drafts", "create_draft", "create_reply_draft", "mark_draft_for_deletion",
    "delete_marked_draft", "mark_draft_for_sending", "send_marked_draft"}

BulkOperations == {
    "read_emails", "apply_label_to_emails", "mark_emails_read", "mark_emails_unread",
    "mark_emails_for_deletion", "delete_marked_emails", "create_labels", "delete_labels",
    "create_drafts", "create_reply_drafts", "mark_drafts_for_deletion",
    "mark_drafts_for_sending", "delete_marked_drafts", "send_marked_drafts"}

Operations == SingleOperations \cup BulkOperations \cup {"readiness"}

\* The MCP tools: every operation but the readiness check.
Tools == Operations \ {"readiness"}

------------------------------------------------------------------------------
(* The broker.                                                              *)

\* handle_connection's dispatch, and what each handler answers when it succeeds.
SingleAnswer == [
    list_emails |-> "Ok", list_labels |-> "Labels", create_label |-> "LabelCreated",
    delete_label |-> "LabelDeleted", apply_label |-> "LabelApplied", read_email |-> "ReadEmail",
    mark_email_read |-> "MessageReadState", mark_email_unread |-> "MessageReadState",
    mark_email_for_deletion |-> "DeletionMarked", delete_marked_email |-> "EmailTrashed",
    list_drafts |-> "Drafts", create_draft |-> "DraftCreated",
    create_reply_draft |-> "DraftCreated", mark_draft_for_deletion |-> "DraftDeletionMarked",
    delete_marked_draft |-> "DraftDeleted", mark_draft_for_sending |-> "DraftSendingMarked",
    send_marked_draft |-> "DraftSent", readiness |-> "Ready"]

\* handle_bulk_request's dispatch.
BulkAnswer == [
    read_emails |-> "EmailsRead", apply_label_to_emails |-> "LabelsApplied",
    mark_emails_read |-> "MessagesReadState", mark_emails_unread |-> "MessagesReadState",
    mark_emails_for_deletion |-> "EmailsDeletionMarked", delete_marked_emails |-> "EmailsTrashed",
    create_labels |-> "LabelsCreated", delete_labels |-> "LabelsDeleted",
    create_drafts |-> "DraftsCreated", create_reply_drafts |-> "DraftsCreated",
    mark_drafts_for_deletion |-> "DraftsDeletionMarked",
    mark_drafts_for_sending |-> "DraftsSendingMarked",
    delete_marked_drafts |-> "DraftsDeleted", send_marked_drafts |-> "DraftsSent"]

\* Mutant: the two kinds of draft marks answered alike.
AnswerDeletionMark ==
    [Joined(SingleAnswer, BulkAnswer) EXCEPT !["mark_draft_for_sending"] = "DraftDeletionMarked"]

Answer == Joined(SingleAnswer, BulkAnswer)

\* The handlers that check has_gmail_modify_scope; in bulk, all but the reads.
NeedsModify(op) ==
    op \notin {"list_emails", "list_labels", "read_email", "read_emails", "list_drafts", "readiness"}

\* The operations that change Gmail; registering a mark does not.
Writes == {
    "create_label", "delete_label", "apply_label", "mark_email_read", "mark_email_unread",
    "delete_marked_email", "create_draft", "create_reply_draft", "delete_marked_draft",
    "send_marked_draft", "apply_label_to_emails", "mark_emails_read", "mark_emails_unread",
    "delete_marked_emails", "create_labels", "delete_labels", "create_drafts",
    "create_reply_drafts", "delete_marked_drafts", "send_marked_drafts"}

------------------------------------------------------------------------------
(* The client: for each method the one variant it takes for an answer.      *)

AcceptsListings == [list_emails |-> "Ok", list_labels |-> "Labels"]
AcceptsLabels == [
    create_label |-> "LabelCreated", delete_label |-> "LabelDeleted", apply_label |-> "LabelApplied"]
AcceptsDeletions == [
    mark_email_for_deletion |-> "DeletionMarked", delete_marked_email |-> "EmailTrashed"]
AcceptsDrafts == [
    list_drafts |-> "Drafts", create_draft |-> "DraftCreated", create_reply_draft |-> "DraftCreated",
    mark_draft_for_deletion |-> "DraftDeletionMarked", delete_marked_draft |-> "DraftDeleted",
    mark_draft_for_sending |-> "DraftSendingMarked", send_marked_draft |-> "DraftSent"]
AcceptsRead == [read_email |-> "ReadEmail"]
AcceptsStates == [
    mark_email_read |-> "MessageReadState", mark_email_unread |-> "MessageReadState"]
AcceptsReadiness == [readiness |-> "Ready"]
AcceptsBulkEmails == [
    read_emails |-> "EmailsRead", apply_label_to_emails |-> "LabelsApplied",
    mark_emails_read |-> "MessagesReadState", mark_emails_unread |-> "MessagesReadState",
    mark_emails_for_deletion |-> "EmailsDeletionMarked", delete_marked_emails |-> "EmailsTrashed"]
AcceptsBulkLabels == [create_labels |-> "LabelsCreated", delete_labels |-> "LabelsDeleted"]
AcceptsBulkDrafts == [
    create_drafts |-> "DraftsCreated", create_reply_drafts |-> "DraftsCreated",
    mark_drafts_for_deletion |-> "DraftsDeletionMarked",
    mark_drafts_for_sending |-> "DraftsSendingMarked",
    delete_marked_drafts |-> "DraftsDeleted", send_marked_drafts |-> "DraftsSent"]

AcceptsEmails ==
    Joined(Joined(AcceptsListings, AcceptsDeletions), Joined(AcceptsRead, AcceptsStates))
AcceptsSingle ==
    Joined(Joined(AcceptsEmails, AcceptsLabels), Joined(AcceptsDrafts, AcceptsReadiness))
AcceptsBulk == Joined(AcceptsBulkEmails, Joined(AcceptsBulkLabels, AcceptsBulkDrafts))
Accepts == Joined(AcceptsSingle, AcceptsBulk)

------------------------------------------------------------------------------
(* Invalid input: the same predicate at the tool, in the client and in the  *)
(* broker; the codes each of them gives it.                                 *)

\* BrokerRequest::validate.
BrokerRefusal == [op \in Operations |->
    CASE op = "create_label" -> {"invalid_label_name"}
      [] op = "delete_label" -> {"invalid_label_id"}
      [] op = "apply_label" -> {"invalid_message_id", "invalid_label_id"}
      [] op \in {"read_email", "mark_email_read", "mark_email_unread", "mark_email_for_deletion"} ->
            {"invalid_message_id"}
      [] op = "delete_marked_email" -> {"invalid_deletion_mark"}
      [] op \in {"delete_marked_draft", "send_marked_draft"} -> {"invalid_action_marker"}
      [] op \in {"list_labels", "readiness"} -> {}
      [] OTHER -> {"invalid_request"}]

\* The tools: the bulk ones, then those on messages and labels, then those on drafts.
BulkToolRefusal == [op \in BulkOperations |-> {"invalid_request"}]
EmailToolRefusal == [
    list_emails |-> {"invalid_request"}, list_labels |-> {}, create_label |-> {"invalid_label_name"},
    delete_label |-> {"invalid_label_id"},
    apply_label |-> {"invalid_message_id", "invalid_label_id"},
    read_email |-> {"invalid_message_id"}, mark_email_read |-> {"invalid_message_id"},
    mark_email_unread |-> {"invalid_message_id"}]
MarkToolRefusal == [
    mark_email_for_deletion |-> {"invalid_message_id"},
    delete_marked_email |-> {"invalid_deletion_mark"},
    list_drafts |-> {"invalid_request"}, create_draft |-> {"invalid_request"},
    create_reply_draft |-> {"invalid_request"}, mark_draft_for_deletion |-> {"invalid_request"},
    delete_marked_draft |-> {"invalid_action_marker"},
    mark_draft_for_sending |-> {"invalid_request"}, send_marked_draft |-> {"invalid_action_marker"}]

ToolRefusal == Joined(BulkToolRefusal, Joined(EmailToolRefusal, MarkToolRefusal))
================================================================================
