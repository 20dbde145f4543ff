---------------------------- MODULE MCEventLoop ----------------------------
(* EventLoop for TLC: polls of one fd and, beyond ShortItemOptimization, of *)
(* two; b is an fd that epoll refuses, such as a regular file.             *)
EXTENDS EventLoop, TLC

CONSTANTS f, g, b

NoPolls == {}
OnePoll == {<<f>>}
TwoPolls == {<<f>>, <<f, g>>}
SomePolls == {<<f>>, <<b>>, <<f, g>>, <<f, b>>}

Symmetry == Permutations(Co)

=============================================================================
